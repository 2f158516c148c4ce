-------------------------- MODULE HardwareKeys_proofs --------------------------
(***************************************************************************)
(* Proofs about the hardware keys: the recall of a pressed key against the *)
(* plays of the app (HardwareRecall), for any number of presses, plays of  *)
(* the app, attempts and events; and the re-sync of the keys (KeyResync),  *)
(* for any number of askers, slots, boxEvents and failures.                *)
(***************************************************************************)
EXTENDS HardwareRecall, KeyResync, TLAPS

\* Sequence numbers are drawn in order, and only by begun presses.
SeqInv ==
  \A p \in Press : seq[p] <= pressSeq /\ (pc[p] = "idle" <=> seq[p] = 0)

\* Generations are drawn in order, each by one play, and not before its record.
BeforeRecord == {"idle", "start", "spotifyPush", "check", "note",
                 "slotWake", "urlNote", "appPush", "appRecord"}
GenInv ==
  /\ \A x \in Play : gen[x] <= recallGen
  /\ \A x \in Play : pc[x] \in BeforeRecord => gen[x] = 0
  /\ \A x, y \in Play : gen[x] # 0 /\ gen[x] = gen[y] => x = y

\* A stop is never stamped in the future.
ClockInv == userStop <= clock /\ \A x \in Play : at[x] <= clock

\* Where a play that has already pushed late can be: no further push lies ahead
\* without a gate in between, and the gate will not let it pass.
Spent(x) ==
  IF x \in Press
  THEN \/ pc[x] \in {"wake", "probe", "tick", "done"}
       \/ kind[x] = "spotify" /\ pc[x] \in {"check", "note"}
  ELSE pc[x] \in {"appTick", "appLock", "done"}
LateInv ==
  /\ \A p \in Press : pc[p] = "spotifyPush" => kind[p] = "spotify"
  /\ \A x \in Play : late[x] # 0 => late[x] = 1 /\ Overruled(x) /\ Spent(x)

\* The steps under boxCmdMu, and who can overtake a retry there.
Locked == {"slotWake", "urlNote", "appPush", "appRecord", "appRetry"}
LockInv ==
  \A a \in App :
    /\ pc[a] \in Locked => boxCmdMu = a
    /\ pc[a] = "appRetry" => gen[a] # 0 /\ (gen[a] # recallGen => lastPlay \in Press)
    /\ pc[a] \in {"appTick", "appLock"} => gen[a] # 0

IInv == SeqInv /\ GenInv /\ ClockInv /\ LateInv /\ LockInv /\ RecordIsNewest

\* The invariant holds in the initial states.
LEMMA InitInv == Init => TypeOK /\ IInv
  BY ConstantsAssumption DEF Init, TypeOK, IInv, SeqInv, GenInv, ClockInv, LateInv,
     LockInv, Locked, RecordIsNewest, Play

\* No step of a press leaves the types.
LEMMA PressStepType ==
  ASSUME TypeOK, NEW p \in Press, PressStep(p)
  PROVE TypeOK'
  <1> USE ConstantsAssumption DEF TypeOK, Play, PressPCs, AppPCs, Goto, context, self,
          HandsOff, record, box, stamps
  <1>1. CASE RecallDeclined(p) BY <1>1 DEF RecallDeclined
  <1>2. CASE RecallNative(p) BY <1>2 DEF RecallNative, SetLastPlay
  <1>3. CASE RecallStart(p) BY <1>3 DEF RecallStart
  <1>4. CASE SpotifyPush(p) BY <1>4 DEF SpotifyPush, PushURI
  <1>5. CASE RecallCheck(p) BY <1>5 DEF RecallCheck
  <1>6. CASE RecallNote(p) BY <1>6 DEF RecallNote, SetLastPlay
  <1>7. CASE RecallPush(p) BY <1>7 DEF RecallPush, PushURI
  <1>8. CASE RecallWake(p) BY <1>8 DEF RecallWake, Wake
  <1>9. CASE RejectProbe(p) BY <1>9 DEF RejectProbe
  <1>10. CASE RejectWake(p) BY <1>10 DEF RejectWake, Wake
  <1>11. CASE RejectGate(p) BY <1>11 DEF RejectGate
  <1>12. CASE RejectClear(p) BY <1>12 DEF RejectClear
  <1>13. CASE RejectPush(p) BY <1>13 DEF RejectPush, PushURI
  <1>14. CASE VerifyTick(p) BY <1>14 DEF VerifyTick
  <1>15. CASE NudgeGate(p) BY <1>15 DEF NudgeGate
  <1>16. CASE NudgeToggle(p) BY <1>16 DEF NudgeToggle
  <1>17. CASE VerifyWake(p) BY <1>17 DEF VerifyWake, Wake
  <1>18. CASE VerifyGate(p) BY <1>18 DEF VerifyGate
  <1>19. CASE VerifyPush(p) BY <1>19 DEF VerifyPush, PushURI
  <1>20. CASE SpotifyTick(p) BY <1>20 DEF SpotifyTick
  <1>21. CASE SpotifyRepoint(p) BY <1>21 DEF SpotifyRepoint, PushURI
  <1> QED BY <1>1, <1>2, <1>3, <1>4, <1>5, <1>6, <1>7, <1>8, <1>9, <1>10, <1>11,
             <1>12, <1>13, <1>14, <1>15, <1>16, <1>17, <1>18, <1>19, <1>20, <1>21
          DEF PressStep

\* No step of a press breaks the invariant.
LEMMA PressStepInv ==
  ASSUME TypeOK, TypeOK', IInv, NEW p \in Press, PressStep(p)
  PROVE IInv'
  <1> USE ConstantsAssumption DEF TypeOK, IInv, Play, Goto, context, self, HandsOff, record,
          box, stamps, SeqInv, GenInv, ClockInv, LateInv, LockInv, Locked, RecordIsNewest, Spent,
          Overruled, Superseded, UserStoppedSince, BeforeRecord
  <1>1. CASE RecallDeclined(p) BY <1>1 DEF RecallDeclined
  <1>2. CASE RecallNative(p) BY <1>2 DEF RecallNative, SetLastPlay
  <1>3. CASE RecallStart(p) BY <1>3 DEF RecallStart
  <1>4. CASE SpotifyPush(p) BY <1>4 DEF SpotifyPush, PushURI
  <1>5. CASE RecallCheck(p) BY <1>5 DEF RecallCheck
  <1>6. CASE RecallNote(p) BY <1>6 DEF RecallNote, SetLastPlay
  <1>7. CASE RecallPush(p) BY <1>7 DEF RecallPush, PushURI
  <1>8. CASE RecallWake(p) BY <1>8 DEF RecallWake, Wake
  <1>9. CASE RejectProbe(p) BY <1>9 DEF RejectProbe, StandDown
  <1>10. CASE RejectWake(p) BY <1>10 DEF RejectWake, Wake
  <1>11. CASE RejectGate(p) BY <1>11 DEF RejectGate, StandDown
  <1>12. CASE RejectClear(p) BY <1>12 DEF RejectClear
  <1>13. CASE RejectPush(p) BY <1>13 DEF RejectPush, PushURI
  <1>14. CASE VerifyTick(p) BY <1>14 DEF VerifyTick, StandDown
  <1>15. CASE NudgeGate(p) BY <1>15 DEF NudgeGate, StandDown
  <1>16. CASE NudgeToggle(p) BY <1>16 DEF NudgeToggle
  <1>17. CASE VerifyWake(p) BY <1>17 DEF VerifyWake, Wake
  <1>18. CASE VerifyGate(p) BY <1>18 DEF VerifyGate, StandDown
  <1>19. CASE VerifyPush(p) BY <1>19 DEF VerifyPush, PushURI
  <1>20. CASE SpotifyTick(p) BY <1>20 DEF SpotifyTick, StandDown
  <1>21. CASE SpotifyRepoint(p) BY <1>21 DEF SpotifyRepoint, PushURI
  <1> QED BY <1>1, <1>2, <1>3, <1>4, <1>5, <1>6, <1>7, <1>8, <1>9, <1>10, <1>11, <1>12, <1>13, <1>14, <1>15, <1>16, <1>17, <1>18, <1>19, <1>20, <1>21
          DEF PressStep

\* Nor does a step of a play of the app.
LEMMA AppStepType ==
  ASSUME TypeOK, NEW a \in App, AppStep(a)
  PROVE TypeOK'
  <1> USE ConstantsAssumption DEF TypeOK, Play, PressPCs, AppPCs, PressKinds, AppKinds, Goto,
          context, self, HandsOff, record, box, stamps
  <1>1. CASE AppSlotWake(a) BY <1>1 DEF AppSlotWake, Wake
  <1>2. CASE AppUrlNote(a) BY <1>2 DEF AppUrlNote, NoteUserPlay
  <1>3. CASE AppPush(a) BY <1>3 DEF AppPush
  <1>4. CASE AppRecord(a) BY <1>4 DEF AppRecord, SetLastPlay
  <1>5. CASE AppTick(a) BY <1>5 DEF AppTick, AppStandDown
  <1>6. CASE AppRedecide(a) BY <1>6 DEF AppRedecide, AppStandDown
  <1>7. CASE AppRetry(a) BY <1>7 DEF AppRetry, PushURI
  <1> QED BY <1>1, <1>2, <1>3, <1>4, <1>5, <1>6, <1>7 DEF AppStep

\* Nor is the invariant broken by a step of a play of the app, ...
LEMMA AppStepInv ==
  ASSUME TypeOK, TypeOK', IInv, NEW a \in App, AppStep(a)
  PROVE IInv'
  <1> USE ConstantsAssumption DEF TypeOK, IInv, Play, Goto, context, self, HandsOff, record,
          box, stamps, SeqInv, GenInv, ClockInv, LateInv, LockInv, Locked, RecordIsNewest, Spent,
          Overruled, Superseded, UserStoppedSince, BeforeRecord
  <1>1. CASE AppSlotWake(a) BY <1>1 DEF AppSlotWake, Wake
  <1>2. CASE AppUrlNote(a) BY <1>2 DEF AppUrlNote, NoteUserPlay
  <1>3. CASE AppPush(a) BY <1>3 DEF AppPush
  <1>4. CASE AppRecord(a) BY <1>4 DEF AppRecord, SetLastPlay
  <1>5. CASE AppTick(a) BY <1>5 DEF AppTick, AppStandDown
  <1>6. CASE AppRedecide(a) BY <1>6 DEF AppRedecide, AppStandDown
  <1>7. CASE AppRetry(a) BY <1>7 DEF AppRetry, PushURI
  <1> QED BY <1>1, <1>2, <1>3, <1>4, <1>5, <1>6, <1>7 DEF AppStep

\* Nor what the user, the box and the transport clear do.
LEMMA OtherStepType ==
  ASSUME TypeOK, Environment \/ ClearStep
  PROVE TypeOK'
  <1> USE ConstantsAssumption DEF TypeOK, Play, PressPCs, AppPCs, PressKinds, AppKinds, Goto,
          context, self, HandsOff, record, box, stamps
  <1>1. CASE \E p \in Press, k \in PressKinds : OnPresetSelected(p, k) BY <1>1 DEF OnPresetSelected, NoteUserPlay
  <1>2. CASE \E a \in App : AppSlotStart(a) BY <1>2 DEF AppSlotStart, NoteUserPlay
  <1>3. CASE \E a \in App : AppUrlStart(a) BY <1>3 DEF AppUrlStart, Wake
  <1>4. CASE OnUserStop BY <1>4 DEF OnUserStop
  <1>5. CASE OnPowerOff BY <1>5 DEF OnPowerOff
  <1>6. CASE OnSourceRejected BY <1>6 DEF OnSourceRejected
  <1>7. CASE ClearStop BY <1>7 DEF ClearStop
  <1>8. CASE ClearAgain BY <1>8 DEF ClearAgain
  <1>9. CASE ClearURI BY <1>9 DEF ClearURI
  <1> QED BY <1>1, <1>2, <1>3, <1>4, <1>5, <1>6, <1>7, <1>8, <1>9 DEF Environment, ClearStep

\* ... nor by what the user, the box and the transport clear do.
LEMMA OtherStepInv ==
  ASSUME TypeOK, TypeOK', IInv, Environment \/ ClearStep
  PROVE IInv'
  <1> USE ConstantsAssumption DEF TypeOK, IInv, Play, Goto, context, self, HandsOff, record,
          box, stamps, SeqInv, GenInv, ClockInv, LateInv, LockInv, Locked, RecordIsNewest, Spent,
          Overruled, Superseded, UserStoppedSince, BeforeRecord
  <1>1. CASE \E p \in Press, k \in PressKinds : OnPresetSelected(p, k) BY <1>1 DEF OnPresetSelected, NoteUserPlay
  <1>2. CASE \E a \in App : AppSlotStart(a) BY <1>2 DEF AppSlotStart, NoteUserPlay
  <1>3. CASE \E a \in App : AppUrlStart(a) BY <1>3 DEF AppUrlStart, Wake
  <1>4. CASE OnUserStop BY <1>4 DEF OnUserStop
  <1>5. CASE OnPowerOff BY <1>5 DEF OnPowerOff
  <1>6. CASE OnSourceRejected BY <1>6 DEF OnSourceRejected
  <1>7. CASE ClearStop BY <1>7 DEF ClearStop
  <1>8. CASE ClearAgain BY <1>8 DEF ClearAgain
  <1>9. CASE ClearURI BY <1>9 DEF ClearURI
  <1> QED BY <1>1, <1>2, <1>3, <1>4, <1>5, <1>6, <1>7, <1>8, <1>9 DEF Environment, ClearStep

\* Nor does a stuttering step.
LEMMA StutterInv ==
  ASSUME TypeOK, IInv, UNCHANGED vars
  PROVE TypeOK' /\ IInv'
  BY DEF vars, context, stamps, record, box, self, TypeOK, IInv, SeqInv, GenInv,
     ClockInv, LateInv, LockInv, Locked, RecordIsNewest, Spent, Overruled, Superseded, UserStoppedSince

\* The inductive invariant of the arbitration.
THEOREM Invariant == Spec => [](TypeOK /\ IInv)
  <1>1. Init => TypeOK /\ IInv BY InitInv
  <1>2. TypeOK /\ IInv /\ [Next]_vars => TypeOK' /\ IInv'
    <2> SUFFICES ASSUME TypeOK, IInv, [Next]_vars PROVE TypeOK' /\ IInv' OBVIOUS
    <2>1. CASE \E p \in Press : PressStep(p) BY <2>1, PressStepType, PressStepInv
    <2>2. CASE \E a \in App : AppStep(a) BY <2>2, AppStepType, AppStepInv
    <2>3. CASE Environment \/ ClearStep BY <2>3, OtherStepType, OtherStepInv
    <2>4. CASE UNCHANGED vars BY <2>4, StutterInv
    <2> QED BY <2>1, <2>2, <2>3, <2>4 DEF Next
  <1> QED BY <1>1, <1>2, PTL DEF Spec

\* Every variable keeps its type.
THEOREM TypeCorrect == Spec => []TypeOK
  BY Invariant, PTL

\* A play that has lost the transport for good pushes at most once more, for any
\* number of presses, plays of the app, attempts and stops.
THEOREM LateOnce == Spec => []LatePushAtMostOnce
  <1>1. TypeOK /\ IInv => LatePushAtMostOnce
    BY DEF TypeOK, IInv, LateInv, LatePushAtMostOnce
  <1> QED BY <1>1, Invariant, PTL

\* At most one loop that drew a generation regards itself as the owner.
THEOREM AtMostOneOwner == Spec => []OneOwner
  <1>1. TypeOK /\ IInv => OneOwner
    BY DEF TypeOK, IInv, GenInv, SeqInv, OneOwner, Overruled, Superseded, BeforeRecord, Play
  <1> QED BY <1>1, Invariant, PTL

\* The resume target always is the play with the newest generation.
THEOREM RecordNewest == Spec => []RecordIsNewest
  <1>1. TypeOK /\ IInv => RecordIsNewest BY DEF IInv
  <1> QED BY <1>1, Invariant, PTL

\* A step either leaves the count of late pushes alone and overrules some plays
\* for good, or is one push that overrules nobody.
Growing == late' = late /\ \A x \in Play : Overruled(x) => Overruled(x)'
Pushing(x) ==
  /\ late' = [late EXCEPT ![x] = IF Overruled(x) THEN @ + 1 ELSE @]
  /\ UNCHANGED <<pressSeq, recallGen, userStop, gen, seq, at>>

\* A step of a press pushes once, or makes no play less overruled.
LEMMA PressStepShape ==
  ASSUME TypeOK, IInv, NEW p \in Press, PressStep(p)
  PROVE Growing \/ Pushing(p)
  <1> USE ConstantsAssumption DEF TypeOK, IInv, Play, Goto, context, self, HandsOff, record,
          box, stamps, SeqInv, GenInv, ClockInv, LockInv, Locked, Overruled,
          Superseded, UserStoppedSince, BeforeRecord, Growing, Pushing
  <1>1. CASE RecallDeclined(p) BY <1>1 DEF RecallDeclined
  <1>2. CASE RecallNative(p) BY <1>2 DEF RecallNative, SetLastPlay
  <1>3. CASE RecallStart(p) BY <1>3 DEF RecallStart
  <1>4. CASE SpotifyPush(p) BY <1>4 DEF SpotifyPush, PushURI
  <1>5. CASE RecallCheck(p) BY <1>5 DEF RecallCheck
  <1>6. CASE RecallNote(p) BY <1>6 DEF RecallNote, SetLastPlay
  <1>7. CASE RecallPush(p) BY <1>7 DEF RecallPush, PushURI
  <1>8. CASE RecallWake(p) BY <1>8 DEF RecallWake, Wake
  <1>9. CASE RejectProbe(p) BY <1>9 DEF RejectProbe, StandDown
  <1>10. CASE RejectWake(p) BY <1>10 DEF RejectWake, Wake
  <1>11. CASE RejectGate(p) BY <1>11 DEF RejectGate, StandDown
  <1>12. CASE RejectClear(p) BY <1>12 DEF RejectClear
  <1>13. CASE RejectPush(p) BY <1>13 DEF RejectPush, PushURI
  <1>14. CASE VerifyTick(p) BY <1>14 DEF VerifyTick, StandDown
  <1>15. CASE NudgeGate(p) BY <1>15 DEF NudgeGate, StandDown
  <1>16. CASE NudgeToggle(p) BY <1>16 DEF NudgeToggle
  <1>17. CASE VerifyWake(p) BY <1>17 DEF VerifyWake, Wake
  <1>18. CASE VerifyGate(p) BY <1>18 DEF VerifyGate, StandDown
  <1>19. CASE VerifyPush(p) BY <1>19 DEF VerifyPush, PushURI
  <1>20. CASE SpotifyTick(p) BY <1>20 DEF SpotifyTick, StandDown
  <1>21. CASE SpotifyRepoint(p) BY <1>21 DEF SpotifyRepoint, PushURI
  <1> QED BY <1>1, <1>2, <1>3, <1>4, <1>5, <1>6, <1>7, <1>8, <1>9, <1>10, <1>11, <1>12, <1>13, <1>14, <1>15, <1>16, <1>17, <1>18, <1>19, <1>20, <1>21 DEF PressStep

\* A play of the app pushes late only from a retry under boxCmdMu.
LEMMA AppStepShape ==
  ASSUME TypeOK, IInv, NEW a \in App, AppStep(a)
  PROVE Growing \/ (Pushing(a) /\ pc[a] = "appRetry")
  <1> USE ConstantsAssumption DEF TypeOK, IInv, Play, Goto, context, self, HandsOff, record,
          box, stamps, SeqInv, GenInv, ClockInv, LockInv, Locked, Overruled,
          Superseded, UserStoppedSince, BeforeRecord, Growing, Pushing
  <1>1. CASE AppSlotWake(a) BY <1>1 DEF AppSlotWake, Wake
  <1>2. CASE AppUrlNote(a) BY <1>2 DEF AppUrlNote, NoteUserPlay
  <1>3. CASE AppPush(a) BY <1>3 DEF AppPush
  <1>4. CASE AppRecord(a) BY <1>4 DEF AppRecord, SetLastPlay
  <1>5. CASE AppTick(a) BY <1>5 DEF AppTick, AppStandDown
  <1>6. CASE AppRedecide(a) BY <1>6 DEF AppRedecide, AppStandDown
  <1>7. CASE AppRetry(a) BY <1>7 DEF AppRetry, PushURI
  <1> QED BY <1>1, <1>2, <1>3, <1>4, <1>5, <1>6, <1>7 DEF AppStep

\* The user, the box and the transport clear push nothing late.
LEMMA OtherStepShape ==
  ASSUME TypeOK, IInv, Environment \/ ClearStep
  PROVE Growing
  <1> USE ConstantsAssumption DEF TypeOK, IInv, Play, Goto, context, self, HandsOff, record,
          box, stamps, SeqInv, GenInv, ClockInv, LockInv, Locked, Overruled,
          Superseded, UserStoppedSince, BeforeRecord, Growing, Pushing
  <1>1. CASE \E p \in Press, k \in PressKinds : OnPresetSelected(p, k) BY <1>1 DEF OnPresetSelected, NoteUserPlay
  <1>2. CASE \E a \in App : AppSlotStart(a) BY <1>2 DEF AppSlotStart, NoteUserPlay
  <1>3. CASE \E a \in App : AppUrlStart(a) BY <1>3 DEF AppUrlStart, Wake
  <1>4. CASE OnUserStop BY <1>4 DEF OnUserStop
  <1>5. CASE OnPowerOff BY <1>5 DEF OnPowerOff
  <1>6. CASE OnSourceRejected BY <1>6 DEF OnSourceRejected
  <1>7. CASE ClearStop BY <1>7 DEF ClearStop
  <1>8. CASE ClearAgain BY <1>8 DEF ClearAgain
  <1>9. CASE ClearURI BY <1>9 DEF ClearURI
  <1> QED BY <1>1, <1>2, <1>3, <1>4, <1>5, <1>6, <1>7, <1>8, <1>9 DEF Environment, ClearStep

\* The arbitration implements the push budget: every play that is overruled stays
\* overruled, and spends at most one push.
THEOREM BudgetRefinement == Spec => ImplementsPushBudget
  <1>1. Init => Budget!Init
    BY ConstantsAssumption DEF Init, Budget!Init, Overruled, Superseded, UserStoppedSince, Play
  <1>2. ASSUME TypeOK, IInv, TypeOK', IInv', [Next]_vars
        PROVE  [Budget!Next]_(Budget!vars)
    <2>1. ASSUME Growing PROVE Budget!Overrule
      BY <2>1 DEF Growing, Budget!Overrule
    <2>2. ASSUME NEW x \in Play, Pushing(x) PROVE [Budget!Next]_(Budget!vars)
      <3>1. \A y \in Play : Overruled(y)' = Overruled(y)
        BY <2>2 DEF Pushing, Overruled, Superseded, UserStoppedSince
      <3>2. {y \in Play : Overruled(y)'} = {y \in Play : Overruled(y)}
        BY <3>1
      <3>3. CASE Overruled(x)
        <4>1. late'[x] <= 1 BY <1>2 DEF IInv, LateInv, TypeOK
        <4>2. late[x] = 0 BY <1>2, <2>2, <3>3, <4>1 DEF Pushing, TypeOK
        <4>3. Budget!LatePush(x)
          BY <1>2, <2>2, <3>2, <3>3, <4>2 DEF Pushing, Budget!LatePush, TypeOK
        <4> QED BY <4>3 DEF Budget!Next
      <3>4. CASE ~Overruled(x)
        <4>1. late' = late BY <1>2, <2>2, <3>4 DEF Pushing, TypeOK
        <4> QED BY <3>2, <4>1 DEF Budget!vars
      <3> QED BY <3>3, <3>4
    <2>3. CASE \E p \in Press : PressStep(p)
      BY <1>2, <2>1, <2>2, <2>3, PressStepShape DEF Budget!Next, Play
    <2>4. CASE \E a \in App : AppStep(a)
      BY <1>2, <2>1, <2>2, <2>4, AppStepShape DEF Budget!Next, Play
    <2>5. CASE Environment \/ ClearStep
      BY <1>2, <2>1, <2>5, OtherStepShape DEF Budget!Next
    <2>6. CASE UNCHANGED vars
      BY <2>6 DEF vars, context, stamps, record, box, self, Budget!vars, Overruled,
         Superseded, UserStoppedSince
    <2> QED BY <1>2, <2>3, <2>4, <2>5, <2>6 DEF Next
  <1> QED BY <1>1, <1>2, Invariant, PTL DEF Spec, ImplementsPushBudget, Budget!Spec

\* Under boxCmdMu a retry of the app is overtaken by hardware presses only.
THEOREM RetriesOvertakenByPresses == Spec => OnlyPressesOvertakeRetries
  <1>1. ASSUME TypeOK, IInv, TypeOK', IInv', [Next]_vars
        PROVE  [\A a \in App : late'[a] > late[a] => lastPlay \in Press]_vars
    <2> SUFFICES ASSUME NEW a \in App, late'[a] > late[a], Next PROVE lastPlay \in Press
      BY <1>1
    <2>1. ~Growing BY <1>1 DEF Growing, TypeOK, Play
    <2>2. CASE \E p \in Press : PressStep(p)
      BY <2>1, <2>2, <1>1, PressStepShape, ConstantsAssumption DEF Pushing, TypeOK, Play
    <2>3. CASE \E b \in App : AppStep(b)
      <3>1. PICK b \in App : Pushing(b) /\ pc[b] = "appRetry"
        BY <2>1, <2>3, <1>1, AppStepShape
      <3>2. a = b /\ Overruled(a)
        BY <1>1, <3>1 DEF Pushing, TypeOK, Play
      <3> QED BY <1>1, <3>1, <3>2, ConstantsAssumption DEF IInv, LockInv, Overruled
    <2>4. CASE Environment \/ ClearStep BY <2>1, <2>4, <1>1, OtherStepShape
    <2> QED BY <2>2, <2>3, <2>4 DEF Next
  <1> QED BY <1>1, Invariant, PTL DEF OnlyPressesOvertakeRetries, Spec

-----------------------------------------------------------------------------
(***************************************************************************)
(* The re-sync of the keys.  When the speaker goes to standby one pass may *)
(* be on its way already, or the list may be lost; whatever follows that   *)
(* pass finds every slot listed, or is a retry, which the gate holds.      *)
(***************************************************************************)

\* Where the loop is while the last pass has gone through, and while it has not.
PassInv ==
  /\ stage \in {"consume", "swap", "evidence", "probe", "decide", "insure"} => fullDone
  /\ stage \notin {"gate", "list", "write"} => force = "no"
  /\ stage = "gate" => ~fullDone /\ force = "retry"
  /\ stage = "list" /\ force = "retry" => ~fullDone
  /\ stage = "list" /\ force = "no" => fullDone
  /\ fullDone => everFullDone

\* Before the first pass that goes through, none is counted.
CountInv == nights \in {0, 1} /\ (~everFullDone => nights = 0)

\* After the one pass of a standby that counts, none is to come.
SpentInv ==
  nights = 1 /\ source = "STANDBY" =>
    /\ stage = "decide" => Asleep(seen)
    /\ stage = "list" => fullDone /\ force \in {"no", "user"}
    /\ stage = "write" => failed \/ Slot \ listed \subseteq todo
    /\ stage # "write" /\ fullDone => listed = Slot

NightInv == PassInv /\ CountInv /\ SpentInv

HealingInv == ResyncTypeOK /\ RoutineStampBacked /\ NightInv

-----------------------------------------------------------------------------
(* A read that fails is counted within its bound. *)
LEMMA ReadBounded ==
  ASSUME BoundsOK, NEW x, NEW r, Reads(x, r), UNCHANGED <<cycles, boxEvents>>
  PROVE  BoundsOK'
<1>1. CASE UNCHANGED faults
  BY <1>1 DEF BoundsOK
<1>2. CASE faults < MaxFaults /\ faults' = faults + 1
  BY <1>2, BoundsAssumption DEF BoundsOK
<1>. QED
  BY <1>1, <1>2 DEF Reads

(* The speaker keeps its types. *)
LEMMA BoxStep ==
  ASSUME BoxTypeOK, PassTypeOK, [ResyncNext]_resyncVars
  PROVE  BoxTypeOK'
<1>. USE DEF Source, BoxTypeOK, PassTypeOK
<1>1. CASE FallAsleep
  BY <1>1 DEF FallAsleep, resyncVars, boxVars, askVars, loopVars, doneVars, passVars, history
<1>2. CASE WakeUp
  BY <1>2 DEF WakeUp, resyncVars, boxVars, askVars, loopVars, doneVars, passVars, history
<1>3. CASE ChangeSource
  BY <1>3 DEF ChangeSource, resyncVars, boxVars, askVars, loopVars, doneVars, passVars,
     history
<1>4. CASE ForgetKeys
  BY <1>4 DEF ForgetKeys, resyncVars, boxVars, askVars, loopVars, doneVars, passVars, history
<1>5. CASE AddPreset
  BY <1>5 DEF AddPreset, Done, resyncVars, boxVars, askVars, loopVars, doneVars, passVars,
     history
<1>6. ASSUME NEW a \in Asker, OnStandbyExit(a) PROVE BoxTypeOK'
  BY <1>6 DEF OnStandbyExit, GotoJob, resyncVars, boxVars, askVars, loopVars, doneVars, passVars,
     history
<1>7. CASE TimePasses \/ Top \/ Gate \/ Consume \/ Swap \/ Evidence \/ Probe \/ Defer \/
          Proceed \/ Insure \/ List \/ Poll \/ Slept
  BY <1>7 DEF TimePasses, Top, Gate, Consume, Swap, Evidence, Probe, Defer, Proceed,
     Insure, List, Poll, Slept, Asleep, Decided, Done, Forget, Reads, resyncVars, boxVars,
     askVars, loopVars, doneVars, passVars, history
<1>8. ASSUME NEW a \in Asker, OnEvent(a) \/ Reconnected(a) \/ ThumbRead(a) \/
           ThumbAsleep(a) \/ Refuse(a) \/ Stamp(a) \/ Arm(a)
     PROVE BoxTypeOK'
  BY <1>8 DEF OnEvent, Reconnected, ThumbRead, ThumbAsleep, Refuse, Stamp, Arm, GotoJob,
     Pending, Reads, resyncVars, boxVars, askVars, loopVars, doneVars, passVars, history
<1>9. CASE UNCHANGED resyncVars
  BY <1>9 DEF resyncVars, boxVars, askVars, loopVars, doneVars, passVars, history
<1>. QED
  BY <1>1, <1>2, <1>3, <1>4, <1>5, <1>6, <1>7, <1>8, <1>9 DEF ResyncNext, Handler, Loop

(* The bounds are kept. *)
LEMMA BoundsStep ==
  ASSUME BoundsOK, [ResyncNext]_resyncVars
  PROVE  BoundsOK'
<1>. USE BoundsAssumption DEF BoundsOK
<1>1. CASE FallAsleep
  BY <1>1 DEF FallAsleep, resyncVars, boxVars, askVars, loopVars, doneVars, passVars, history
<1>2. CASE WakeUp
  BY <1>2 DEF WakeUp, resyncVars, boxVars, askVars, loopVars, doneVars, passVars, history
<1>3. CASE ChangeSource
  BY <1>3 DEF ChangeSource, resyncVars, boxVars, askVars, loopVars, doneVars, passVars,
     history
<1>4. CASE ForgetKeys
  BY <1>4 DEF ForgetKeys, resyncVars, boxVars, askVars, loopVars, doneVars, passVars, history
<1>5. CASE Gate
  BY <1>5, ReadBounded DEF Gate, boxVars
<1>6. CASE Probe
  BY <1>6, ReadBounded DEF Probe, boxVars
<1>7. CASE Insure
  BY <1>7, ReadBounded DEF Insure, boxVars
<1>8. CASE List
  BY <1>8, ReadBounded DEF List, boxVars
<1>9. CASE AddPreset
  BY <1>9 DEF AddPreset, Done, resyncVars, boxVars, askVars, loopVars, doneVars, passVars,
     history
<1>10. ASSUME NEW a \in Asker, OnEvent(a) PROVE BoundsOK'
  BY <1>10 DEF OnEvent, GotoJob, resyncVars, boxVars, askVars, loopVars, doneVars, passVars,
     history
<1>11. ASSUME NEW a \in Asker, Reconnected(a) PROVE BoundsOK'
  BY <1>11, ReadBounded DEF Reconnected, boxVars
<1>12. ASSUME NEW a \in Asker, ThumbRead(a) PROVE BoundsOK'
  BY <1>12, ReadBounded DEF ThumbRead, boxVars
<1>13. CASE TimePasses \/ Top \/ Consume \/ Swap \/ Evidence \/ Defer \/ Proceed \/ Poll
          \/ Slept
  BY <1>13 DEF TimePasses, Top, Consume, Swap, Evidence, Defer, Proceed, Poll, Slept,
     Asleep, Decided, Forget, resyncVars, boxVars, askVars, loopVars, doneVars, passVars,
     history
<1>14. ASSUME NEW a \in Asker, OnStandbyExit(a) \/ ThumbAsleep(a) \/ Refuse(a) \/
           Stamp(a) \/ Arm(a)
     PROVE BoundsOK'
  BY <1>14 DEF OnStandbyExit, ThumbAsleep, Refuse, Stamp, Arm, GotoJob, Pending, resyncVars,
     boxVars, askVars, loopVars, doneVars, passVars, history
<1>15. CASE UNCHANGED resyncVars
  BY <1>15 DEF resyncVars, boxVars, askVars, loopVars, doneVars, passVars, history
<1>. QED
  BY <1>1, <1>2, <1>3, <1>4, <1>5, <1>6, <1>7, <1>8, <1>9, <1>10, <1>11, <1>12, <1>13,
     <1>14, <1>15 DEF ResyncNext, Handler, Loop

(* The stamps keep their type. *)
LEMMA StampStep ==
  ASSUME StampTypeOK, [ResyncNext]_resyncVars
  PROVE  StampTypeOK'
<1>. USE DEF Age, StampTypeOK
<1>1. CASE TimePasses
  BY <1>1 DEF TimePasses, resyncVars, boxVars, askVars, loopVars, doneVars, passVars, history
<1>2. CASE Swap
  BY <1>2 DEF Swap, resyncVars, boxVars, askVars, loopVars, doneVars, passVars, history
<1>3. CASE Evidence
  BY <1>3 DEF Evidence, Decided, Forget, resyncVars, boxVars, askVars, loopVars, doneVars,
     passVars, history
<1>4. CASE Defer
  BY <1>4 DEF Defer, Asleep, Forget, resyncVars, boxVars, askVars, loopVars, doneVars,
     passVars, history
<1>5. CASE Proceed
  BY <1>5 DEF Proceed, Asleep, Decided, Forget, resyncVars, boxVars, askVars, loopVars,
     doneVars, passVars, history
<1>6. ASSUME NEW a \in Asker, ThumbAsleep(a) PROVE StampTypeOK'
  BY <1>6 DEF ThumbAsleep, GotoJob, resyncVars, boxVars, askVars, loopVars, doneVars, passVars,
     history
<1>7. ASSUME NEW a \in Asker, Stamp(a) PROVE StampTypeOK'
  BY <1>7 DEF Stamp, GotoJob, resyncVars, boxVars, askVars, loopVars, doneVars, passVars, history
<1>8. CASE FallAsleep \/ WakeUp \/ ChangeSource \/ ForgetKeys \/ Top \/ Gate \/ Consume
          \/ Probe \/ Insure \/ List \/ AddPreset \/ Poll \/ Slept
  BY <1>8 DEF FallAsleep, WakeUp, ChangeSource, ForgetKeys, Top, Gate, Consume, Probe,
     Insure, List, AddPreset, Poll, Slept, Asleep, Done, Reads, resyncVars, boxVars, askVars,
     loopVars, doneVars, passVars, history
<1>9. ASSUME NEW a \in Asker, OnStandbyExit(a) \/ OnEvent(a) \/ Reconnected(a) \/
           ThumbRead(a) \/ Refuse(a) \/ Arm(a)
     PROVE StampTypeOK'
  BY <1>9 DEF OnStandbyExit, OnEvent, Reconnected, ThumbRead, Refuse, Arm, GotoJob,
     Pending, Reads, resyncVars, boxVars, askVars, loopVars, doneVars, passVars, history
<1>10. CASE UNCHANGED resyncVars
  BY <1>10 DEF resyncVars, boxVars, askVars, loopVars, doneVars, passVars, history
<1>. QED
  BY <1>1, <1>2, <1>3, <1>4, <1>5, <1>6, <1>7, <1>8, <1>9, <1>10 DEF ResyncNext, Handler, Loop

(* The asks keep their types. *)
LEMMA AskStep ==
  ASSUME AskTypeOK, [ResyncNext]_resyncVars
  PROVE  AskTypeOK'
<1>. USE DEF AskTypeOK
<1>1. CASE Consume
  BY <1>1 DEF Consume, resyncVars, boxVars, askVars, loopVars, doneVars, passVars, history
<1>2. CASE Evidence
  BY <1>2 DEF Evidence, Decided, Forget, resyncVars, boxVars, askVars, loopVars, doneVars,
     passVars, history
<1>3. ASSUME NEW a \in Asker, OnStandbyExit(a) PROVE AskTypeOK'
  BY <1>3 DEF OnStandbyExit, GotoJob, resyncVars, boxVars, askVars, loopVars, doneVars, passVars,
     history
<1>4. ASSUME NEW a \in Asker, OnEvent(a) PROVE AskTypeOK'
  BY <1>4 DEF OnEvent, GotoJob, resyncVars, boxVars, askVars, loopVars, doneVars, passVars,
     history
<1>5. ASSUME NEW a \in Asker, Reconnected(a) PROVE AskTypeOK'
  BY <1>5 DEF Reconnected, Reads, GotoJob, resyncVars, boxVars, askVars, loopVars, doneVars,
     passVars, history
<1>6. ASSUME NEW a \in Asker, ThumbRead(a) PROVE AskTypeOK'
  BY <1>6 DEF ThumbRead, Reads, GotoJob, resyncVars, boxVars, askVars, loopVars, doneVars,
     passVars, history
<1>7. ASSUME NEW a \in Asker, ThumbAsleep(a) PROVE AskTypeOK'
  BY <1>7 DEF ThumbAsleep, GotoJob, resyncVars, boxVars, askVars, loopVars, doneVars, passVars,
     history
<1>8. ASSUME NEW a \in Asker, Refuse(a) PROVE AskTypeOK'
  BY <1>8 DEF Refuse, GotoJob, Pending, resyncVars, boxVars, askVars, loopVars, doneVars,
     passVars, history
<1>9. ASSUME NEW a \in Asker, Stamp(a) PROVE AskTypeOK'
  BY <1>9 DEF Stamp, GotoJob, resyncVars, boxVars, askVars, loopVars, doneVars, passVars, history
<1>10. ASSUME NEW a \in Asker, Arm(a) PROVE AskTypeOK'
  BY <1>10 DEF Arm, GotoJob, resyncVars, boxVars, askVars, loopVars, doneVars, passVars, history
<1>11. CASE FallAsleep \/ WakeUp \/ ChangeSource \/ ForgetKeys \/ TimePasses \/ Top \/
          Gate \/ Swap \/ Probe \/ Defer \/ Proceed \/ Insure \/ List \/ AddPreset \/
          Poll \/ Slept
  BY <1>11 DEF FallAsleep, WakeUp, ChangeSource, ForgetKeys, TimePasses, Top, Gate,
     Swap, Probe, Defer, Proceed, Insure, List, AddPreset, Poll, Slept, Asleep, Decided,
     Done, Forget, Reads, resyncVars, boxVars, askVars, loopVars, doneVars, passVars, history
<1>12. CASE UNCHANGED resyncVars
  BY <1>12 DEF resyncVars, boxVars, askVars, loopVars, doneVars, passVars, history
<1>. QED
  BY <1>1, <1>2, <1>3, <1>4, <1>5, <1>6, <1>7, <1>8, <1>9, <1>10, <1>11, <1>12 DEF ResyncNext,
     Handler, Loop

(* The loop keeps its types. *)
LEMMA LoopStep ==
  ASSUME LoopTypeOK, [ResyncNext]_resyncVars
  PROVE  LoopTypeOK'
<1>. USE DEF Source, LoopTypeOK
<1>1. CASE TimePasses
  BY <1>1 DEF TimePasses, resyncVars, boxVars, askVars, loopVars, doneVars, passVars, history
<1>2. CASE Top
  BY <1>2 DEF Top, resyncVars, boxVars, askVars, loopVars, doneVars, passVars, history
<1>3. CASE Gate
  BY <1>3 DEF Gate, Reads, Asleep, resyncVars, boxVars, askVars, loopVars, doneVars, passVars,
     history
<1>4. CASE Consume
  BY <1>4 DEF Consume, resyncVars, boxVars, askVars, loopVars, doneVars, passVars, history
<1>5. CASE Swap
  BY <1>5 DEF Swap, resyncVars, boxVars, askVars, loopVars, doneVars, passVars, history
<1>6. CASE Evidence
  BY <1>6 DEF Evidence, Decided, Forget, resyncVars, boxVars, askVars, loopVars, doneVars,
     passVars, history
<1>7. CASE Probe
  BY <1>7 DEF Probe, Reads, resyncVars, boxVars, askVars, loopVars, doneVars, passVars,
     history
<1>8. CASE Defer
  BY <1>8 DEF Defer, Asleep, Forget, resyncVars, boxVars, askVars, loopVars, doneVars,
     passVars, history
<1>9. CASE Proceed
  BY <1>9 DEF Proceed, Asleep, Decided, Forget, resyncVars, boxVars, askVars, loopVars,
     doneVars, passVars, history
<1>10. CASE Insure
  BY <1>10 DEF Insure, Reads, resyncVars, boxVars, askVars, loopVars, doneVars, passVars,
     history
<1>11. CASE List
  BY <1>11 DEF List, Reads, Done, resyncVars, boxVars, askVars, loopVars, doneVars, passVars,
     history
<1>12. CASE AddPreset
  BY <1>12 DEF AddPreset, Done, resyncVars, boxVars, askVars, loopVars, doneVars, passVars,
     history
<1>13. CASE Poll
  BY <1>13 DEF Poll, resyncVars, boxVars, askVars, loopVars, doneVars, passVars, history
<1>14. CASE Slept
  BY <1>14 DEF Slept, resyncVars, boxVars, askVars, loopVars, doneVars, passVars, history
<1>15. CASE FallAsleep \/ WakeUp \/ ChangeSource \/ ForgetKeys
  BY <1>15 DEF FallAsleep, WakeUp, ChangeSource, ForgetKeys, resyncVars, boxVars, askVars,
     loopVars, doneVars, passVars, history
<1>16. ASSUME NEW a \in Asker, OnStandbyExit(a) \/ OnEvent(a) \/ Reconnected(a) \/
           ThumbRead(a) \/ ThumbAsleep(a) \/ Refuse(a) \/ Stamp(a) \/ Arm(a)
     PROVE LoopTypeOK'
  BY <1>16 DEF OnStandbyExit, OnEvent, Reconnected, ThumbRead, ThumbAsleep, Refuse,
     Stamp, Arm, GotoJob, Pending, Reads, resyncVars, boxVars, askVars, loopVars, doneVars,
     passVars, history
<1>17. CASE UNCHANGED resyncVars
  BY <1>17 DEF resyncVars, boxVars, askVars, loopVars, doneVars, passVars, history
<1>. QED
  BY <1>1, <1>2, <1>3, <1>4, <1>5, <1>6, <1>7, <1>8, <1>9, <1>10, <1>11, <1>12, <1>13,
     <1>14, <1>15, <1>16, <1>17 DEF ResyncNext, Handler, Loop

(* A pass keeps its types. *)
LEMMA PassStep ==
  ASSUME PassTypeOK, [ResyncNext]_resyncVars
  PROVE  PassTypeOK'
<1>. USE DEF PassTypeOK
<1>1. CASE List
  <2>1. PICK r \in {"list", ""} : List!2!(r)
    BY <1>1 DEF List
  <2>2. CASE stage' = "write"
    BY <2>1, <2>2, <1>1 DEF List, Done, doneVars
  <2>3. CASE stage' # "write"
    BY <2>1, <2>3, <1>1 DEF List, Done, doneVars
  <2>. QED
    BY <2>2, <2>3
<1>2. CASE AddPreset
  BY <1>2 DEF AddPreset, Done, resyncVars, boxVars, askVars, loopVars, doneVars, passVars,
     history
<1>3. CASE FallAsleep \/ WakeUp \/ ChangeSource \/ ForgetKeys \/ TimePasses \/ Top \/
          Gate \/ Consume \/ Swap \/ Evidence \/ Probe \/ Defer \/ Proceed \/ Insure \/
          Poll \/ Slept
  BY <1>3 DEF FallAsleep, WakeUp, ChangeSource, ForgetKeys, TimePasses, Top, Gate,
     Consume, Swap, Evidence, Probe, Defer, Proceed, Insure, Poll, Slept, Asleep,
     Decided, Forget, Reads, resyncVars, boxVars, askVars, loopVars, doneVars, passVars,
     history
<1>4. ASSUME NEW a \in Asker, OnStandbyExit(a) \/ OnEvent(a) \/ Reconnected(a) \/
           ThumbRead(a) \/ ThumbAsleep(a) \/ Refuse(a) \/ Stamp(a) \/ Arm(a)
     PROVE PassTypeOK'
  BY <1>4 DEF OnStandbyExit, OnEvent, Reconnected, ThumbRead, ThumbAsleep, Refuse,
     Stamp, Arm, GotoJob, Pending, Reads, resyncVars, boxVars, askVars, loopVars, doneVars,
     passVars, history
<1>5. CASE UNCHANGED resyncVars
  BY <1>5 DEF resyncVars, boxVars, askVars, loopVars, doneVars, passVars, history
<1>. QED
  BY <1>1, <1>2, <1>3, <1>4, <1>5 DEF ResyncNext, Handler, Loop

(* The histories keep their types. *)
LEMMA HistoryStep ==
  ASSUME HistoryTypeOK, [ResyncNext]_resyncVars
  PROVE  HistoryTypeOK'
<1>. USE DEF HistoryTypeOK
<1>1. CASE FallAsleep
  BY <1>1 DEF FallAsleep, resyncVars, boxVars, askVars, loopVars, doneVars, passVars, history
<1>2. CASE Evidence
  BY <1>2 DEF Evidence, Decided, Forget, resyncVars, boxVars, askVars, loopVars, doneVars,
     passVars, history
<1>3. CASE Defer
  BY <1>3 DEF Defer, Asleep, Forget, resyncVars, boxVars, askVars, loopVars, doneVars,
     passVars, history
<1>4. CASE Proceed
  BY <1>4 DEF Proceed, Asleep, Decided, Forget, resyncVars, boxVars, askVars, loopVars,
     doneVars, passVars, history
<1>5. CASE List
  <2>1. nights' \in {nights, nights + 1} /\ UNCHANGED <<backed, silenced>>
    BY <1>5 DEF List
  <2>. QED
    BY <2>1
<1>6. ASSUME NEW a \in Asker, Refuse(a) PROVE HistoryTypeOK'
  BY <1>6 DEF Refuse, GotoJob, Pending, resyncVars, boxVars, askVars, loopVars, doneVars,
     passVars, history
<1>7. ASSUME NEW a \in Asker, Stamp(a) PROVE HistoryTypeOK'
  BY <1>7 DEF Stamp, GotoJob, resyncVars, boxVars, askVars, loopVars, doneVars, passVars, history
<1>8. CASE WakeUp \/ ChangeSource \/ ForgetKeys \/ TimePasses \/ Top \/ Gate \/ Consume
          \/ Swap \/ Probe \/ Insure \/ AddPreset \/ Poll \/ Slept
  BY <1>8 DEF WakeUp, ChangeSource, ForgetKeys, TimePasses, Top, Gate, Consume, Swap,
     Probe, Insure, AddPreset, Poll, Slept, Asleep, Done, Reads, resyncVars, boxVars, askVars,
     loopVars, doneVars, passVars, history
<1>9. ASSUME NEW a \in Asker, OnStandbyExit(a) \/ OnEvent(a) \/ Reconnected(a) \/
           ThumbRead(a) \/ ThumbAsleep(a) \/ Arm(a)
     PROVE HistoryTypeOK'
  BY <1>9 DEF OnStandbyExit, OnEvent, Reconnected, ThumbRead, ThumbAsleep, Arm, GotoJob,
     Reads, resyncVars, boxVars, askVars, loopVars, doneVars, passVars, history
<1>10. CASE UNCHANGED resyncVars
  BY <1>10 DEF resyncVars, boxVars, askVars, loopVars, doneVars, passVars, history
<1>. QED
  BY <1>1, <1>2, <1>3, <1>4, <1>5, <1>6, <1>7, <1>8, <1>9, <1>10 DEF ResyncNext, Handler, Loop

(* Every step keeps the types. *)
LEMMA TypeStep ==
  ASSUME ResyncTypeOK, [ResyncNext]_resyncVars
  PROVE  ResyncTypeOK'
BY BoxStep, BoundsStep, StampStep, AskStep, LoopStep, PassStep, HistoryStep DEF ResyncTypeOK

(* Every step keeps a spent budget backed. *)
LEMMA BackedStep ==
  ASSUME AskTypeOK, RoutineStampBacked, [ResyncNext]_resyncVars
  PROVE  RoutineStampBacked'
<1>. USE DEF AskTypeOK, RoutineStampBacked, Pending
<1>1. CASE TimePasses
  BY <1>1 DEF TimePasses, resyncVars, boxVars, askVars, loopVars, doneVars, passVars, history
<1>2. CASE Consume
  BY <1>2 DEF Consume, resyncVars, boxVars, askVars, loopVars, doneVars, passVars, history
<1>3. CASE Swap
  BY <1>3 DEF Swap, resyncVars, boxVars, askVars, loopVars, doneVars, passVars, history
<1>4. CASE Evidence
  BY <1>4 DEF Evidence, Decided, Forget, resyncVars, boxVars, askVars, loopVars, doneVars,
     passVars, history
<1>5. CASE Defer
  BY <1>5 DEF Defer, Asleep, Forget, resyncVars, boxVars, askVars, loopVars, doneVars,
     passVars, history
<1>6. CASE Proceed
  BY <1>6 DEF Proceed, Asleep, Decided, Forget, resyncVars, boxVars, askVars, loopVars,
     doneVars, passVars, history
<1>7. ASSUME NEW a \in Asker, OnStandbyExit(a) PROVE RoutineStampBacked'
  BY <1>7 DEF OnStandbyExit, GotoJob, resyncVars, boxVars, askVars, loopVars, doneVars, passVars,
     history
<1>8. ASSUME NEW a \in Asker, OnEvent(a) PROVE RoutineStampBacked'
  BY <1>8 DEF OnEvent, GotoJob, resyncVars, boxVars, askVars, loopVars, doneVars, passVars,
     history
<1>9. ASSUME NEW a \in Asker, Reconnected(a) PROVE RoutineStampBacked'
  BY <1>9 DEF Reconnected, Reads, GotoJob, resyncVars, boxVars, askVars, loopVars, doneVars,
     passVars, history
<1>10. ASSUME NEW a \in Asker, ThumbRead(a) PROVE RoutineStampBacked'
  BY <1>10 DEF ThumbRead, Reads, GotoJob, resyncVars, boxVars, askVars, loopVars, doneVars,
     passVars, history
<1>11. ASSUME NEW a \in Asker, ThumbAsleep(a) PROVE RoutineStampBacked'
  BY <1>11 DEF ThumbAsleep, GotoJob, resyncVars, boxVars, askVars, loopVars, doneVars, passVars,
     history
<1>12. ASSUME NEW a \in Asker, Refuse(a) PROVE RoutineStampBacked'
  BY <1>12 DEF Refuse, GotoJob, Pending, resyncVars, boxVars, askVars, loopVars, doneVars,
     passVars, history
<1>13. ASSUME NEW a \in Asker, Stamp(a) PROVE RoutineStampBacked'
  BY <1>13 DEF Stamp, GotoJob, resyncVars, boxVars, askVars, loopVars, doneVars, passVars,
     history
<1>14. ASSUME NEW a \in Asker, Arm(a) PROVE RoutineStampBacked'
  BY <1>14 DEF Arm, GotoJob, resyncVars, boxVars, askVars, loopVars, doneVars, passVars, history
<1>15. CASE FallAsleep \/ WakeUp \/ ChangeSource \/ ForgetKeys \/ Top \/ Gate \/ Probe
          \/ Insure \/ List \/ AddPreset \/ Poll \/ Slept
  BY <1>15 DEF FallAsleep, WakeUp, ChangeSource, ForgetKeys, Top, Gate, Probe, Insure,
     List, AddPreset, Poll, Slept, Asleep, Done, Reads, resyncVars, boxVars, askVars,
     loopVars, doneVars, passVars, history
<1>16. CASE UNCHANGED resyncVars
  BY <1>16 DEF resyncVars, boxVars, askVars, loopVars, doneVars, passVars, history
<1>. QED
  BY <1>1, <1>2, <1>3, <1>4, <1>5, <1>6, <1>7, <1>8, <1>9, <1>10, <1>11, <1>12, <1>13,
     <1>14, <1>15, <1>16 DEF ResyncNext, Handler, Loop

(* Every step keeps the order of the passes. *)
LEMMA PassInvStep ==
  ASSUME PassTypeOK, PassInv, [ResyncNext]_resyncVars
  PROVE  PassInv'
<1>. USE DEF PassTypeOK, PassInv
<1>1. CASE Top
  <2>1. UNCHANGED <<fullDone, everFullDone>>
    BY <1>1 DEF Top, doneVars
  <2>2. CASE fullDone
    <3>1. stage' = "consume" /\ UNCHANGED force /\ stage = "top"
      BY <1>1, <2>2 DEF Top
    <3>2. stage' \notin {"gate", "list"} /\ fullDone' /\ everFullDone'
      BY <2>1, <2>2, <3>1
    <3>. QED
      BY <3>1, <3>2, <2>2
  <2>3. CASE ~fullDone
    <3>1. stage' \in {"gate", "list"} /\ force' = "retry"
      BY <1>1, <2>3 DEF Top
    <3>. QED
      BY <2>1, <2>3, <3>1
  <2>. QED
    BY <2>2, <2>3
<1>2. CASE Gate
  BY <1>2 DEF Gate, Reads, Asleep, resyncVars, boxVars, askVars, loopVars, doneVars, passVars,
     history
<1>3. CASE Consume
  BY <1>3 DEF Consume, resyncVars, boxVars, askVars, loopVars, doneVars, passVars, history
<1>4. CASE Swap
  BY <1>4 DEF Swap, resyncVars, boxVars, askVars, loopVars, doneVars, passVars, history
<1>5. CASE Evidence
  BY <1>5 DEF Evidence, Decided, Forget, resyncVars, boxVars, askVars, loopVars, doneVars,
     passVars, history
<1>6. CASE Probe
  BY <1>6 DEF Probe, Reads, resyncVars, boxVars, askVars, loopVars, doneVars, passVars,
     history
<1>7. CASE Defer
  BY <1>7 DEF Defer, Asleep, Forget, resyncVars, boxVars, askVars, loopVars, doneVars,
     passVars, history
<1>8. CASE Proceed
  BY <1>8 DEF Proceed, Asleep, Decided, Forget, resyncVars, boxVars, askVars, loopVars,
     doneVars, passVars, history
<1>9. CASE Insure
  BY <1>9 DEF Insure, Reads, resyncVars, boxVars, askVars, loopVars, doneVars, passVars,
     history
<1>10. CASE List
  BY <1>10 DEF List, Reads, Done, resyncVars, boxVars, askVars, loopVars, doneVars, passVars,
     history
<1>11. CASE AddPreset
  BY <1>11 DEF AddPreset, Done, resyncVars, boxVars, askVars, loopVars, doneVars, passVars,
     history
<1>12. CASE Poll
  BY <1>12 DEF Poll, resyncVars, boxVars, askVars, loopVars, doneVars, passVars, history
<1>13. CASE Slept
  BY <1>13 DEF Slept, resyncVars, boxVars, askVars, loopVars, doneVars, passVars, history
<1>14. CASE FallAsleep \/ WakeUp \/ ChangeSource \/ ForgetKeys \/ TimePasses
  BY <1>14 DEF FallAsleep, WakeUp, ChangeSource, ForgetKeys, TimePasses, resyncVars, boxVars,
     askVars, loopVars, doneVars, passVars, history
<1>15. ASSUME NEW a \in Asker, OnStandbyExit(a) \/ OnEvent(a) \/ Handler(a)
     PROVE PassInv'
  <2>1. UNCHANGED <<stage, force, fullDone, everFullDone>>
    BY <1>15 DEF Handler, OnStandbyExit, OnEvent, Reconnected, ThumbRead, ThumbAsleep,
       Refuse, Stamp, Arm, loopVars, doneVars
  <2>. QED
    BY <2>1
<1>16. CASE UNCHANGED resyncVars
  BY <1>16 DEF resyncVars, boxVars, askVars, loopVars, doneVars, passVars, history
<1>. QED
  BY <1>1, <1>2, <1>3, <1>4, <1>5, <1>6, <1>7, <1>8, <1>9, <1>10, <1>11, <1>12, <1>13,
     <1>14, <1>15, <1>16 DEF ResyncNext, Loop

(* Every step keeps the count. *)
LEMMA CountStep ==
  ASSUME ResyncTypeOK, NightInv, [ResyncNext]_resyncVars
  PROVE  CountInv'
<1>. USE DEF CountInv
<1>. CountInv /\ PassInv /\ SpentInv
  BY DEF NightInv
<1>1. CASE FallAsleep
  <2>1. nights' = 0 /\ UNCHANGED everFullDone
    BY <1>1 DEF FallAsleep, loopVars, doneVars
  <2>. QED
    BY <2>1
<1>2. CASE List
  <2>1. everFullDone => everFullDone'
    BY <1>2 DEF List, Done, doneVars
  <2>2. CASE UNCHANGED nights
    BY <2>1, <2>2
  <2>3. CASE nights' # nights
    <3>1. source = "STANDBY" /\ everFullDone /\ force # "user" /\ nights' = nights + 1
      BY <1>2, <2>3 DEF List
    <3>2. stage = "list" /\ (force # "no" \/ Slot \ listed # {})
      BY <1>2, <2>3 DEF List
    <3>3. nights # 1
      BY <3>1, <3>2 DEF SpentInv
    <3>. QED
      BY <2>1, <3>1, <3>3
  <2>. QED
    BY <2>2, <2>3
<1>3. CASE AddPreset
  <2>1. UNCHANGED nights /\ (everFullDone => everFullDone')
    BY <1>3 DEF AddPreset, Done, doneVars, history
  <2>. QED
    BY <2>1
<1>4. CASE WakeUp \/ ChangeSource \/ ForgetKeys \/ TimePasses \/ Top \/ Gate \/ Consume
          \/ Swap \/ Evidence \/ Probe \/ Defer \/ Proceed \/ Insure \/ Poll \/ Slept
  <2>1. UNCHANGED <<nights, everFullDone>>
    BY <1>4 DEF WakeUp, ChangeSource, ForgetKeys, TimePasses, Top, Gate, Consume, Swap,
       Evidence, Probe, Defer, Proceed, Insure, Poll, Slept, loopVars, doneVars, history
  <2>. QED
    BY <2>1
<1>5. ASSUME NEW a \in Asker, OnStandbyExit(a) \/ OnEvent(a) \/ Handler(a)
      PROVE  CountInv'
  <2>1. UNCHANGED <<nights, everFullDone>>
    BY <1>5 DEF Handler, OnStandbyExit, OnEvent, Reconnected, ThumbRead, ThumbAsleep,
       Refuse, Stamp, Arm, loopVars, doneVars, history
  <2>. QED
    BY <2>1
<1>6. CASE UNCHANGED resyncVars
  BY <1>6 DEF resyncVars, loopVars, doneVars, history
<1>. QED
  BY <1>1, <1>2, <1>3, <1>4, <1>5, <1>6 DEF ResyncNext, Loop

(* A standby that is spent stays so: no step of the loop brings on a pass that *)
(* counts.                                                                     *)
LEMMA SpentStep ==
  ASSUME ResyncTypeOK, NightInv, [ResyncNext]_resyncVars
  PROVE  SpentInv'
<1>. USE DEF SpentInv
<1>. CountInv /\ PassInv /\ SpentInv
  BY DEF NightInv
<1>1. CASE FallAsleep
  <2>1. nights' = 0
    BY <1>1 DEF FallAsleep
  <2>. QED
    BY <2>1
<1>2. CASE WakeUp
  <2>1. source' # "STANDBY"
    BY <1>2 DEF WakeUp
  <2>. QED
    BY <2>1
<1>3. CASE ChangeSource
  <2>1. source' # "STANDBY"
    BY <1>3 DEF ChangeSource
  <2>. QED
    BY <2>1
<1>4. CASE Top
  <2>1. UNCHANGED <<nights, source, listed, fullDone>> /\ stage = "top"
    BY <1>4 DEF Top, boxVars, doneVars, history
  <2>2. CASE fullDone
    <3>1. stage' = "consume"
      BY <1>4, <2>2 DEF Top
    <3>. QED
      BY <2>1, <3>1
  <2>3. CASE ~fullDone
    <3>1. stage' = IF everFullDone THEN "gate" ELSE "list"
      BY <1>4, <2>3 DEF Top
    <3>. QED
      BY <2>1, <2>3, <3>1 DEF CountInv
  <2>. QED
    BY <2>2, <2>3
<1>5. CASE Gate
  <2>1. UNCHANGED <<nights, source, listed, fullDone>> /\ stage = "gate"
    BY <1>5 DEF Gate, boxVars, doneVars, history
  <2>2. source = "STANDBY" => stage' = "held"
    BY <1>5 DEF Gate, Reads, Asleep
  <2>. QED
    BY <2>1, <2>2 DEF PassInv
<1>6. CASE Consume \/ Swap \/ Defer \/ Poll \/ Slept
  <2>1. UNCHANGED <<nights, source, listed, fullDone>> /\ stage # "write"
    BY <1>6 DEF Consume, Swap, Defer, Poll, Slept, boxVars, doneVars, history
  <2>2. stage' \in {"swap", "insure", "evidence", "top", "sleep"}
    BY <1>6 DEF Consume, Swap, Defer, Poll, Slept
  <2>. QED
    BY <2>1, <2>2
<1>7. CASE Evidence
  <2>1. UNCHANGED <<nights, source, listed, fullDone>> /\ stage = "evidence"
    BY <1>7 DEF Evidence, boxVars, doneVars
  <2>2. stage' = "probe" \/ (stage' = "list" /\ force' = "user")
    BY <1>7 DEF Evidence, Decided
  <2>. QED
    BY <2>1, <2>2 DEF PassInv
<1>8. CASE Probe
  <2>1. UNCHANGED <<nights, source, listed, fullDone>> /\ stage = "probe" /\ stage' = "decide"
    BY <1>8 DEF Probe, boxVars, doneVars, history
  <2>2. source = "STANDBY" => Asleep(seen')
    BY <1>8 DEF Probe, Reads, Asleep
  <2>3. source' = "STANDBY" => Asleep(seen)'
    BY <2>1, <2>2 DEF Asleep
  <2>. QED
    BY <2>1, <2>3
<1>9. CASE Proceed
  <2>1. UNCHANGED <<nights, source>> /\ stage = "decide" /\ ~Asleep(seen)
    BY <1>9 DEF Proceed, boxVars
  <2>. QED
    BY <2>1
<1>10. CASE Insure
  <2>1. UNCHANGED <<nights, source, listed, fullDone>> /\ stage = "insure" /\ stage' = "list"
    BY <1>10 DEF Insure, boxVars, doneVars, history
  <2>2. source = "STANDBY" => force' = "no"
    BY <1>10, <2>1 DEF Insure, Reads, PassInv
  <2>. QED
    BY <2>1, <2>2 DEF PassInv
<1>11. CASE List
  <2>. SUFFICES ASSUME nights' = 1, source' = "STANDBY" PROVE SpentInv'
    OBVIOUS
  <2>1. UNCHANGED <<source, listed>> /\ stage = "list"
    BY <1>11 DEF List, boxVars
  <2>2. CASE stage' = "write"
    <3>1. todo' = IF force # "no" THEN Slot ELSE Slot \ listed
      BY <1>11, <2>2 DEF List, Done
    <3>2. Slot \ listed' \subseteq todo'
      BY <2>1, <3>1
    <3>. QED
      BY <2>2, <3>2
  <2>3. CASE stage' # "write"
    <3>1. UNCHANGED nights /\ stage' \in {"wait", "sleep"}
      BY <1>11, <2>3 DEF List, Done
    <3>2. CASE fullDone'
      <4>1. (IF force # "no" THEN Slot ELSE Slot \ listed) = {}
        BY <1>11, <2>3, <3>2 DEF List, Done
      <4>2. listed = Slot
        BY <2>1, <3>1, <4>1, SlotAssumption
      <4>. QED
        BY <2>1, <3>1, <4>2
    <3>3. CASE ~fullDone'
      BY <3>1, <3>3
    <3>. QED
      BY <3>2, <3>3
  <2>. QED
    BY <2>2, <2>3
<1>12. CASE AddPreset
  <2>. SUFFICES ASSUME nights' = 1, source' = "STANDBY" PROVE SpentInv'
    OBVIOUS
  <2>. BoxTypeOK /\ PassTypeOK
    BY DEF ResyncTypeOK
  <2>1. nights = 1 /\ stage = "write" /\ source = "STANDBY"
    BY <1>12 DEF AddPreset, history
  <2>2. failed \/ Slot \ listed \subseteq todo
    BY <2>1
  <2>3. PICK s \in todo, ok \in BOOLEAN : AddPreset!2!(s, ok)
    BY <1>12 DEF AddPreset
  <2>4. ok => Slot \ listed' \subseteq todo' \/ failed
    BY <2>2, <2>3
  <2>5. CASE todo' = {}
    <3>1. fullDone' = (ok /\ ~failed) /\ stage' \in {"wait", "sleep"}
      BY <2>3, <2>5 DEF Done
    <3>2. ok => listed' \subseteq Slot
      BY <2>3 DEF BoxTypeOK, PassTypeOK
    <3>. QED
      BY <2>4, <2>5, <3>1, <3>2
  <2>6. CASE todo' # {}
    <3>1. failed' = (failed \/ ~ok) /\ UNCHANGED stage
      BY <2>3, <2>6
    <3>. QED
      BY <2>1, <2>4, <3>1
  <2>. QED
    BY <2>5, <2>6
<1>13. CASE ForgetKeys \/ TimePasses
  <2>1. UNCHANGED <<nights, source, listed, stage, seen, force, fullDone, failed, todo>>
    BY <1>13 DEF ForgetKeys, TimePasses, boxVars, loopVars, doneVars, passVars, history
  <2>. QED
    BY <2>1 DEF Asleep
<1>14. ASSUME NEW a \in Asker, OnStandbyExit(a) \/ OnEvent(a) \/ Handler(a)
       PROVE  SpentInv'
  <2>1. UNCHANGED <<nights, source, listed, stage, seen, force, fullDone, failed, todo>>
    BY <1>14 DEF Handler, OnStandbyExit, OnEvent, Reconnected, ThumbRead, ThumbAsleep,
       Refuse, Stamp, Arm, boxVars, loopVars, doneVars, passVars, history
  <2>. QED
    BY <2>1 DEF Asleep
<1>15. CASE UNCHANGED resyncVars
  BY <1>15 DEF Asleep, resyncVars, boxVars, loopVars, doneVars, passVars, history
<1>. QED
  BY <1>1, <1>2, <1>3, <1>4, <1>5, <1>6, <1>7, <1>8, <1>9, <1>10, <1>11, <1>12, <1>13,
     <1>14, <1>15 DEF ResyncNext, Loop

(* Every step keeps to one pass in a standby. *)
LEMMA NightStep ==
  ASSUME ResyncTypeOK, NightInv, [ResyncNext]_resyncVars
  PROVE  NightInv'
BY PassInvStep, CountStep, SpentStep DEF NightInv, ResyncTypeOK

(* The start has spent nothing. *)
LEMMA Start == ResyncInit => HealingInv
<1>. SUFFICES ASSUME ResyncInit PROVE HealingInv
  OBVIOUS
<1>1. BoxTypeOK
  BY DEF ResyncInit, BoxTypeOK, Source
<1>2. BoundsOK
  <2>1. cycles = 0 /\ boxEvents = 0 /\ faults = 0
    BY DEF ResyncInit
  <2>. QED
    BY <2>1, BoundsAssumption DEF BoundsOK
<1>3. StampTypeOK /\ AskTypeOK /\ LoopTypeOK /\ PassTypeOK /\ HistoryTypeOK
  BY DEF ResyncInit, StampTypeOK, AskTypeOK, LoopTypeOK, PassTypeOK, HistoryTypeOK, Age, Source
<1>4. RoutineStampBacked /\ NightInv
  BY DEF ResyncInit, RoutineStampBacked, NightInv, PassInv, CountInv, SpentInv
<1>. QED
  BY <1>1, <1>2, <1>3, <1>4 DEF HealingInv, ResyncTypeOK

(* The inductive invariant holds in every reachable state. *)
THEOREM HealingInvariant == ResyncSpec => []HealingInv
<1>1. HealingInv /\ [ResyncNext]_resyncVars => HealingInv'
  BY TypeStep, BackedStep, NightStep DEF HealingInv, ResyncTypeOK
<1>. QED
  BY Start, <1>1, PTL DEF ResyncSpec

(* Every variable of the re-sync keeps its type. *)
THEOREM ResyncTypeCorrect == ResyncSpec => []ResyncTypeOK
<1>1. HealingInv => ResyncTypeOK
  BY DEF HealingInv
<1>. QED
  BY HealingInvariant, <1>1, PTL

(* No request is refused for the budget of an ask that was dropped: a spent     *)
(* routine budget means a heal that is pending or was decided on.               *)
THEOREM StampBacked == ResyncSpec => []RoutineStampBacked
<1>1. HealingInv => RoutineStampBacked
  BY DEF HealingInv
<1>. QED
  BY HealingInvariant, <1>1, PTL

(* However often reads and writes fail, one standby sees at most one pass that  *)
(* writes, after boot and without a user at the keys.                           *)
THEOREM OneNightWrite == ResyncSpec => []NightWritesBounded
<1>1. HealingInv => NightWritesBounded
  BY DEF HealingInv, NightInv, CountInv, NightWritesBounded
<1>. QED
  BY HealingInvariant, <1>1, PTL
=============================================================================
