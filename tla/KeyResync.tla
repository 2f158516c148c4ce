------------------------------ MODULE KeyResync ------------------------------
(***************************************************************************)
(* The healing of the hardware keys (cmd/agent/reconcile.go and its askers *)
(* in wshandler.go).  The firmware of the speaker forgets what its keys    *)
(* stand for, in standby and at a new login, often while /presets lists    *)
(* every slot still.  Handlers of its events ask for a full re-sync, and   *)
(* one loop carries the asks out with AddPreset, slot by slot.  A write    *)
(* into a sleeping speaker keeps it from its deep standby, and a write     *)
(* switches the speaker to STR's own source: so the loop reads the source  *)
(* before it writes, and drops an ask that finds the speaker asleep.       *)
(*                                                                         *)
(* A time stamp is its age against the window it is compared with: never,  *)
(* recent or old.  The store of presets is fixed and not empty.            *)
(***************************************************************************)
EXTENDS Integers, FiniteSets

CONSTANTS
  Asker,       \* goroutines that handle the events of the speaker
  Slot,        \* preset slots
  MaxCycles,   \* bound on the times the speaker goes to standby
  MaxBoxEvents, \* bound on the other events of the speaker
  MaxFaults    \* bound on the reads and writes that fail

ASSUME SlotAssumption == IsFiniteSet(Slot) /\ Slot # {}
ASSUME BoundsAssumption ==
  MaxCycles \in Nat /\ MaxBoxEvents \in Nat /\ MaxFaults \in Nat

Age == {"never", "recent", "old"}

\* The sources of the speaker: "USER" is any that STR does not use itself.
Source == {"STANDBY", "UPNP", "USER"}

VARIABLES
  \* the speaker
  source,      \* source of now_playing
  keys,        \* slots whose key is registered
  listed,      \* slots /presets lists
  woke,        \* the speaker has left standby and OnStandbyExit has not run yet
  cycles, boxEvents, faults,
  \* the asks
  ask,         \* presetResyncAsk
  routine,     \* age of presetResyncLast, against 2 minutes
  urgent,      \* age of presetResyncUrgentLast, against 60 seconds
  thumb,       \* age of standbyThumbLast, against 60 seconds
  standbyOK,   \* presetResyncStandbyOK
  job,         \* of an asker: what it does next
  \* periodicPresetReconcile
  stage,       \* where the loop is
  force,       \* why this pass writes every slot: "no", "retry", "ask", "user" or "insurance"
  fullDone, everFullDone,
  consumed,    \* lastConsumed
  seen,        \* what the probe of a consumed ask has read
  insured,     \* age of lastAwakeForce, against 20 minutes
  todo,        \* slots the current pass still has to write
  failed,      \* syncFailed
  \* history
  backed,      \* a re-sync has been decided on since the routine stamp was set
  nights,      \* passes that wrote into this standby, neither at boot nor for a user
  silenced     \* an urgent ask was refused during the probe of the one taken up

boxVars  == <<source, keys, listed, woke, cycles, boxEvents>>
askVars  == <<ask, routine, urgent, thumb, standbyOK, job>>
passVars == <<todo, failed>>
doneVars == <<fullDone, everFullDone>>
loopVars == <<stage, force, doneVars, consumed, seen, insured, passVars>>
history  == <<backed, nights, silenced>>
resyncVars == <<boxVars, faults, askVars, loopVars, history>>

ResyncInit ==
  /\ source \in {"STANDBY", "UPNP"} /\ keys = {} /\ listed \in {{}, Slot} /\ woke = FALSE
  /\ cycles = 0 /\ boxEvents = 0 /\ faults = 0
  /\ ask = FALSE /\ routine = "never" /\ urgent = "never" /\ thumb = "never"
  /\ standbyOK = FALSE /\ job = [a \in Asker |-> "none"]
  /\ stage = "top" /\ force = "no" /\ fullDone = FALSE /\ everFullDone = FALSE
  /\ consumed = "never" /\ seen = "" /\ insured = "recent" /\ todo = {} /\ failed = FALSE
  /\ backed = FALSE /\ nights = 0 /\ silenced = FALSE

-----------------------------------------------------------------------------
(* The speaker. *)

\* A read of the speaker answers x, or fails and answers "".
Reads(x, answer) ==
  \/ answer = x /\ UNCHANGED faults
  \/ answer = "" /\ faults < MaxFaults /\ faults' = faults + 1

Asleep(s) == s \in {"STANDBY", ""}

\* The speaker goes to standby; it may forget its keys, and the list of them.
FallAsleep ==
  /\ source # "STANDBY" /\ cycles < MaxCycles
  /\ source' = "STANDBY" /\ cycles' = cycles + 1
  /\ keys' \in {keys, {}} /\ listed' \in {listed, {}}
  /\ nights' = 0
  /\ UNCHANGED <<woke, boxEvents, faults, askVars, loopVars, backed, silenced>>

\* The user switches the speaker on, or a sender does.
WakeUp ==
  /\ source = "STANDBY"
  /\ source' \in {"UPNP", "USER"} /\ woke' = TRUE
  /\ UNCHANGED <<keys, listed, cycles, boxEvents, faults, askVars, loopVars, history>>

\* The user turns to another source.
ChangeSource ==
  /\ source # "STANDBY" /\ boxEvents < MaxBoxEvents
  /\ source' \in {"UPNP", "USER"} \ {source} /\ boxEvents' = boxEvents + 1
  /\ UNCHANGED <<keys, listed, woke, cycles, faults, askVars, loopVars, history>>

\* The firmware forgets its keys without a trace.
ForgetKeys ==
  /\ keys # {} /\ boxEvents < MaxBoxEvents
  /\ keys' = {} /\ boxEvents' = boxEvents + 1
  /\ UNCHANGED <<source, listed, woke, cycles, faults, askVars, loopVars, history>>

-----------------------------------------------------------------------------
(* The askers. *)

GotoJob(a, j) == job' = [job EXCEPT ![a] = j]

\* OnStandbyExit, and OnPowerWake.
OnStandbyExit(a) ==
  /\ woke /\ job[a] = "none"
  /\ woke' = FALSE /\ GotoJob(a, "ask")
  /\ UNCHANGED <<source, keys, listed, cycles, boxEvents, faults, ask, routine, urgent, thumb,
                 standbyOK, loopVars, history>>

\* OnSourceRejected and the hook of a new pairing ask at once; a thumb frame and
\* a reconnect read the source first.
OnEvent(a) ==
  /\ job[a] = "none" /\ boxEvents < MaxBoxEvents
  /\ boxEvents' = boxEvents + 1
  /\ \E j \in {"askUrgent", "thumb", "reconnect"} : GotoJob(a, j)
  /\ UNCHANGED <<source, keys, listed, woke, cycles, faults, ask, routine, urgent, thumb,
                 standbyOK, loopVars, history>>

\* resyncUnlessIdleStandby: a failed read asks.
Reconnected(a) ==
  /\ job[a] = "reconnect"
  /\ \E r \in Source \cup {""} :
       Reads(source, r) /\ GotoJob(a, IF r = "STANDBY" THEN "none" ELSE "ask")
  /\ UNCHANGED <<boxVars, ask, routine, urgent, thumb, standbyOK, loopVars, history>>

\* OnThumbActivity: in standby one frame is a phantom, a second within a minute is
\* a user at a dead key.
ThumbRead(a) ==
  /\ job[a] = "thumb"
  /\ \E r \in Source \cup {""} :
       Reads(source, r) /\ GotoJob(a, IF r = "STANDBY" THEN "phantom" ELSE "ask")
  /\ UNCHANGED <<boxVars, ask, routine, urgent, thumb, standbyOK, loopVars, history>>

ThumbAsleep(a) ==
  /\ job[a] = "phantom"
  /\ thumb' = "recent"
  /\ standbyOK' = (standbyOK \/ thumb = "recent")
  /\ GotoJob(a, IF thumb = "recent" THEN "ask" ELSE "none")
  /\ UNCHANGED <<boxVars, faults, ask, routine, urgent, loopVars, history>>

\* An ask is armed, or about to be.
Pending == ask \/ \E a \in Asker : job[a] = "arm"

\* requestPresetKeyResync and its urgent form: nothing while the budget is spent;
\* else the stamp, then the flag.
Refuse(a) ==
  /\ \/ job[a] = "ask" /\ routine = "recent"
     \/ job[a] = "askUrgent" /\ urgent = "recent"
  /\ GotoJob(a, "none")
  /\ silenced' = \/ silenced
                 \/ job[a] = "askUrgent" /\ stage \in {"evidence", "probe", "decide"} /\ ~Pending
  /\ UNCHANGED <<boxVars, faults, ask, routine, urgent, thumb, standbyOK, loopVars,
                 backed, nights>>

Stamp(a) ==
  /\ \/ job[a] = "ask" /\ routine # "recent"
        /\ routine' = "recent" /\ backed' = FALSE /\ UNCHANGED urgent
     \/ job[a] = "askUrgent" /\ urgent # "recent"
        /\ urgent' = "recent" /\ UNCHANGED <<routine, backed>>
  /\ GotoJob(a, "arm")
  /\ UNCHANGED <<boxVars, faults, ask, thumb, standbyOK, loopVars, nights, silenced>>

Arm(a) ==
  /\ job[a] = "arm"
  /\ ask' = TRUE /\ GotoJob(a, "none")
  /\ UNCHANGED <<boxVars, faults, routine, urgent, thumb, standbyOK, loopVars, history>>

-----------------------------------------------------------------------------
(* Time.  A stamp that is due is set again by the loop or an asker. *)

TimePasses ==
  /\ \/ /\ routine = "recent" /\ routine' = "old"
        /\ UNCHANGED <<urgent, thumb, consumed, insured>>
     \/ /\ urgent = "recent" /\ urgent' = "old"
        /\ UNCHANGED <<routine, thumb, consumed, insured>>
     \/ /\ thumb = "recent" /\ thumb' = "old"
        /\ UNCHANGED <<routine, urgent, consumed, insured>>
     \/ /\ consumed = "recent" /\ consumed' = "old"
        /\ UNCHANGED <<routine, urgent, thumb, insured>>
     \/ /\ insured = "recent" /\ insured' = "old"
        /\ UNCHANGED <<routine, urgent, thumb, consumed>>
  /\ UNCHANGED <<boxVars, faults, ask, standbyOK, job, stage, force, doneVars, seen,
                 passVars, history>>

-----------------------------------------------------------------------------
(* The loop. *)

\* A pass starts: forced until one has gone through.
Top ==
  /\ stage = "top"
  /\ IF fullDone
     THEN stage' = "consume" /\ UNCHANGED <<force, insured>>
     ELSE /\ stage' = IF everFullDone THEN "gate" ELSE "list"
          /\ force' = "retry" /\ insured' = "recent"
  /\ UNCHANGED <<boxVars, faults, askVars, doneVars, consumed, seen, passVars, history>>

\* Mutant: a retry goes ahead.
Gate_Ungated ==
  /\ stage = "gate" /\ stage' = "list"
  /\ UNCHANGED <<boxVars, faults, askVars, force, doneVars, consumed, seen, insured,
                 passVars, history>>

\* A retry is held while the speaker sleeps, the pending ask untouched.
Gate ==
  /\ stage = "gate"
  /\ \E r \in Source \cup {""} :
       /\ Reads(source, r)
       /\ IF Asleep(r) THEN stage' = "held" /\ force' = "no"
                       ELSE stage' = "list" /\ UNCHANGED force
  /\ UNCHANGED <<boxVars, askVars, doneVars, consumed, seen, insured, passVars, history>>

Consume ==
  /\ stage = "consume"
  /\ ask' = FALSE
  /\ stage' = IF ask THEN "swap" ELSE "insure"
  /\ UNCHANGED <<boxVars, faults, routine, urgent, thumb, standbyOK, job, force, doneVars,
                 consumed, seen, insured, passVars, history>>

\* Mutant: the budget is left alone.
Swap_Keeps ==
  /\ stage = "swap" /\ stage' = "evidence"
  /\ consumed' = routine
  /\ UNCHANGED <<boxVars, faults, askVars, force, doneVars, seen, insured, passVars, history>>

\* The budget is cleared before the probe, so that an ask during it is heard.
Swap ==
  /\ stage = "swap" /\ stage' = "evidence"
  /\ consumed' = routine /\ routine' = "never"
  /\ UNCHANGED <<boxVars, faults, ask, urgent, thumb, standbyOK, job, force, doneVars,
                 seen, insured, passVars, history>>

\* The locals of the consumption of an ask go out of scope.
Forget == consumed' = "never" /\ seen' = "" /\ silenced' = FALSE

\* The re-sync is decided on: the budget is spent, unless a new ask has stamped it.
Decided(why) ==
  /\ routine' = IF routine = "never" THEN consumed ELSE routine
  /\ force' = why /\ insured' = "recent" /\ backed' = TRUE
  /\ stage' = "list"
  /\ Forget

\* A user at the speaker overrides the probe, once.
Evidence ==
  /\ stage = "evidence"
  /\ standbyOK' = FALSE
  /\ IF standbyOK
     THEN Decided("user")
     ELSE stage' = "probe" /\ UNCHANGED <<routine, force, insured, consumed, seen, backed, silenced>>
  /\ UNCHANGED <<boxVars, faults, ask, urgent, thumb, job, doneVars, passVars, nights>>

Probe ==
  /\ stage = "probe" /\ stage' = "decide"
  /\ seen' \in Source \cup {""} /\ Reads(source, seen')
  /\ UNCHANGED <<boxVars, askVars, force, doneVars, consumed, insured, passVars, history>>

\* Mutant: the ask is armed again.
Defer_Rearms ==
  /\ stage = "decide" /\ Asleep(seen)
  /\ routine' = "never" /\ urgent' = "never" /\ ask' = TRUE
  /\ stage' = "insure" /\ Forget
  /\ UNCHANGED <<boxVars, faults, thumb, standbyOK, job, force, doneVars, insured,
                 passVars, backed, nights>>

\* deferPresetResyncForStandby drops the ask of a sleeping speaker, and both
\* budgets with it.
Defer ==
  /\ stage = "decide" /\ Asleep(seen)
  /\ routine' = "never" /\ urgent' = "never"
  /\ stage' = "insure" /\ Forget
  /\ UNCHANGED <<boxVars, faults, ask, thumb, standbyOK, job, force, doneVars, insured,
                 passVars, backed, nights>>

Proceed ==
  /\ stage = "decide" /\ ~Asleep(seen)
  /\ Decided("ask")
  /\ UNCHANGED <<boxVars, faults, ask, urgent, thumb, standbyOK, job, doneVars,
                 passVars, nights>>

\* Mutant: the stamp is cleared instead of set.
Insure_Cleared ==
  /\ stage = "insure" /\ stage' = "list"
  /\ IF insured = "recent" THEN UNCHANGED insured ELSE insured' = "never"
  /\ UNCHANGED <<boxVars, faults, askVars, force, doneVars, consumed, seen, passVars, history>>

\* Mutant: there is no insurance.
Insure_Never ==
  /\ stage = "insure" /\ stage' = "list"
  /\ UNCHANGED <<boxVars, faults, askVars, force, doneVars, consumed, seen, insured,
                 passVars, history>>

\* Every 20 minutes a forced pass, if the speaker is awake on STR's own source.
Insure ==
  /\ stage = "insure" /\ stage' = "list"
  /\ IF insured = "recent"
     THEN UNCHANGED <<force, insured, faults>>
     ELSE /\ insured' = "recent"
          /\ \E r \in Source \cup {""} :
               Reads(source, r) /\ force' = IF r = "UPNP" THEN "insurance" ELSE "no"
  /\ UNCHANGED <<boxVars, askVars, doneVars, consumed, seen, passVars, history>>

\* reconcileOnce ends; a pass that failed is repeated soon.
Done(ok) ==
  /\ fullDone' = ok /\ everFullDone' = (everFullDone \/ ok)
  /\ force' = "no" /\ failed' = FALSE
  /\ stage' = IF ok THEN "wait" ELSE "sleep"

\* reconcileOnce reads the setup state and the list, and finds the slots to write.
List ==
  /\ stage = "list"
  /\ \E r \in {"list", ""} :
       /\ Reads("list", r)
       /\ LET write == IF r = "" THEN {} ELSE IF force # "no" THEN Slot ELSE Slot \ listed
          IN  IF write = {}
              THEN Done(r # "") /\ UNCHANGED <<todo, nights>>
              ELSE /\ stage' = "write" /\ todo' = write
                   /\ nights' = IF source = "STANDBY" /\ everFullDone /\ force # "user"
                                THEN nights + 1 ELSE nights
                   /\ UNCHANGED <<force, doneVars, failed>>
  /\ UNCHANGED <<boxVars, askVars, consumed, seen, insured, backed, silenced>>

\* SyncAllPresets: one AddPreset, at which the firmware may take up STR's source.
AddPreset ==
  /\ stage = "write"
  /\ \E s \in todo, ok \in BOOLEAN :
       /\ todo' = todo \ {s}
       /\ IF ok
          THEN /\ keys' = keys \cup {s} /\ listed' = listed \cup {s}
               /\ source' \in {source, "UPNP"}
               /\ woke' = (woke \/ (source = "STANDBY" /\ source' # "STANDBY"))
               /\ UNCHANGED faults
          ELSE /\ faults < MaxFaults /\ faults' = faults + 1
               /\ UNCHANGED <<source, keys, listed, woke>>
       /\ IF todo' = {}
          THEN Done(ok /\ ~failed)
          ELSE failed' = (failed \/ ~ok) /\ UNCHANGED <<stage, force, doneVars>>
  /\ UNCHANGED <<cycles, boxEvents, askVars, consumed, seen, insured, history>>

\* The wait of five minutes, or of a held pass: it polls every 10 s, and ends when
\* an ask is pending, at once if one is already.
Poll ==
  /\ stage \in {"wait", "held"}
  /\ stage' = IF ask THEN "top" ELSE "sleep"
  /\ UNCHANGED <<boxVars, faults, askVars, force, doneVars, consumed, seen, insured,
                 passVars, history>>

\* The loop has slept 10 s, of a wait or between the passes of the fast cadence.
Slept ==
  /\ stage = "sleep"
  /\ stage' = "top"
  /\ UNCHANGED <<boxVars, faults, askVars, force, doneVars, consumed, seen, insured,
                 passVars, history>>

-----------------------------------------------------------------------------
Handler(a) ==
  \/ Reconnected(a) \/ ThumbRead(a) \/ ThumbAsleep(a)
  \/ Refuse(a) \/ Stamp(a) \/ Arm(a)

Loop ==
  \/ Top \/ Gate \/ Consume \/ Swap \/ Evidence \/ Probe \/ Defer \/ Proceed
  \/ Insure \/ List \/ AddPreset \/ Poll \/ Slept

ResyncNext ==
  \/ FallAsleep \/ WakeUp \/ ChangeSource \/ ForgetKeys
  \/ \E a \in Asker : OnStandbyExit(a) \/ OnEvent(a) \/ Handler(a)
  \/ TimePasses
  \/ Loop

ResyncSpec == ResyncInit /\ [][ResyncNext]_resyncVars

\* Every call of the loop and of the handlers to the speaker carries a timeout, the
\* loop sleeps for bounded times, and time passes.  The speaker promises nothing.
ResyncFairness ==
  /\ WF_resyncVars(Loop)
  /\ WF_resyncVars(TimePasses)
  /\ \A a \in Asker : WF_resyncVars(OnStandbyExit(a)) /\ WF_resyncVars(Handler(a))

FairResyncSpec == ResyncSpec /\ ResyncFairness

-----------------------------------------------------------------------------
(* Properties. *)

BoxTypeOK ==
  source \in Source /\ keys \subseteq Slot /\ listed \subseteq Slot /\ woke \in BOOLEAN

BoundsOK == cycles \in 0 .. MaxCycles /\ boxEvents \in 0 .. MaxBoxEvents /\ faults \in 0 .. MaxFaults

StampTypeOK == routine \in Age /\ urgent \in Age /\ thumb \in Age /\ consumed \in Age

AskTypeOK ==
  /\ ask \in BOOLEAN /\ standbyOK \in BOOLEAN
  /\ job \in [Asker -> {"none", "thumb", "phantom", "reconnect", "ask", "askUrgent", "arm"}]

LoopTypeOK ==
  /\ stage \in {"top", "gate", "consume", "swap", "evidence", "probe", "decide", "insure",
             "list", "write", "wait", "held", "sleep"}
  /\ force \in {"no", "retry", "ask", "user", "insurance"}
  /\ seen \in Source \cup {""} /\ insured \in {"recent", "old"}

PassTypeOK ==
  fullDone \in BOOLEAN /\ everFullDone \in BOOLEAN /\ failed \in BOOLEAN /\ todo \subseteq Slot

HistoryTypeOK == backed \in BOOLEAN /\ nights \in Nat /\ silenced \in BOOLEAN

ResyncTypeOK ==
  /\ BoxTypeOK /\ BoundsOK /\ StampTypeOK /\ AskTypeOK /\ LoopTypeOK /\ PassTypeOK
  /\ HistoryTypeOK

\* A request is refused for a spent routine budget only if its heal is on its way or
\* decided on: an ask is pending or has just been taken up, or a re-sync has been
\* decided on since the stamp.  (presetResyncLast is cleared before the probe, so a
\* deferral swallows no request of the wake.)
RoutineStampBacked == routine = "recent" => Pending \/ stage = "swap" \/ backed

\* After boot, and without a user at the keys, at most one pass writes into the
\* speaker in one standby: no retry and no failed read keeps it from its deep
\* standby.
NightWritesBounded == nights <= 1

\* A speaker that stays on STR's own source has all its keys registered in the end,
\* whatever its firmware forgot, and whatever asks were lost.
KeysComeBack == <>[](source = "UPNP") => <>[](keys = Slot)

\* While no call fails the loop never polls the speaker without rest: an ask it
\* cannot carry out does not become a probe loop.
LoopRests == [](faults = 0) => []<>(stage = "sleep")

\* reconcile.go:256: re-arming a dropped ask "would turn the 10s wait gate into a ~1s
\* re-consume/probe loop", which is to be avoided after a failed call too.
LoopNeverSpins == []<>(stage = "sleep")

\* What the comment on OnStandbyExit promises: a wake is the guaranteed heal.
StandbyExitHeals == <>[](source # "STANDBY") => <>[](keys = Slot)

\* What the comment on deferPresetResyncForStandby promises: a request is not
\* silenced by the budget of an ask that is then dropped.
UrgentReaskHeard == [][stage = "decide" /\ stage' = "insure" => ~silenced]_resyncVars

\* What the comment on presetResyncStandbyOK promises: it lets one ask through the
\* gate of standby, the one the user's dead key has caused.
EvidenceHasItsAsk ==
  standbyOK => Pending \/ stage \in {"swap", "evidence"} \/ \E a \in Asker : job[a] = "ask"

\* What the comment on resyncSafeSource says: a re-sync runs only on STR's own
\* source.
ResyncOnlyWhenSafe == [][stage = "decide" /\ stage' = "list" => seen = "UPNP"]_resyncVars
=============================================================================
