------------------------------ MODULE SleepTimer ------------------------------
(***************************************************************************)
(* The sleep timer (internal/webui/sleeptimer.go).  Arming replaces the    *)
(* timer that runs; time.Timer.Stop does not reach a callback that has     *)
(* started, so a callback carries the generation it was armed with and     *)
(* checks it once.  The callback then reads this speaker, switches it off  *)
(* and sends the members of its group to standby, one call each.           *)
(***************************************************************************)
EXTENDS Naturals

CONSTANTS SleepMembers,   \* the other speakers of the group
          MaxSleeps       \* bound on the timers armed and cancelled

ASSUME SleepAssumption == MaxSleeps \in Nat /\ "self" \notin SleepMembers

VARIABLES
  sleepTimer,    \* sleepState: the generation of the timer, or 0 for nil
  sleepGen,      \* sleepState.gen
  sleepGroup,    \* sleepState.group
  callbacks,     \* per generation: where its AfterFunc is
  grouped,       \* per generation: the group flag its callback read
  asked,         \* per generation: the members its callback has still to send to standby
  awake          \* the speakers that are on

sleepVars == <<sleepTimer, sleepGen, sleepGroup, callbacks, grouped, asked, awake>>

Speakers == SleepMembers \cup {"self"}
SleepGens == 1..MaxSleeps

SleepInit ==
  /\ sleepTimer = 0 /\ sleepGen = 0 /\ sleepGroup = FALSE
  /\ callbacks = [g \in SleepGens |-> "unset"]
  /\ grouped = [g \in SleepGens |-> FALSE] /\ asked = [g \in SleepGens |-> {}]
  /\ awake = Speakers

-----------------------------------------------------------------------------
\* time.Timer.Stop on the timer of the state: it reaches a callback that has not started.
Stopped_Not(cs) == cs
Stopped(cs) ==
  IF sleepTimer = 0 \/ cs[sleepTimer] # "armed" THEN cs ELSE [cs EXCEPT ![sleepTimer] = "over"]

ArmSleep_SameGen(group) ==
  /\ sleepGen < MaxSleeps
  /\ sleepTimer' = sleepGen + 1 /\ sleepGroup' = group
  /\ callbacks' = [Stopped(callbacks) EXCEPT ![sleepGen + 1] = "armed"]
  /\ UNCHANGED <<sleepGen, grouped, asked, awake>>
ArmSleep(group) ==
  /\ sleepGen < MaxSleeps
  /\ sleepGen' = sleepGen + 1 /\ sleepTimer' = sleepGen + 1 /\ sleepGroup' = group
  /\ callbacks' = [Stopped(callbacks) EXCEPT ![sleepGen + 1] = "armed"]
  /\ UNCHANGED <<grouped, asked, awake>>

\* A cancel moves the generation on whether a timer runs or not.
CancelSleep_KeepsTimer ==
  /\ sleepGen < MaxSleeps
  /\ sleepGen' = sleepGen + 1 /\ callbacks' = Stopped(callbacks)
  /\ UNCHANGED <<sleepTimer, sleepGroup, grouped, asked, awake>>
CancelSleep ==
  /\ sleepGen < MaxSleeps
  /\ sleepGen' = sleepGen + 1 /\ sleepTimer' = 0 /\ callbacks' = Stopped(callbacks)
  /\ UNCHANGED <<sleepGroup, grouped, asked, awake>>

-----------------------------------------------------------------------------
Callback(g, from, to) == callbacks[g] = from /\ callbacks' = [callbacks EXCEPT ![g] = to]

\* The time is up: the runtime starts the callback.
TimeUp(g) == Callback(g, "armed", "due") /\ UNCHANGED <<sleepTimer, sleepGen, sleepGroup, grouped, asked, awake>>

\* fireSleep's look at the state: a generation that has moved on ends it.
FireSleep(g) ==
  /\ IF g # sleepGen THEN Callback(g, "due", "over") /\ UNCHANGED <<sleepTimer, grouped>>
     ELSE Callback(g, "due", "read") /\ sleepTimer' = 0 /\ grouped' = [grouped EXCEPT ![g] = sleepGroup]
  /\ UNCHANGED <<sleepGen, sleepGroup, asked, awake>>

\* Read first, act second: a speaker in standby, or one that cannot be read, is left alone.
ReadSource(g) ==
  /\ \/ "self" \in awake /\ Callback(g, "read", "off")
     \/ Callback(g, "read", "over")
  /\ UNCHANGED <<sleepTimer, sleepGen, sleepGroup, grouped, asked, awake>>

\* boxapi.Standby: it fails, switches the speaker off, or wakes one that slept.
Request(s) == awake' \in {awake, awake \ {s}} \cup (IF s \in awake THEN {} ELSE {awake \cup {s}})

\* This speaker off; then, for a group, the members the zone lists now.
StandbySelf(g) ==
  /\ Request("self")
  /\ IF grouped[g] THEN /\ Callback(g, "off", "members")
                        /\ \E ms \in SUBSET SleepMembers : asked' = [asked EXCEPT ![g] = ms]
     ELSE Callback(g, "off", "over") /\ UNCHANGED asked
  /\ UNCHANGED <<sleepTimer, sleepGen, sleepGroup, grouped>>

StandbyMember(g) ==
  /\ \/ \E m \in asked[g] : /\ Request(m)
                            /\ asked' = [asked EXCEPT ![g] = @ \ {m}]
                            /\ callbacks[g] = "members" /\ UNCHANGED callbacks
     \/ asked[g] = {} /\ Callback(g, "members", "over") /\ UNCHANGED <<asked, awake>>
  /\ UNCHANGED <<sleepTimer, sleepGen, sleepGroup, grouped>>

\* A speaker is switched on or off by somebody else.
OtherSwitch ==
  /\ \E s \in Speakers : awake' \in {awake \cup {s}, awake \ {s}}
  /\ UNCHANGED <<sleepTimer, sleepGen, sleepGroup, callbacks, grouped, asked>>

Fire(g) == FireSleep(g) \/ ReadSource(g) \/ StandbySelf(g) \/ StandbyMember(g)
SleepNext ==
  \/ \E group \in BOOLEAN : ArmSleep(group)
  \/ CancelSleep \/ OtherSwitch
  \/ \E g \in SleepGens : TimeUp(g) \/ Fire(g)

-----------------------------------------------------------------------------
SleepTypeOK ==
  /\ sleepTimer \in 0..sleepGen /\ sleepGen \in 0..MaxSleeps /\ sleepGroup \in BOOLEAN
  /\ \A g \in SleepGens : callbacks[g] \in {"unset", "armed", "due", "read", "off", "members", "over"}
  /\ awake \subseteq Speakers

\* What GET /api/sleep answers is what will happen: the timer it reports is the newest and its
\* callback is still to come, and a speaker that reports none has none running out, however
\* arming, cancelling and firing interleave (sleeptimer.go:108-150).
StatusTellsTruth ==
  /\ sleepTimer # 0 => sleepTimer = sleepGen /\ callbacks[sleepTimer] \in {"armed", "due"}
  /\ \A g \in SleepGens : callbacks[g] = "armed" => g = sleepTimer

\* What holds of the timer.
SleepInv == SleepTypeOK /\ StatusTellsTruth

\* "Nothing here may ever be the reason a speaker is awake" (sleeptimer.go:14-15).  Only this
\* speaker is read before it is sent to standby, and the members are not.
SleepNeverWakes == [][\A g \in SleepGens : Fire(g) => awake' \cap SleepMembers \subseteq awake]_sleepVars
=============================================================================
