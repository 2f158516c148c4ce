------------------------------ MODULE GroupZones ------------------------------
(***************************************************************************)
(* A multiroom group as its master's agent drives it                       *)
(* (internal/webui/zones_stereo.go, zonemirror.go, dissolvestragglers.go   *)
(* and internal/zones): forming it over the firmware ("native") or by      *)
(* pointing each member at the master's stream ("mirror"), the round that  *)
(* repairs a mirror, and dissolving it.  Every call to another speaker is  *)
(* a step of its own; meanwhile people use each speaker as they like.      *)
(*                                                                         *)
(* A speaker's now-playing is [src, n, on]: the master plays stream n from *)
(* its own loopback address ("loop"), a mirroring member from the master's *)
(* address on the LAN ("lan"), a member of a firmware zone is given the    *)
(* master's item ("loop").  "own" is anything else a person chose.         *)
(***************************************************************************)
EXTENDS Naturals, FiniteSets

CONSTANTS Followers,   \* the other speakers
          MaxPlays,    \* bound on the streams played at the master
          MaxOrders,   \* bound on the groups formed and dissolved
          MaxActs      \* bound on what people do at the speakers

ASSUME GroupZonesAssumption == {MaxPlays, MaxOrders, MaxActs} \subseteq Nat /\ IsFiniteSet(Followers)

VARIABLES
  master,    \* what the master plays
  member,    \* what each follower plays
  lastPlay,  \* lastPlay: the stream this agent last gave the master
  halted,    \* lastUserStop is recent
  zone,      \* the persisted zone
  firm,      \* the members the master's firmware registered
  joined,    \* the followers whose own firmware names the master
  form, undo, round, again,  \* handleZoneForm, handleZoneDissolve, reconcileZoneOnce, resumeAfterZoneForm
  kick,      \* mirrorKickPending and mirrorKick
  enlisted,  \* history: the followers that were in the firmware zone since the form began
  touched,   \* history: the members people used since the round began
  orders, acts

heard == <<master, member>>
group == <<zone, firm, joined>>
groupVars == <<master, member, lastPlay, halted, zone, firm, joined, form, undo, round, again, kick,
               enlisted, touched, orders, acts>>

Off == [src |-> "idle", n |-> 0, on |-> FALSE]
Asleep == [Off EXCEPT !.src = "standby"]
Own == [src |-> "own", n |-> 0, on |-> TRUE]
Stream(src, n) == [src |-> src, n |-> n, on |-> TRUE]
Alone == [mode |-> "none", slaves |-> {}]
NoForm == [at |-> "off", mode |-> "none", want |-> {}, left |-> {}, n |-> 0, verified |-> {}]
NoUndo == [at |-> "off", slaves |-> {}, left |-> {}, from |-> Off, failed |-> {}]
NoRound == [at |-> "off", left |-> {}, who |-> "nobody", n |-> 0]
NoResume == [at |-> "off", n |-> 0]

GroupInit ==
  /\ master = Asleep /\ member = [f \in Followers |-> Asleep] /\ lastPlay = 0 /\ halted = FALSE
  /\ zone = Alone /\ firm = {} /\ joined = {}
  /\ form = NoForm /\ undo = NoUndo /\ round = NoRound /\ again = NoResume
  /\ kick = [pending |-> FALSE, queued |-> FALSE]
  /\ enlisted = {} /\ touched = {} /\ orders = 0 /\ acts = 0

\* A member of the firmware zone plays what the master plays.
Distributed(p) == [f \in Followers |-> IF f \in joined THEN (IF p.src = "loop" THEN p ELSE Off) ELSE member[f]]
MasterPlays(p) == master' = p /\ member' = Distributed(p)

-----------------------------------------------------------------------------
(***************************************************************************)
(* People at the speakers.                                                 *)
(***************************************************************************)
\* setLastPlay, with kickMirrorAfterPlay; one kick waits at a time.
UserPlays ==
  /\ acts < MaxActs /\ acts' = acts + 1
  /\ lastPlay < MaxPlays /\ lastPlay' = lastPlay + 1 /\ MasterPlays(Stream("loop", lastPlay + 1))
  /\ kick' = IF zone.mode = "mirror" THEN [kick EXCEPT !.pending = TRUE] ELSE kick
  /\ UNCHANGED <<halted, group, form, undo, round, again, enlisted, touched, orders>>

UserStops ==
  /\ acts < MaxActs /\ acts' = acts + 1
  /\ master.src = "loop" /\ master.on /\ MasterPlays([master EXCEPT !.on = FALSE]) /\ halted' = TRUE
  /\ UNCHANGED <<lastPlay, group, form, undo, round, again, kick, enlisted, touched, orders>>

StopAges == halted /\ halted' = FALSE /\ UNCHANGED <<heard, lastPlay, group, form, undo, round, again, kick, enlisted, touched, orders, acts>>

\* Another source, or off.
MasterElsewhere ==
  /\ acts < MaxActs /\ acts' = acts + 1 /\ \E p \in {Own, Asleep} : master # p /\ MasterPlays(p)
  /\ UNCHANGED <<lastPlay, halted, group, form, undo, round, again, kick, enlisted, touched, orders>>

\* A member plays something of its own, is switched off or on, or is stopped; but for the stop
\* it leaves the zone.
MemberActs(f) ==
  /\ acts < MaxActs /\ acts' = acts + 1 /\ touched' = touched \cup {f}
  /\ \E p \in {Own, Asleep, Off, [member[f] EXCEPT !.on = FALSE]} :
       /\ p # member[f] /\ member' = [member EXCEPT ![f] = p]
       /\ IF p.src = member[f].src THEN UNCHANGED <<firm, joined>> ELSE firm' = firm \ {f} /\ joined' = joined \ {f}
  /\ UNCHANGED <<master, lastPlay, halted, zone, form, undo, round, again, kick, enlisted, orders>>

\* A follower the master announced itself to enrols late.
LateJoin ==
  /\ \E f \in firm \ joined : joined' = joined \cup {f} /\ enlisted' = enlisted \cup {f}
  /\ UNCHANGED <<heard, lastPlay, halted, zone, firm, form, undo, round, again, kick, touched, orders, acts>>

-----------------------------------------------------------------------------
(***************************************************************************)
(* handleZoneForm: the group is persisted first.                           *)
(***************************************************************************)
Busy(p) == p.on
FormStart ==
  /\ form.at = "off" /\ undo.at = "off" /\ orders < MaxOrders /\ orders' = orders + 1
  /\ \E mode \in {"native", "mirror"}, want \in (SUBSET Followers) \ {{}} :
       /\ zone' = [mode |-> mode, slaves |-> want]
       /\ form' = [at |-> mode, mode |-> mode, want |-> want, left |-> want, verified |-> {},
                   n |-> IF mode = "mirror" \/ Busy(master) THEN lastPlay ELSE 0]
  /\ enlisted' = joined
  /\ UNCHANGED <<heard, lastPlay, halted, firm, joined, undo, round, again, kick, touched, acts>>

\* mirrorToSlaves on behalf of a person: not while the master is silent or was just stopped.
MayMirror_Unplayed == master.src # "standby" /\ Busy(master) /\ ~halted
MayMirror == form.n # 0 /\ master.src # "standby" /\ Busy(master) /\ ~halted
FormLooks ==
  /\ form.at = "mirror" /\ form' = IF MayMirror THEN [form EXCEPT !.at = "push"] ELSE NoForm
  /\ UNCHANGED <<heard, lastPlay, halted, group, undo, round, again, kick, enlisted, touched, orders, acts>>

\* The next member is pointed at the stream, or is out of reach.
FormPushes ==
  /\ form.at = "push" /\ \E f \in form.left :
       /\ form' = IF form.left = {f} THEN NoForm ELSE [form EXCEPT !.left = @ \ {f}]
       /\ \E reached \in BOOLEAN : member' = IF reached THEN [member EXCEPT ![f] = Stream("lan", form.n)] ELSE member
  /\ UNCHANGED <<master, lastPlay, halted, group, undo, round, again, kick, enlisted, touched, orders, acts>>

\* ensureBoxReady, then RemoveZoneSlave for those no longer wanted; it may fail.
Dropped_None == {}
Dropped == firm \ form.want
FormDrops ==
  /\ form.at = "native" /\ master' = (IF master.src = "standby" THEN Off ELSE master)
  /\ \/ /\ firm' = firm \ Dropped /\ joined' = joined \ Dropped
        /\ member' = [f \in Followers |-> IF f \in Dropped \cap joined THEN Off ELSE member[f]]
        /\ form' = [form EXCEPT !.at = "set"]
     \/ form' = [form EXCEPT !.at = "set_stale"] /\ UNCHANGED <<firm, joined, member>>
  /\ UNCHANGED <<lastPlay, halted, zone, undo, round, again, kick, enlisted, touched, orders, acts>>

\* /setZone adds members, tears down what the master played, and may be refused; whom the
\* firmware registers and who enrols are two things.
FormSets ==
  /\ form.at \in {"set", "set_stale"}
  /\ \/ form' = NoForm /\ UNCHANGED <<heard, firm, joined, enlisted>>
     \/ \E listed, enrol \in SUBSET form.want :
          /\ firm' = firm \cup listed /\ joined' = joined \cup enrol /\ enlisted' = enlisted \cup enrol
          /\ master' = (IF master.src = "loop" THEN Off ELSE master)
          /\ member' = [f \in Followers |-> IF f \in joined \cup enrol THEN Off ELSE member[f]]
          /\ form' = [form EXCEPT !.at = IF form.at = "set" THEN "verify" ELSE "verify_stale"]
  /\ UNCHANGED <<lastPlay, halted, zone, undo, round, again, kick, touched, orders, acts>>

\* verifyFollowersJoined asks each follower itself, at the same time, until its budget ends.
Confirms_Master(f) == f \in firm
Confirms(f) == f \in joined
FormVerifies ==
  /\ form.at \in {"verify", "verify_stale"} /\ \E f \in form.left :
       form' = [form EXCEPT !.left = @ \ {f}, !.verified = IF Confirms(f) THEN @ \cup {f} ELSE @]
  /\ UNCHANGED <<heard, lastPlay, halted, group, undo, round, again, kick, enlisted, touched, orders, acts>>

FormAnswers ==
  /\ form.at \in {"verify", "verify_stale"} /\ form.left = {} /\ form' = NoForm
  /\ again' = IF form.n # 0 /\ firm # {} /\ again.at = "off" THEN [at |-> "settle", n |-> form.n] ELSE again
  /\ UNCHANGED <<heard, lastPlay, halted, group, undo, round, kick, enlisted, touched, orders, acts>>

-----------------------------------------------------------------------------
(***************************************************************************)
(* resumeAfterZoneForm: the stream the form tore down, unless the user     *)
(* stopped or played something newer meanwhile.                            *)
(***************************************************************************)
ResumeSettles ==
  /\ again.at = "settle" /\ again' = IF halted THEN NoResume ELSE [again EXCEPT !.at = "push"]
  /\ UNCHANGED <<heard, lastPlay, halted, group, form, undo, round, kick, enlisted, touched, orders, acts>>

Overtaken_Never == FALSE
Overtaken == again.n # lastPlay
ResumePushes ==
  /\ again.at = "push" /\ again' = NoResume
  /\ \/ ~Overtaken /\ MasterPlays(Stream("loop", again.n))
     \/ UNCHANGED heard
  /\ UNCHANGED <<lastPlay, halted, group, form, undo, round, kick, enlisted, touched, orders, acts>>

-----------------------------------------------------------------------------
(***************************************************************************)
(* PeriodicZoneReconcile: every five minutes, and soon after a play.       *)
(***************************************************************************)
KickFires ==
  /\ kick.pending /\ kick' = [pending |-> FALSE, queued |-> TRUE]
  /\ UNCHANGED <<heard, lastPlay, halted, group, form, undo, round, again, enlisted, touched, orders, acts>>

\* masterMirrorSkipReason: only what the master audibly plays is mirrored.
MasterMirrors == lastPlay # 0 /\ master = Stream("loop", lastPlay)
RoundStart ==
  /\ round.at = "off" /\ kick' = [kick EXCEPT !.queued = FALSE] /\ touched' = {}
  /\ zone.mode = "mirror" /\ MasterMirrors /\ round' = [at |-> "read", left |-> zone.slaves, who |-> "nobody", n |-> lastPlay]
  /\ UNCHANGED <<heard, lastPlay, halted, group, form, undo, again, enlisted, orders, acts>>

\* slaveMirrorAction: only a member that fell off the mirror, lags behind or idles.
Repairs_AnySource(p) == p.src # "standby" /\ p # Stream("lan", round.n)
Repairs_OffOnly(p) == p = [Stream("lan", round.n) EXCEPT !.on = FALSE] \/ p.src = "idle"
Repairs(p) == \/ p.src = "lan" /\ p # Stream("lan", round.n)
              \/ p.src = "idle"
RoundNext(f) == IF round.left = {f} THEN NoRound ELSE [round EXCEPT !.at = "read", !.left = @ \ {f}, !.who = "nobody"]

RoundReads(f) ==
  /\ round.at = "read" /\ f \in round.left
  /\ round' = IF Repairs(member[f]) THEN [round EXCEPT !.at = "push", !.who = f] ELSE RoundNext(f)
  /\ UNCHANGED <<heard, lastPlay, halted, group, form, undo, again, kick, enlisted, touched, orders, acts>>

RoundPushes(f) ==
  /\ round.at = "push" /\ round.who = f /\ round' = RoundNext(f)
  /\ member' = [member EXCEPT ![f] = Stream("lan", round.n)]
  /\ UNCHANGED <<master, lastPlay, halted, group, form, undo, again, kick, enlisted, touched, orders, acts>>

\* The member does not answer, or does not take the stream.
RoundMisses(f) ==
  /\ f \in round.left /\ round' = RoundNext(f) /\ (round.at = "push" => round.who = f)
  /\ UNCHANGED <<heard, lastPlay, halted, group, form, undo, again, kick, enlisted, touched, orders, acts>>

-----------------------------------------------------------------------------
(***************************************************************************)
(* handleZoneDissolve.                                                     *)
(***************************************************************************)
\* From the persisted zone, or from the live one; with neither there is nothing to do.
UndoStart ==
  /\ undo.at = "off" /\ form.at = "off" /\ orders < MaxOrders /\ orders' = orders + 1
  /\ LET slaves == IF zone.mode # "none" THEN zone.slaves ELSE firm
     IN undo' = IF slaves = {} THEN NoUndo
                ELSE [at |-> "remove", slaves |-> slaves, left |-> slaves, from |-> master, failed |-> {}]
  /\ UNCHANGED <<heard, lastPlay, halted, group, form, round, again, kick, enlisted, touched, acts>>

\* Up to four rounds of RemoveZoneSlave, for as long as the firmware lists members.
UndoRemoves ==
  /\ undo.at = "remove"
  /\ \E gone \in SUBSET firm :
       /\ firm' = firm \ gone /\ joined' = joined \ gone
       /\ member' = [f \in Followers |-> IF f \in gone \cap joined THEN Off ELSE member[f]]
  /\ undo' = [undo EXCEPT !.at = "sweep"]
  /\ UNCHANGED <<master, lastPlay, halted, zone, form, round, again, kick, enlisted, touched, orders, acts>>

\* stopStragglers: only a member that still plays what the master played then.
Straggles_Any(f) == member[f].on
Straggles(f) == member[f].on /\ undo.from.on /\ <<member[f].src, member[f].n>> = <<undo.from.src, undo.from.n>>
UndoSweeps ==
  /\ undo.at = "sweep" /\ \E f \in undo.left :
       /\ \E taken \in BOOLEAN :
            /\ member' = IF Straggles(f) /\ taken THEN [member EXCEPT ![f].on = FALSE] ELSE member
            /\ undo' = [undo EXCEPT !.left = @ \ {f}, !.failed = IF taken THEN @ ELSE @ \cup {f}]
  /\ UNCHANGED <<master, lastPlay, halted, group, form, round, again, kick, enlisted, touched, orders, acts>>

UndoClears ==
  /\ undo.at = "sweep" /\ undo.left = {} /\ undo' = NoUndo /\ zone' = Alone
  /\ UNCHANGED <<heard, lastPlay, halted, firm, joined, form, round, again, kick, enlisted, touched, orders, acts>>

People == UserPlays \/ UserStops \/ StopAges \/ MasterElsewhere \/ (\E f \in Followers : MemberActs(f)) \/ LateJoin
Form == FormStart \/ FormLooks \/ FormPushes \/ FormDrops \/ FormSets \/ FormVerifies \/ FormAnswers
Resuming == ResumeSettles \/ ResumePushes
Round == KickFires \/ RoundStart \/ \E f \in Followers : RoundReads(f) \/ RoundPushes(f) \/ RoundMisses(f)
Undo == UndoStart \/ UndoRemoves \/ UndoSweeps \/ UndoClears
GroupNext == People \/ Form \/ Resuming \/ Round \/ Undo

\* The ticker does not stop, and a member that answers again and again is at last reached.
GroupFairness ==
  /\ WF_groupVars(RoundStart) /\ WF_groupVars(FormLooks \/ FormPushes \/ FormDrops \/ FormSets \/ FormVerifies \/ FormAnswers)
  /\ WF_groupVars(UndoRemoves \/ UndoSweeps \/ UndoClears) /\ WF_groupVars(Resuming)
  /\ \A f \in Followers : SF_groupVars(RoundReads(f)) /\ SF_groupVars(RoundPushes(f))

GroupSpec == GroupInit /\ [][GroupNext]_groupVars /\ GroupFairness

-----------------------------------------------------------------------------
Heard == [src : {"standby", "idle", "own", "loop", "lan"}, n : 0..MaxPlays, on : BOOLEAN]
GroupTypeOK ==
  /\ master \in Heard /\ member \in [Followers -> Heard] /\ lastPlay \in 0..MaxPlays /\ halted \in BOOLEAN
  /\ zone.slaves \subseteq Followers /\ (zone.mode = "none" <=> zone.slaves = {}) /\ firm \cup joined \subseteq Followers
  /\ master.src # "lan" /\ \A f \in Followers : (member[f].src \in {"lan", "loop"} <=> member[f].n > 0)

\* The round never takes a speaker off a source of its own or out of standby, unless a person
\* turned to it while the round was at work (zonemirror.go:1-16, #342).
RoundLeavesOthers == [][\A f \in Followers : RoundPushes(f) /\ f \notin touched => member[f].src \notin {"own", "standby"}]_groupVars

\* What the form reports as verified did join since it began; the master's word is not
\* enough (zones_stereo.go:461-469).
VerifiedJoined == form.verified \subseteq enlisted

\* A form that could remove members leaves none registered that it was not asked for, so a
\* dropped speaker does not come back (zones_stereo.go:273-281).
DroppedStayOut == form.at = "verify" => firm \subseteq form.want

\* What holds of the group and its members.
GroupInv == GroupTypeOK /\ VerifiedJoined /\ DroppedStayOut

\* The stream brought back after a form is the last one anybody asked for.
ResumeIsNewest == [][ResumePushes /\ master' # master => master'.n = lastPlay]_groupVars

\* Once people rest, a mirror group plays as one again: every member that is neither asleep nor
\* on another source has the master's stream (zones_stereo.go:1046-1062).
AtRest == form.at = "off" /\ undo.at = "off"
InTune == \A f \in zone.slaves : member[f].src \in {"lan", "idle"} => member[f] = Stream("lan", lastPlay)
MirrorComesBack == <>[](zone.mode = "mirror" /\ MasterMirrors /\ AtRest) => <>[]InTune

\* "silence any that are demonstrably still on the group's stream" (zones_stereo.go:1308-1310)
DissolveSilences ==
  [][UndoClears => \A f \in undo.slaves \ undo.failed : member[f] # Stream("lan", undo.from.n)]_groupVars

\* "the user's direct action on a box always outranks the group" (zonemirror.go:62-63)
StopOutranksGroup == [][\A f \in Followers : RoundPushes(f) => member[f].on \/ member[f].src = "idle"]_groupVars
=============================================================================
