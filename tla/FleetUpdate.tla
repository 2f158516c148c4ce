------------------------------ MODULE FleetUpdate ------------------------------
(***************************************************************************)
(* The desktop app brings one speaker to a new agent and its Spotify       *)
(* engine (desktop-app/ota.go, updateintent.go, boxbusy.go and the flows   *)
(* doBoxUpdate, updateAllBoxes and runBoxUpdate of frontend/src/main.js):  *)
(* an upload over HTTP whose reply the reboot may swallow, SSH when it is  *)
(* refused, a poll of the version that decides, the engine after it; a     *)
(* record on disk of what was started, the flags that keep a second flow   *)
(* out and ask before the window closes.  Windows of time end at any       *)
(* moment.  A press of a button is one flow; two presses show what happens *)
(* between a look at a flag and its setting.                               *)
(***************************************************************************)
EXTENDS Naturals, FiniteSets

CONSTANTS Presses,          \* the flows that may be under way at once
          MaxPresses,       \* bound on how often an update is asked for
          Rooms,            \* the speakers: "wide" holds agent and engine twice, "tight" not, "full" no engine
          UploadAttempts,   \* agentUploadAttempts
          EnginePasses,     \* passes of the engine's loop within its window
          MaxReboots,       \* bound on reboots nobody asked for
          MaxLaunches       \* bound on how often the app is opened again

ASSUME FleetAssumption == /\ UploadAttempts \in Nat \ {0} /\ EnginePasses \in Nat \ {0}
                          /\ MaxReboots \in Nat /\ MaxPresses \in Nat /\ MaxLaunches \in Nat
                          /\ "none" \notin Presses /\ Rooms \subseteq {"wide", "tight", "full"}

VARIABLES
  speaker,     \* run, disk: the agent that runs and the one on flash; engine; up; room; capable: the
               \* old agent has the endpoint of the engine; unsure: it may lose a write of the agent
  flows,       \* per press: where its flow is, the version before, its counters, what it has told
  inFlight,    \* state.otaInProgress
  otaRunning,  \* the back end's flag: the window asks before it closes
  writer,      \* writesInFlight: the flow that holds the speaker, or "none"
  intent,      \* update-intent.json has this speaker
  reached,     \* nothing begun, or the app has seen the speaker at its target since it was recorded
               \* last, or was looking just then
  looking,     \* the supervisor has read the speaker and is about to clear
  window,      \* the app is open
  launches, presses, reboots

fleetVars == <<speaker, flows, inFlight, otaRunning, writer, intent, reached, looking, window, launches, presses, reboots>>

Idle == [at |-> "idle", kind |-> "single", pre |-> "unknown", try |-> 1, n |-> 1,
         why |-> "none", dropped |-> FALSE, taken |-> FALSE, told |-> "nothing"]
Kinds == {"single", "batch", "engine"}

FleetInit ==
  /\ speaker \in [run : {"old", "new"}, disk : {"old", "new"}, engine : {"none", "old"}, up : {TRUE},
                  room : Rooms, capable : BOOLEAN, unsure : BOOLEAN]
  /\ speaker.run = speaker.disk
  /\ flows = [p \in Presses |-> Idle] /\ inFlight = FALSE /\ otaRunning = FALSE /\ writer = "none"
  /\ intent = FALSE /\ reached = TRUE /\ looking = FALSE
  /\ window = TRUE /\ launches = 0 /\ presses = 0 /\ reboots = 0

-----------------------------------------------------------------------------
(***************************************************************************)
(* The speaker.                                                            *)
(***************************************************************************)
Down(s) == [s EXCEPT !.up = FALSE]
AtTarget(s) == s.up /\ s.run = "new" /\ s.engine # "none"
Capable(s) == s.run = "new" \/ s.capable

\* It comes back on the agent on its flash; one that does not stick leaves the old one running.
ComesUp ==
  /\ ~speaker.up
  /\ \E r \in {speaker.disk} \cup (IF speaker.unsure THEN {speaker.run} ELSE {}) :
       speaker' = [speaker EXCEPT !.up = TRUE, !.run = r]
  /\ UNCHANGED <<flows, inFlight, otaRunning, writer, intent, reached, looking, window, launches, presses, reboots>>

\* A power cut, the one reboot of the bootstrap, a tight volume on which the engine has gone.
RebootsItself ==
  /\ speaker.up /\ reboots < MaxReboots /\ reboots' = reboots + 1
  /\ \E e \in {speaker.engine} \cup (IF speaker.room = "wide" THEN {} ELSE {"none"}) :
       speaker' = Down([speaker EXCEPT !.engine = e])
  /\ UNCHANGED <<flows, inFlight, otaRunning, writer, intent, reached, looking, window, launches, presses>>

-----------------------------------------------------------------------------
(***************************************************************************)
(* The flow of a press: doBoxUpdate, or updateAllBoxes and its runOne or   *)
(* runEngineOnly.                                                          *)
(***************************************************************************)
In_(p, at) == window /\ flows[p].at = at
GoOn(p, at) == flows' = [flows EXCEPT ![p].at = at]
Turn(p, at, n) == flows' = [flows EXCEPT ![p].at = at, ![p].n = n]
Tell(p, what) == flows' = [flows EXCEPT ![p] = [Idle EXCEPT !.at = "telling", !.told = what]]
AppUnchanged == UNCHANGED <<inFlight, otaRunning, writer, intent, reached, looking, window, launches, presses>>

\* The look at the flag; then the reads of the stick, the Wi-Fi and the space, and the questions.
Press(p) ==
  /\ In_(p, "idle") /\ ~inFlight /\ presses < MaxPresses /\ presses' = presses + 1
  /\ \E k \in {"single", "batch"} : flows' = [flows EXCEPT ![p].at = "asking", ![p].kind = k]
  /\ UNCHANGED <<speaker, inFlight, otaRunning, writer, intent, reached, looking, window, launches, reboots>>

\* A batch puts the engine back on a speaker that is not behind.
Confirm_AfterUpload(p) ==
  /\ In_(p, "asking") /\ GoOn(p, "reading") /\ inFlight' = TRUE /\ otaRunning' = TRUE /\ reached' = FALSE
  /\ UNCHANGED <<speaker, writer, intent, looking, window, launches, presses, reboots>>
Confirm(p) ==
  /\ In_(p, "asking")
  /\ \/ GoOn(p, "reading")
     \/ /\ flows[p].kind = "batch" /\ speaker.up /\ speaker.engine = "none" /\ speaker.run = "new"
        /\ flows' = [flows EXCEPT ![p].at = "ensure", ![p].kind = "engine"]
  /\ inFlight' = TRUE /\ otaRunning' = TRUE /\ intent' = TRUE /\ reached' = looking
  /\ UNCHANGED <<speaker, writer, looking, window, launches, presses, reboots>>
Cancel(p) ==
  /\ In_(p, "asking") /\ flows' = [flows EXCEPT ![p] = Idle]
  /\ UNCHANGED <<speaker, reboots>> /\ AppUnchanged

\* finally: the toast, or the row, and the flags.
Finish(p) ==
  /\ In_(p, "telling") /\ flows' = [flows EXCEPT ![p] = Idle] /\ inFlight' = FALSE /\ otaRunning' = FALSE
  /\ UNCHANGED <<speaker, writer, intent, reached, looking, window, launches, presses, reboots>>

-----------------------------------------------------------------------------
(***************************************************************************)
(* runBoxUpdate up to the upload, and UpdateBoxAgent.                      *)
(***************************************************************************)
\* What it runs now, unknown when it does not answer.
ReadBefore(p) ==
  /\ In_(p, "reading")
  /\ flows' = [flows EXCEPT ![p].at = "claim", ![p].n = 1, ![p].dropped = FALSE,
                            ![p].pre = IF speaker.up THEN speaker.run ELSE "unknown"]
  /\ UNCHANGED <<speaker, reboots>> /\ AppUnchanged

\* "One speaker, one write at a time": the second is refused with a plain answer.
Claim(p) ==
  /\ In_(p, "claim")
  /\ \/ writer = "none" /\ writer' = p /\ GoOn(p, "stage")
     \/ writer # "none" /\ UNCHANGED writer /\ Tell(p, "failed")
  /\ UNCHANGED <<speaker, inFlight, otaRunning, intent, reached, looking, window, launches, presses, reboots>>
Release == writer' = "none"

\* stageSidecarBeforeReboot: with the endpoint and the room; else, and when it fails, after the reboot.
Stage_ClaimsAgain(p) == In_(p, "stage") /\ writer = "none" /\ GoOn(p, "preflight") /\ UNCHANGED <<speaker, reboots>> /\ AppUnchanged
Stage(p) ==
  /\ In_(p, "stage") /\ GoOn(p, "preflight")
  /\ \/ UNCHANGED speaker
     \/ speaker.up /\ Capable(speaker) /\ speaker.room = "wide" /\ speaker' = [speaker EXCEPT !.engine = "new"]
  /\ UNCHANGED reboots /\ AppUnchanged

\* updateAgentPreflight and its settling: a speaker that is up answers in the end; a listener of
\* Bose's, or two minutes of silence, lead to SSH.
Preflight(p) ==
  /\ In_(p, "preflight")
  /\ \/ speaker.up /\ GoOn(p, "post")
     \/ /\ ~speaker.up
        /\ \E w \in {"silent", "refused"} : flows' = [flows EXCEPT ![p].at = "ssh", ![p].why = w]
  /\ UNCHANGED <<speaker, reboots>> /\ AppUnchanged

\* A tight volume gives up the engine for the agent's temp file.
MakesRoom(s) == IF s.room = "wide" THEN s ELSE [s EXCEPT !.engine = "none"]
Fits(s) == s.room # "full"
Lands(s) == {[MakesRoom(s) EXCEPT !.disk = "new", !.up = FALSE]}

\* uploadAgentWithRetries: taken, its reply heard or lost to the reboot; sent whole and lost in
\* the write; a 5xx, offered again; a refusal; a stream that broke.
Post_LostReplyIsSSH(p) ==
  /\ In_(p, "post") /\ speaker.up /\ speaker' \in Lands(speaker) /\ UNCHANGED writer
  /\ flows' = [flows EXCEPT ![p].at = "ssh", ![p].why = "refused", ![p].taken = TRUE]
  /\ UNCHANGED <<inFlight, otaRunning, intent, reached, looking, window, launches, presses, reboots>>
Post(p) ==
  /\ In_(p, "post")
  /\ \/ /\ speaker.up /\ speaker' \in Lands(speaker) /\ Release
        /\ flows' = [flows EXCEPT ![p].at = "poll", ![p].taken = TRUE]
     \/ speaker.up /\ speaker.unsure /\ speaker' = Down(MakesRoom(speaker)) /\ Release /\ GoOn(p, "poll")
     \/ /\ flows[p].n < UploadAttempts /\ Turn(p, "post", flows[p].n + 1) /\ UNCHANGED writer
        /\ speaker.up /\ speaker' \in {speaker, MakesRoom(speaker)}
     \/ /\ flows' = [flows EXCEPT ![p].at = "ssh", ![p].why = "refused"] /\ UNCHANGED <<speaker, writer>>
     \/ /\ flows' = [flows EXCEPT ![p].at = "ssh", ![p].why = "silent"] /\ UNCHANGED writer
        /\ speaker' \in {speaker, IF speaker.up THEN MakesRoom(speaker) ELSE speaker}
  /\ UNCHANGED <<inFlight, otaRunning, intent, reached, looking, window, launches, presses, reboots>>

\* updateAgentViaSSH: the unlock reboots; the rename is one step, what fails before it leaves the
\* old agent, what fails after it is told as a failure all the same; then the engine and the reboot.
ViaSSH(p) ==
  /\ In_(p, "ssh") /\ Release
  /\ \/ /\ \E s \in Lands(speaker), e \in {"none", "old", "new"} :
             /\ e = "new" => Fits(s)
             /\ e # "new" => e = s.engine \/ (e = "none" /\ s.room # "wide")
             /\ speaker' = [s EXCEPT !.engine = e]
        /\ GoOn(p, "poll")
     \/ /\ \E m \in {speaker, MakesRoom(speaker)} :
             speaker' \in {m, Down(m), [MakesRoom(speaker) EXCEPT !.disk = "new"]}
        /\ IF flows[p].why = "silent" THEN GoOn(p, "poll") ELSE Tell(p, "failed")
  /\ UNCHANGED <<inFlight, otaRunning, intent, reached, looking, window, launches, presses, reboots>>

-----------------------------------------------------------------------------
(***************************************************************************)
(* runBoxUpdate: the poll of the version, its verdict, the engine.         *)
(***************************************************************************)
Updated(s) == s.up /\ s.run = "new"

\* The first match opens the stability window; after a second drop a match is enough.
PollMatches(p) ==
  /\ In_(p, "poll") /\ Updated(speaker)
  /\ IF flows[p].dropped THEN Turn(p, "spotify", 1) ELSE GoOn(p, "settling")
  /\ UNCHANGED <<speaker, reboots>> /\ AppUnchanged
Settled(p) ==
  /\ In_(p, "settling")
  /\ IF Updated(speaker) THEN Turn(p, "spotify", 1)
     ELSE flows' = [flows EXCEPT ![p].at = "poll", ![p].dropped = ~speaker.up]
  /\ UNCHANGED <<speaker, reboots>> /\ AppUnchanged

\* ClassifyOTAResult: only a write that never reached the flash is tried again, and once.
MayRetry(p) == flows[p].try < 2 /\ speaker.up /\ speaker.disk = "old"
PollEnds(p) ==
  /\ flows[p].at \in {"poll", "settling"} /\ window
  /\ IF Updated(speaker)
     THEN Turn(p, "spotify", 1) \/ Tell(p, "timeout")
     ELSE IF MayRetry(p) THEN flows' = [flows EXCEPT ![p].at = "reading", ![p].try = 2]
     ELSE Tell(p, "timeout")
  /\ UNCHANGED <<speaker, reboots>> /\ AppUnchanged

\* speakerReachedTarget: no version before, any version now.
ReachedTarget(s, pre) == s.up /\ s.run # pre /\ s.engine # "none"

ClearIntent == intent' = FALSE /\ reached' = (reached \/ AtTarget(speaker))
Done(p) == IF flows[p].kind = "batch" THEN GoOn(p, "honest") ELSE Tell(p, "done")

\* A pass of the loop: there already, or the settled speaker is sent the engine; or time is up.
SpotifyPass(p) ==
  /\ In_(p, "spotify")
  /\ \/ ReachedTarget(speaker, flows[p].pre) /\ Done(p) /\ ClearIntent
     \/ ~ReachedTarget(speaker, flows[p].pre) /\ flows[p].n <= EnginePasses /\ GoOn(p, "ensure") /\ UNCHANGED <<intent, reached>>
     \/ Tell(p, "partial") /\ UNCHANGED <<intent, reached>>
  /\ UNCHANGED <<speaker, inFlight, otaRunning, writer, looking, window, launches, presses, reboots>>

\* pushSidecarIfNeeded: there; sent, the old one given up first; no space; not reachable or cut.
\* An agent that cannot swap it in reboots for it.
Delivered(s) == LET e == [s EXCEPT !.engine = "new"] IN IF s.run = "new" THEN e ELSE Down(e)
Ensure(p) ==
  /\ In_(p, "ensure")
  /\ \/ speaker.up /\ speaker.engine = "new" /\ GoOn(p, "check") /\ UNCHANGED speaker
     \/ speaker.up /\ speaker.engine # "new" /\ Fits(speaker) /\ Capable(speaker)
        /\ speaker' = Delivered(speaker) /\ GoOn(p, "check")
     \/ speaker.up /\ ~Fits(speaker) /\ UNCHANGED speaker
        /\ Tell(p, IF flows[p].kind = "engine" THEN "failed" ELSE "partial")
     \/ /\ speaker' \in {speaker, IF speaker.up THEN MakesRoom(speaker) ELSE speaker}
        /\ IF flows[p].kind = "engine" THEN Tell(p, "failed") ELSE Turn(p, "spotify", flows[p].n + 1)
  /\ UNCHANGED reboots /\ AppUnchanged

\* "Do not take the delivery's word for it."  A repair of the engine alone trusts it when it hears nothing.
CheckEngine(p) ==
  /\ In_(p, "check")
  /\ IF flows[p].kind = "engine"
     THEN \/ speaker.up /\ speaker.engine = "none" /\ Tell(p, "partial") /\ UNCHANGED <<intent, reached>>
          \/ ~(speaker.up /\ speaker.engine = "none") /\ Tell(p, "done") /\ intent' = FALSE /\ reached' = (speaker.run = "new")
     ELSE \/ speaker.up /\ speaker.engine # "none" /\ Done(p) /\ ClearIntent
          \/ Turn(p, "spotify", flows[p].n + 1) /\ UNCHANGED <<intent, reached>>
  /\ UNCHANGED <<speaker, inFlight, otaRunning, writer, looking, window, launches, presses, reboots>>

\* The honesty check of a batch: the engine may have gone with one more reboot.
Honest(p) ==
  /\ In_(p, "honest") /\ Tell(p, IF speaker.up /\ speaker.engine = "none" THEN "partial" ELSE "done")
  /\ UNCHANGED <<speaker, reboots>> /\ AppUnchanged

-----------------------------------------------------------------------------
(***************************************************************************)
(* The rest of the app.                                                    *)
(***************************************************************************)
\* installSpotifyEngineVisible on a speaker that is not behind: no flag, no claim, no record.
InstallEngine ==
  /\ window /\ speaker.up /\ speaker.run = "new" /\ speaker.engine = "none" /\ Fits(speaker)
  /\ speaker' = Delivered(speaker)
  /\ UNCHANGED <<flows, reboots>> /\ AppUnchanged

\* superviseUpdateIntent and PendingUpdateIntent: the record, the speaker, the clear.
Supervise ==
  /\ window /\ ~inFlight /\ intent /\ AtTarget(speaker) /\ ~looking
  /\ looking' = TRUE /\ reached' = TRUE
  /\ UNCHANGED <<speaker, flows, inFlight, otaRunning, writer, intent, window, launches, presses, reboots>>
SupervisorClears ==
  /\ window /\ looking /\ looking' = FALSE /\ intent' = FALSE
  /\ UNCHANGED <<speaker, flows, inFlight, otaRunning, writer, reached, window, launches, presses, reboots>>
\* The window closes, after a question when an update runs; every flow ends with the process.
CloseWindow ==
  /\ window /\ window' = FALSE /\ inFlight' = FALSE /\ otaRunning' = FALSE /\ Release /\ looking' = FALSE
  /\ flows' = [p \in Presses |-> Idle]
  /\ UNCHANGED <<speaker, intent, reached, launches, presses, reboots>>
OpenWindow ==
  /\ ~window /\ launches < MaxLaunches /\ window' = TRUE /\ launches' = launches + 1
  /\ UNCHANGED <<speaker, flows, inFlight, otaRunning, writer, intent, reached, looking, presses, reboots>>

Flow(p) ==
  \/ Confirm(p) \/ Cancel(p) \/ Finish(p) \/ ReadBefore(p) \/ Claim(p) \/ Stage(p) \/ Preflight(p) \/ Post(p)
  \/ ViaSSH(p) \/ PollMatches(p) \/ Settled(p) \/ PollEnds(p) \/ SpotifyPass(p) \/ Ensure(p)
  \/ CheckEngine(p) \/ Honest(p)

FleetNext ==
  \/ \E p \in Presses : Press(p) \/ Flow(p)
  \/ ComesUp \/ RebootsItself \/ InstallEngine \/ Supervise \/ SupervisorClears \/ CloseWindow \/ OpenWindow

FleetSpec == FleetInit /\ [][FleetNext]_fleetVars /\ \A p \in Presses : WF_fleetVars(Flow(p))

-----------------------------------------------------------------------------
(***************************************************************************)
(* Properties.                                                             *)
(***************************************************************************)
Running(p) == flows[p].at \notin {"idle", "asking"}

FleetTypeOK ==
  /\ speaker \in [run : {"old", "new"}, disk : {"old", "new"}, engine : {"none", "old", "new"}, up : BOOLEAN,
                  room : {"wide", "tight", "full"}, capable : BOOLEAN, unsure : BOOLEAN]
  /\ \A p \in Presses : /\ flows[p].kind \in Kinds /\ flows[p].pre \in {"unknown", "old", "new"}
                        /\ flows[p].told \in {"nothing", "done", "partial", "timeout", "failed"}
  /\ writer \in Presses \cup {"none"}

\* "so that an interrupted update is finished rather than forgotten" (updateintent.go:15): what has
\* been begun is on disk until the app has seen the speaker at its target, however flows fail, the
\* window closes and the supervisor looks.
OwedOnRecord == intent \/ reached

\* "One speaker, one write at a time" (boxbusy.go:8), also for two presses that both found the app
\* free; and a claim never outlives its write.
Writing(p) == flows[p].at \in {"stage", "preflight", "post", "ssh"}
OneWriter == \A p \in Presses : Writing(p) <=> writer = p

FleetInv == FleetTypeOK /\ OwedOnRecord /\ OneWriter

\* What the user is told is so: "done" is a speaker on the new agent, with its engine if it
\* answers; and an upload that the speaker has taken is never told as a failure (ota.go:310).
VerdictTrue ==
  [][\A p \in Presses : flows'[p].told # "nothing" /\ flows[p].told = "nothing" =>
       /\ flows'[p].told = "done" => speaker.run = "new" /\ (speaker.up => speaker.engine # "none")
       /\ flows'[p].told = "partial" => speaker.run = "new"
       /\ flows'[p].told = "failed" => ~flows[p].taken]_flows

\* Whatever the speaker does, an update comes to its end: every window closes, the retry is one,
\* and no claim is waited for.
UpdateEnds == \A p \in Presses : Running(p) ~> flows[p].at = "idle"

\* "while an OTA is in flight on ANY box, refuse to start a second one" (main.js:3525).
HardLock == Cardinality({p \in Presses : Running(p)}) <= 1

\* "so the window can refuse to close in the middle of one" (updateintent.go:238).
CloseAsks == (\E p \in Presses : Running(p)) => otaRunning

\* "so the record of what this speaker should be running stays" (main.js:4107), of a batch that
\* finds the engine gone at the end.
PartialOnRecord == \A p \in Presses : flows[p].at = "telling" /\ flows[p].told = "partial" => intent
=============================================================================
