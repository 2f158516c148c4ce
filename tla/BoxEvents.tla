------------------------------- MODULE BoxEvents -------------------------------
(***************************************************************************)
(* The WebSocket client of the speaker (internal/boxws): what it makes of  *)
(* the frames the speaker sends.  The speaker does not say who did what; a *)
(* stop of the user, the tear-down of a source by the firmware and the     *)
(* echo of a command of this agent look alike, and the client tells them   *)
(* apart by what it saw shortly before.                                    *)
(*                                                                         *)
(* Frames arrive in bursts: what a key, the firmware or a command makes    *)
(* the speaker send.  A burst is read before the windows it opens end; the *)
(* windows, stamps in "fresh", end at any time between bursts.             *)
(***************************************************************************)
EXTENDS Naturals, Sequences

CONSTANTS BurstKinds,   \* which bursts the speaker sends
          MaxBursts     \* bound on their number

ASSUME BoxEventsAssumption == MaxBursts \in Nat

VARIABLES
  source,     \* the speaker's own active source
  wire,       \* the frames under way
  lastSource, \* the client's idea of it
  episode,    \* upnpEpisode: INVALID_SOURCE was entered from this agent's own source
  fresh,      \* the stamps whose window is open
  thumb,      \* thumbPending, and who pressed the key it waits for
  calls,      \* the handlers the last step called, with who was behind the frame
  insync,     \* history: no report of a source has been lost since the last one read
  bursts

boxVars == <<source, wire, lastSource, episode, fresh, thumb, calls, insync, bursts>>

Calls(names, by) == names \X {by}
NoThumb == [pending |-> FALSE, by |-> "nobody"]

BoxInit ==
  /\ source \in {"UPNP", "RADIO", "AUX"} /\ lastSource = source /\ wire = <<>> /\ episode = FALSE
  /\ fresh = {} /\ thumb = NoThumb /\ calls = {} /\ insync = TRUE /\ bursts = 0

-----------------------------------------------------------------------------
(***************************************************************************)
(* What the speaker sends.  "ends" marks the frame with which it goes to   *)
(* standby while it plays for this agent; the source of a frame that       *)
(* reports none is "none".                                                 *)
(***************************************************************************)
Frame(kind, src, by) == [kind |-> kind, src |-> src, by |-> by, stop |-> FALSE, ends |-> FALSE]
Now(src, by) == Frame("now", src, by)
Stopped(src, by) == [Now(src, by) EXCEPT !.stop = TRUE]
Key(by) == Frame("activity", "none", by)
Sleep(by) == [Now("STANDBY", by) EXCEPT !.ends = source \in {"UPNP", "INVALID_SOURCE"}]

Bursts ==
  \* a preset key of this agent's own source, which the firmware refuses to activate itself
  (IF source # "STANDBY" THEN {<<"preset", "UPNP", <<Key("user"), Frame("press", "UPNP", "user"), Now("INVALID_SOURCE", "box"),
                                  Stopped("UPNP", "box"), Now("UPNP", "box")>> >>} ELSE {})
  \* a key with a native station
  \cup {<<"preset", "RADIO", <<Key("user"), Frame("press", "RADIO", "user"), Now("UPNP", "box"), Stopped("UPNP", "box"), Now("RADIO", "box")>> >>}
  \* the firmware gives up the source, at once or by way of the other one
  \cup (IF source = "UPNP" THEN {<<"drop", "INVALID_SOURCE", <<Now("INVALID_SOURCE", "box"), Stopped("UPNP", "box")>> >>} ELSE {})
  \cup (IF source = "RADIO" THEN {<<"drop", "INVALID_SOURCE", <<Now("UPNP", "firmware"), Now("INVALID_SOURCE", "firmware"), Stopped("UPNP", "box")>> >>} ELSE {})
  \* it powers its source off by itself, and bounces
  \cup (IF source = "UPNP" THEN {<<"off", "STANDBY", <<Sleep("box"), Stopped("UPNP", "box"), Sleep("box")>> >>} ELSE {})
  \* the user powers it off, on, stops it, turns the volume or skips, or presses a thumb
  \cup (IF source # "STANDBY" THEN {<<"off", "STANDBY", <<Key("user"), Sleep("user")>> >>,
                                    <<"stop", source, <<Key("user"), Stopped(source, "user")>> >>} ELSE {})
  \cup (IF source = "STANDBY" THEN {<<"on", "UPNP", <<Key("user"), Frame("restore", "INVALID_SOURCE", "user"), Now("UPNP", "user")>> >>} ELSE {})
  \cup {<<"keys", source, <<Key("user"), Frame("volume", "none", "user")>> >>, <<"keys", source, <<Frame("volume", "none", "user"), Key("user")>> >>,
        <<"keys", source, <<Key("user"), Frame("skip", "none", "user")>> >>, <<"keys", source, <<Key("thumb")>> >>}
  \cup (IF source # "STANDBY" THEN {<<"aux", "AUX", <<Key("user"), Now("AUX", "user")>> >>} ELSE {})
  \* the list of presets: each entry names a source, the first one is found
  \cup {<<"list", source, <<Frame("list", s, "box")>> >> : s \in {"UPNP", "RADIO"}}

SpeakerSends ==
  /\ wire = <<>> /\ bursts < MaxBursts /\ bursts' = bursts + 1
  /\ \E b \in Bursts : b[1] \in BurstKinds /\ source' = b[2] /\ wire' = b[3]
  /\ calls' = {} /\ UNCHANGED <<lastSource, episode, fresh, thumb, insync>>

\* NoteOwnTransportCommand, and the stop with which the speaker answers it.
OwnCommand ==
  /\ wire = <<>> /\ bursts < MaxBursts /\ bursts' = bursts + 1 /\ source = "UPNP" /\ "key" \notin fresh
  /\ fresh' = fresh \cup {"own"} /\ wire' = <<Stopped("UPNP", "agent")>>
  /\ calls' = {} /\ UNCHANGED <<source, lastSource, episode, thumb, insync>>

-----------------------------------------------------------------------------
(***************************************************************************)
(* handleMessage.  First the source, which is looked for in every frame.   *)
(***************************************************************************)
Changed(f) == f.src # "none" /\ f.src # lastSource

UpnpEpisode_FirstSecondsOnly(f) == FALSE
UpnpEpisode_NotCleared(f) == IF f.src = "INVALID_SOURCE" THEN episode \/ lastSource = "UPNP" ELSE episode
UpnpEpisode(f) ==
  CASE f.src = "none" -> episode
    [] f.src = "INVALID_SOURCE" -> episode \/ lastSource = "UPNP"
    [] f.src = "STANDBY" -> episode
    [] OTHER -> FALSE

SourceStamps_EntryOnly(f) ==
  IF f.src = "none" THEN {}
  ELSE {s \in {"invalid", "flap", "upnp", "started", "native"} :
         CASE s = "invalid" -> f.src = "INVALID_SOURCE"
           [] s = "flap" -> f.src = "STANDBY" /\ lastSource # "STANDBY"
           [] s = "upnp" -> lastSource = "UPNP"
           [] s = "started" -> Changed(f) /\ f.src = "RADIO"
           [] s = "native" -> Changed(f) /\ lastSource = "RADIO"}
SourceStamps(f) ==
  IF f.src = "none" THEN {}
  ELSE {s \in {"invalid", "flap", "upnp", "started", "native"} :
         CASE s = "invalid" -> f.src = "INVALID_SOURCE"
           [] s = "flap" -> "STANDBY" \in {f.src, lastSource}
           [] s = "upnp" -> lastSource = "UPNP"
           [] s = "started" -> Changed(f) /\ f.src = "RADIO"
           [] s = "native" -> Changed(f) /\ lastSource = "RADIO"}

\* The native station was abandoned: an invalid source soon after it, or standby soon after its start.
StationDropped(f, stamps) ==
  \/ f.src = "INVALID_SOURCE" /\ "native" \in stamps
  \/ f.src = "STANDBY" /\ lastSource = "RADIO" /\ "started" \in stamps

SourceCalls(f, stamps) ==
  IF ~Changed(f) THEN {}
  ELSE {c \in {"OnSourceAux", "NativeDropped", "OnStandbyExit", "OnEnterStandby"} :
         CASE c = "OnSourceAux" -> f.src = "AUX"
           [] c = "NativeDropped" -> StationDropped(f, stamps)
           [] c = "OnStandbyExit" -> lastSource = "STANDBY"
           [] c = "OnEnterStandby" -> f.src = "STANDBY" /\ (lastSource = "UPNP" \/ "upnp" \in stamps \/ UpnpEpisode(f))}

\* stopStateIsTeardown: the firmware's own, or the answer to a command of this agent.
StopStateIsTeardown(f, stamps) ==
  \/ f.src \in {"INVALID_SOURCE", "STANDBY"} \/ stamps \cap {"press", "invalid", "flap"} # {}
  \/ "own" \in stamps /\ "key" \notin stamps

\* A frame that says what was done explains the key that came with it.
Explains_NotSkips(f) == f.kind \in {"now", "press", "restore", "volume"}
Explains(f) == f.kind \in {"now", "press", "restore", "volume", "skip"}

HandleMessage ==
  /\ wire # <<>> /\ wire' = Tail(wire)
  /\ LET f == Head(wire)
         stamps == fresh \cup SourceStamps(f)
     IN /\ episode' = UpnpEpisode(f) /\ lastSource' = (IF f.src = "none" THEN lastSource ELSE f.src)
        /\ fresh' = stamps \cup (IF f.kind = "press" THEN {"press"} ELSE {}) \cup (IF f.kind = "activity" THEN {"key"} ELSE {})
                           \cup (IF Explains(f) THEN {"explained"} ELSE {})
        /\ thumb' = IF Explains(f) THEN NoThumb
                    ELSE IF f.kind = "activity" /\ "explained" \notin fresh /\ ~thumb.pending THEN [pending |-> TRUE, by |-> f.by]
                    ELSE thumb
        /\ calls' = Calls(SourceCalls(f, stamps), f.by)
             \cup {c \in Calls({"OnUserStop"}, f.by) : f.kind = "now" /\ f.stop /\ ~StopStateIsTeardown(f, stamps)}
             \cup {c \in Calls({"OnPresetSelected"}, f.by) : f.kind = "press"}
             \cup {c \in Calls({"OnPowerWake"}, f.by) : f.kind = "restore"}
             \cup {c \in Calls({"OnRemoteSkip"}, f.by) : f.kind = "skip"}
        /\ insync' = (insync \/ f.src \notin {"none", "INVALID_SOURCE"})
  /\ UNCHANGED <<source, bursts>>

\* The settle timer of a lone key; it asks again whether something explained the key.
ThumbSettles ==
  /\ wire = <<>> /\ thumb.pending /\ thumb' = NoThumb
  /\ IF fresh \cap {"explained", "fired"} # {} THEN calls' = {} /\ UNCHANGED fresh
     ELSE calls' = Calls({"OnThumbActivity"}, thumb.by) /\ fresh' = fresh \cup {"fired"}
  /\ UNCHANGED <<source, wire, lastSource, episode, insync, bursts>>

\* A window ends; that of an explanation outlasts the timer it stops.
WindowEnds ==
  /\ wire = <<>> /\ \E s \in fresh : fresh' = fresh \ {s} /\ (s = "explained" => ~thumb.pending)
  /\ calls' = {} /\ UNCHANGED <<source, wire, lastSource, episode, thumb, insync, bursts>>

\* The connection is lost with what was under way (not in the half second a key is looked at);
\* what the client knew it keeps.
Reconnect ==
  /\ wire # <<>> /\ ~thumb.pending /\ wire' = <<>> /\ insync' = FALSE /\ calls' = Calls({"OnConnected"}, "agent")
  /\ UNCHANGED <<source, lastSource, episode, fresh, thumb, bursts>>

BoxNext == SpeakerSends \/ OwnCommand \/ HandleMessage \/ ThumbSettles \/ WindowEnds \/ Reconnect

-----------------------------------------------------------------------------
Sources == {"UPNP", "RADIO", "AUX", "STANDBY", "INVALID_SOURCE"}
BoxTypeOK ==
  /\ {source, lastSource} \subseteq Sources /\ {episode, insync} \subseteq BOOLEAN /\ bursts \in 0..MaxBursts
  /\ fresh \subseteq {"press", "invalid", "flap", "upnp", "started", "native", "own", "key", "explained", "fired"}
  /\ (episode => lastSource \in {"INVALID_SOURCE", "STANDBY"}) /\ (thumb.pending <=> thumb.by # "nobody")

\* A stop that only the firmware's tear-down or this agent's own command explains is never
\* taken for a stop of the user, which would stand every recovery down (teardown.go:1-60).
NoPhantomStop == \A c \in calls : c[1] = "OnUserStop" => c[2] = "user"

\* When the speaker goes to standby while it plays for this agent, the handler of the standby
\* hears of it, however long it sat in INVALID_SOURCE before (client.go:112-121).
PowerOffSeen == [][HandleMessage /\ Head(wire).ends /\ insync /\ lastSource # "STANDBY" => \E c \in calls' : c[1] = "OnEnterStandby"]_boxVars

\* The thumb webhook answers a thumb, not the key of the volume or of a skip (dispatch.go:27).
ThumbIsLone == \A c \in calls : c[1] = "OnThumbActivity" => c[2] = "thumb"

\* What holds of the frames and the calls made of them.
BoxInv == BoxTypeOK /\ NoPhantomStop /\ ThumbIsLone

\* "counting that would disable native presets on a perfectly healthy speaker" (dispatch.go:124-126):
\* a change of preset is no station abandoned.
DropsAreDrops == \A c \in calls : c[1] = "NativeDropped" => c[2] = "firmware"
=============================================================================
