----------------------------- MODULE SpotifyStream -----------------------------
(***************************************************************************)
(* The stream of the Spotify engine to the speaker (internal/spotify:      *)
(* serve.go, the pages of engine.go, recall.go, ogg.go).  The speaker      *)
(* fetches the stream over HTTP, each fetch a handler; one of them is the  *)
(* sink that the pump writes the engine's pages to.  The engine is paused  *)
(* and resumed over its API by four parties that do not wait for each      *)
(* other: the pump, a handler, a recall, and the switch to another source. *)
(* Times are windows that may close at any moment; an event of the engine  *)
(* is handled, though, before the ten seconds of SwitchedAway are over.    *)
(***************************************************************************)
EXTENDS Naturals

CONSTANTS Fetches,      \* handlers there may be at a time
          Nobody,       \* no handler
          StreamMoves   \* bound on what the speaker and the user do

ASSUME StreamAssumption == Nobody \notin Fetches /\ StreamMoves \in Nat

VARIABLES
  source,   \* what the speaker is on: on; open: the fetches it has a connection for; away: what the user wants
  engine,   \* plays; heard: an event of it is still to be handled; old: its pages are those of a track skipped
  sink, lastIn,
  fetch,    \* per handler: at, again: another consumer was there, before: that consumer, done: closed
  pump,     \* at, to: the sink it read, paused: it has paused the engine
  recall,   \* Play: where it is
  leaving,  \* SwitchedAway and the push after it
  windows,  \* hold: recalling and hot, hot or none; suppress, skip: whether they run
  pointing, \* a re-point of the speaker is under way, and whether from before the switch
  why,      \* the engine is silent because
  excused,  \* late: a resume landed after the pause of a switch; unseen: a boundary went by with no consumer; failed: the last recall
  moves

streamVars == <<source, engine, sink, lastIn, fetch, pump, recall, leaving, windows, pointing, why, excused, moves>>

NoFetch == [at |-> "none", again |-> FALSE, before |-> Nobody, done |-> FALSE]

StreamInit ==
  /\ source = [on |-> "other", open |-> {}, away |-> TRUE]
  /\ engine = [plays |-> FALSE, heard |-> FALSE, old |-> FALSE] /\ sink = Nobody /\ lastIn = Nobody
  /\ fetch = [f \in Fetches |-> NoFetch] /\ pump = [at |-> "page", to |-> Nobody, paused |-> FALSE]
  /\ recall = "none" /\ leaving = "none" /\ windows = [hold |-> "none", suppress |-> FALSE, skip |-> FALSE]
  /\ pointing = "none" /\ why = "idle" /\ excused = [late |-> FALSE, unseen |-> FALSE, failed |-> FALSE] /\ moves = 0

Plays(late) ==
  /\ engine' = [engine EXCEPT !.plays = TRUE, !.heard = @ \/ ~engine.plays] /\ why' = "plays"
  /\ excused' = [excused EXCEPT !.late = @ \/ late, !.failed = FALSE]
Pauses(reason) == engine' = [engine EXCEPT !.plays = FALSE] /\ why' = (IF engine.plays THEN reason ELSE why)
Live(f) == f \in source.open /\ ~fetch[f].done
Moves == moves < StreamMoves /\ moves' = moves + 1

-----------------------------------------------------------------------------
(***************************************************************************)
(* ServeOgg.                                                               *)
(***************************************************************************)
\* A speaker fetches again when it has lost its source; the connection before may still be open.
Fetch(f) ==
  /\ Moves /\ source.on = "spotify" /\ fetch[f].at = "none"
  /\ fetch' = [fetch EXCEPT ![f] = [NoFetch EXCEPT !.at = "header"]]
  /\ \E open \in {{}, source.open} : source' = [source EXCEPT !.open = open \cup {f}]
  /\ UNCHANGED <<engine, sink, lastIn, pump, recall, leaving, windows, pointing, why, excused>>

To(f, at) == fetch' = [fetch EXCEPT ![f].at = at]
HandlerOnly == UNCHANGED <<source, engine, pump, recall, leaving, pointing, why, excused, moves>>

\* The headers of the track first: a speaker that has gone ends it here.
Header(f) ==
  /\ fetch[f].at = "header"
  /\ fetch' = [fetch EXCEPT ![f] = IF f \in source.open THEN [@ EXCEPT !.at = "attach"] ELSE NoFetch]
  /\ UNCHANGED <<sink, lastIn, windows>> /\ HandlerOnly

Attach(f) ==
  /\ fetch[f].at = "attach" /\ sink' = f /\ lastIn' = f
  /\ fetch' = [fetch EXCEPT ![f] = [@ EXCEPT !.at = "close", !.again = sink # Nobody, !.before = sink]]
  /\ UNCHANGED windows /\ HandlerOnly

\* The consumer before is closed; a quick one after another holds the re-points off.
Closes(f) ==
  /\ fetch[f].at = "close"
  /\ LET g == fetch[f].before IN
     fetch' = [h \in Fetches |-> IF h = f THEN [fetch[f] EXCEPT !.at = IF fetch[f].again THEN "ask" ELSE "fresh", !.before = Nobody]
                                 ELSE IF h = g /\ fetch[h].at # "none" THEN [fetch[h] EXCEPT !.done = TRUE] ELSE fetch[h]]
  /\ windows' \in (IF fetch[f].again THEN {windows, [windows EXCEPT !.suppress = TRUE]} ELSE {windows})
  /\ UNCHANGED <<sink, lastIn>> /\ HandlerOnly

\* Half a second for a recall to announce itself; none drives the engine then.
Recalling == windows.hold = "recalling"
Ask(f) ==
  /\ fetch[f].at \in {"fresh", "ask"} /\ To(f, IF Recalling THEN "hold" ELSE "resume")
  /\ UNCHANGED <<sink, lastIn, windows>> /\ HandlerOnly
Resume(f) ==
  /\ fetch[f].at = "resume" /\ To(f, "hold") /\ Plays(source.away)
  /\ UNCHANGED <<source, sink, lastIn, pump, recall, leaving, windows, pointing, moves>>

\* The deferred clean-up leaves a newer sink alone.
Detach(f) == sink' = IF sink = f THEN Nobody ELSE sink
Ended(f) ==
  /\ fetch[f].at = "hold" /\ ~Live(f) /\ Detach(f) /\ fetch' = [fetch EXCEPT ![f] = NoFetch]
  /\ source' = [source EXCEPT !.open = @ \ {f}]
  /\ UNCHANGED <<engine, lastIn, pump, recall, leaving, windows, pointing, why, excused, moves>>

OggHandler(f) == Header(f) \/ Attach(f) \/ Closes(f) \/ Ask(f) \/ Resume(f) \/ Ended(f)

-----------------------------------------------------------------------------
(***************************************************************************)
(* The pump of runOnce: a page is read, then the sink, then it is written. *)
(***************************************************************************)
PumpOnly == UNCHANGED <<source, lastIn, recall, leaving, pointing, moves>>
Hot == windows.hold # "none"
ReadsPage ==
  /\ pump.at = "page" /\ engine.plays
  /\ pump' = IF sink # Nobody THEN [at |-> "write", to |-> sink, paused |-> FALSE]
             ELSE [pump EXCEPT !.at = IF pump.paused \/ Hot THEN "page" ELSE "pause"]
  /\ pump' # pump /\ UNCHANGED <<engine, sink, fetch, windows, why, excused>> /\ PumpOnly

Writes ==
  /\ pump.at = "write" /\ pump' = [pump EXCEPT !.at = "page", !.to = Nobody]
  /\ LET f == pump.to IN
     IF f \in source.open THEN UNCHANGED <<sink, fetch>>
     ELSE Detach(f) /\ fetch' = [fetch EXCEPT ![f].done = @ \/ fetch[f].at # "none"]
  /\ UNCHANGED <<engine, windows, why, excused>> /\ PumpOnly

PumpPauses ==
  /\ pump.at = "pause" /\ pump' = [pump EXCEPT !.at = "page", !.paused = TRUE]
  /\ Pauses(IF sink = Nobody /\ ~Hot THEN "idle" ELSE "crossed") /\ UNCHANGED <<sink, fetch, windows, excused>> /\ PumpOnly

\* The first page of the next track: with a consumer it ends the cut of a skip.
Boundary ==
  /\ pump.at = "page" /\ engine.plays /\ engine.old
  /\ engine' = [engine EXCEPT !.old = FALSE, !.heard = TRUE]
  /\ windows' = [windows EXCEPT !.skip = @ /\ sink = Nobody]
  /\ excused' = [excused EXCEPT !.unseen = @ \/ (windows.skip /\ sink = Nobody)]
  /\ UNCHANGED <<sink, fetch, pump, why>> /\ PumpOnly

-----------------------------------------------------------------------------
(***************************************************************************)
(* A recall, a skip, another source, and the app of Spotify.               *)
(***************************************************************************)
\* SetRecalling, and the speaker pointed at the stream.
Recall ==
  /\ Moves /\ recall = "none" /\ recall' = "load" /\ windows' = [windows EXCEPT !.hold = "recalling"]
  /\ source' = [source EXCEPT !.on = "spotify", !.away = FALSE]
  /\ UNCHANGED <<engine, sink, lastIn, fetch, pump, leaving, pointing, why, excused>>

RecallOnly == UNCHANGED <<source, sink, lastIn, fetch, pump, leaving, pointing, moves>>
\* Play: the context is loaded paused, shuffled or not, and resumed; the load may be refused.
LoadsContext ==
  /\ recall = "load" /\ windows' = [windows EXCEPT !.hold = "recalling"]
  /\ \/ recall' = "resume" /\ Pauses("load")
     \/ recall' = "none" /\ UNCHANGED engine /\ UNCHANGED why
  /\ excused' = [excused EXCEPT !.failed = @ \/ recall' = "none"] /\ RecallOnly
Resumes == recall = "resume" /\ recall' = "none" /\ Plays(source.away) /\ UNCHANGED windows /\ RecallOnly

NoteSkip ==
  /\ Moves /\ engine.plays /\ ~engine.old /\ sink # Nobody
  /\ engine' = [engine EXCEPT !.old = TRUE] /\ windows' = [windows EXCEPT !.skip = TRUE]
  /\ excused' = [excused EXCEPT !.unseen = FALSE]
  /\ UNCHANGED <<source, sink, lastIn, fetch, pump, recall, leaving, pointing, why>>

\* A radio preset: the re-points are held off, the engine paused, the speaker pushed elsewhere.
SwitchedAway ==
  /\ Moves /\ leaving = "none" /\ leaving' = "pause" /\ windows' = [windows EXCEPT !.suppress = TRUE]
  /\ source' = [source EXCEPT !.away = TRUE] /\ excused' = [excused EXCEPT !.late = FALSE]
  /\ pointing' = (IF pointing = "none" THEN "none" ELSE "before")
  /\ UNCHANGED <<engine, sink, lastIn, fetch, pump, recall, why>>
Leaves ==
  \/ /\ leaving = "pause" /\ leaving' = "push" /\ Pauses(IF source.away THEN "switch" ELSE "crossed")
     /\ UNCHANGED <<source, sink, lastIn, fetch, pump, recall, windows, pointing, excused, moves>>
  \/ /\ leaving = "push" /\ leaving' = "none"
     /\ source' = (IF source.away THEN [source EXCEPT !.on = "other", !.open = {}] ELSE source)
     /\ UNCHANGED <<engine, sink, lastIn, fetch, pump, recall, windows, pointing, why, excused, moves>>

\* The listener in the app: pauses, or plays, which is to be heard on this speaker.
Listener ==
  /\ Moves
  /\ \/ engine.plays /\ Pauses("user") /\ UNCHANGED <<source, excused>>
     \/ ~engine.plays /\ Plays(FALSE) /\ source' = [source EXCEPT !.away = FALSE]
  /\ UNCHANGED <<sink, lastIn, fetch, pump, recall, leaving, windows, pointing>>

\* maybeActivate on an event of the engine: with no consumer, and not held off, the speaker is pointed
\* at the stream, unless that was done a moment ago.
MayActivate == sink = Nobody /\ ~windows.suppress
Hears ==
  /\ engine.heard /\ engine' = [engine EXCEPT !.heard = FALSE]
  /\ pointing' \in (IF MayActivate /\ pointing = "none" THEN {"none", "since"} ELSE {pointing})
  /\ UNCHANGED <<source, sink, lastIn, fetch, pump, recall, leaving, windows, why, excused, moves>>
Points ==
  /\ pointing # "none" /\ pointing' = "none" /\ source' = [source EXCEPT !.on = "spotify"]
  /\ excused' = [excused EXCEPT !.late = @ \/ pointing = "before"]
  /\ UNCHANGED <<engine, sink, lastIn, fetch, pump, recall, leaving, windows, why, moves>>

WindowEnds ==
  /\ \/ windows.hold = "recalling" /\ windows' = [windows EXCEPT !.hold = "hot"]
     \/ windows.hold = "hot" /\ windows' = [windows EXCEPT !.hold = "none"]
     \/ windows.suppress /\ ~engine.heard /\ leaving = "none" /\ windows' = [windows EXCEPT !.suppress = FALSE]
     \/ windows.skip /\ windows' = [windows EXCEPT !.skip = FALSE]
  /\ UNCHANGED <<source, engine, sink, lastIn, fetch, pump, recall, leaving, pointing, why, excused, moves>>

Pump == ReadsPage \/ Writes \/ PumpPauses \/ Boundary
StreamNext ==
  \/ \E f \in Fetches : Fetch(f) \/ OggHandler(f)
  \/ Pump \/ Recall \/ LoadsContext \/ Resumes \/ NoteSkip \/ SwitchedAway \/ Leaves
  \/ Listener \/ Hears \/ Points \/ WindowEnds

-----------------------------------------------------------------------------
\* The newest consumer is the sink as long as it is connected, whatever the handlers before it do as
\* they end, and no other is left open beside it but one a handler is about to close (serve.go:229-256).
NewestIsSink ==
  /\ lastIn # Nobody /\ fetch[lastIn].at \in {"close", "fresh", "ask", "resume", "hold"} /\ Live(lastIn) => sink = lastIn
  /\ \A f \in Fetches : fetch[f].at = "hold" /\ f # sink /\ ~fetch[f].done => \E g \in Fetches : fetch[g].before = f \/ ~Live(f)

\* A speaker that is attached gets audio once nothing is under way, unless the listener paused, the
\* recall failed, or a pause that was decided for a speaker not there landed on one that was.
AtEase == recall = "none" /\ leaving = "none" /\ pump.at = "page" /\ \A f \in Fetches : fetch[f].at \in {"none", "hold"}
NoSilence == AtEase /\ sink # Nobody /\ Live(sink) /\ ~source.away => engine.plays \/ excused.failed \/ why \in {"user", "crossed"}

\* A speaker the user has sent elsewhere stays there, unless a re-point was under way already or a
\* resume landed after the pause (recall.go:212-217).
StaysAway == source.away /\ leaving = "none" /\ ~excused.late => source.on = "other"

\* What a skip cuts is the track skipped, unless its end went by with no speaker attached (ogg.go:250-256).
CutsOldOnly == windows.skip /\ sink # Nobody /\ ~excused.unseen => engine.old

StreamInv == NewestIsSink /\ NoSilence /\ StaysAway /\ CutsOldOnly
=============================================================================
