------------------------------ MODULE PlayQueue ------------------------------
(***************************************************************************)
(* The play queue of the agent (internal/webui/queueplay.go): the handlers *)
(* that start, skip and stop it, and the watcher that polls the speaker,   *)
(* decides whether the track has ended and advances.  A push takes seconds *)
(* and holds boxCmdMu; stopQueue takes no lock of its own; a cancelled     *)
(* watcher that is already waiting for boxCmdMu is not called back.        *)
(*                                                                         *)
(* Time is counted in ticks of the watcher's poll interval: a track lasts  *)
(* TrackLen of them, the nets trip QueueMargin late, a track that never    *)
(* starts is skipped after QueueStall.  `queueFacts' is what this media    *)
(* server and this speaker disclose: the length of a track, and the        *)
(* position in it.                                                         *)
(***************************************************************************)
EXTENDS QueueOrder, FiniteSets

CONSTANTS QueueRepeats,                          \* the repeat modes a queue is started with
          TrackLen, QueueMargin, QueueEpsilon, QueueStall,   \* ticks
          MaxTracks, MaxCommands, MaxPushes      \* bounds

ASSUME QueueAssumption ==
  /\ QueueRepeats \subseteq {"off", "all", "one"}
  /\ TrackLen \in Nat /\ QueueMargin \in Nat \ {0} /\ QueueEpsilon \in 1..(TrackLen - 1)
  /\ QueueStall \in 0..(TrackLen + QueueMargin)
  /\ MaxTracks \in Nat \ {0} /\ MaxCommands \in Nat /\ MaxPushes \in Nat

VARIABLES
  queue,         \* Server.queue
  queueGen, queueAge,  \* Server.queueGen; ticks since queueTrackStart
  queueCancel,   \* the watcher Server.queueCancel cancels, or "none"
  queueMu,       \* the holder of boxCmdMu: "free", "user", "skip" or a watcher
  watchers,      \* per watcher: pc, ctx done, and runQueueWatcher's local variables
  deck,          \* the speaker: who put on what it plays, its play state, how far it is
  queueFacts,    \* [length, position]: does anyone report them
  asking,        \* the command of the user under way
  commands       \* commands given so far

queueVars == <<queue, queueGen, queueAge, queueCancel, queueMu, watchers, deck, queueFacts, asking, commands>>

Watchers == {"w1", "w2"}
Free == "free"
NetAfter == TrackLen + QueueMargin

Resting == [pc |-> "off", done |-> FALSE, gen |-> 0, from |-> 0, saw |-> FALSE, last |-> 0,
            frozen |-> 0, polled |-> "none"]

QueueInit ==
  /\ queue = Emptied /\ queueGen = 0 /\ queueAge = 0 /\ queueCancel = "none" /\ queueMu = Free
  /\ watchers = [i \in Watchers |-> Resting]
  /\ deck = [source |-> "none", push |-> 0, state |-> "idle", pos |-> 0, held |-> "no"]
  /\ queueFacts \in [length : BOOLEAN, position : BOOLEAN]
  /\ asking = "none" /\ commands = 0

(***************************************************************************)
(* Operations of the server.                                               *)
(***************************************************************************)
CancelWatcher(ws) == [i \in Watchers |-> IF i = queueCancel THEN [ws[i] EXCEPT !.done = TRUE] ELSE ws[i]]

\* stopQueue's two halves: clear the queue, then cancel the watcher.
StopQueue(ws) == queue' = Cleared(queue) /\ watchers' = CancelWatcher(ws) /\ queueCancel' = "none"

\* The stream is on the speaker: it fetches it and begins.
Put(source) == deck' = [source |-> source, push |-> deck.push + 1, state |-> "BUFFERING", pos |-> 0, held |-> "no"]

SetQueueTiming == queueGen' = queueGen + 1 /\ queueAge' = 0

Sleeping(w) == [w EXCEPT !.pc = "sleep", !.polled = "none", !.from = 0]

EnsureWatcher_Unchecked ==
  \E i \in Watchers : watchers[i].pc = "off" /\ queueCancel' = i /\ watchers' = [watchers EXCEPT ![i] = [Resting EXCEPT !.pc = "sleep"]]
EnsureWatcher ==
  IF queueCancel # "none" THEN UNCHANGED <<queueCancel, watchers>>
  ELSE \E i \in Watchers : /\ watchers[i].pc = "off"
                           /\ queueCancel' = i
                           /\ watchers' = [watchers EXCEPT ![i] = [Resting EXCEPT !.pc = "sleep"]]

\* pushStream: it fails, or the stream gets on the speaker and the timing starts.
PushStream(ok) == IF ok THEN Put("queue") /\ SetQueueTiming ELSE UNCHANGED <<deck, queueGen, queueAge>>

(***************************************************************************)
(* The user: the app and the keys.  `asking' is the handler under way; a   *)
(* handler that pushes holds boxCmdMu, handleStop and the keys do not.     *)
(***************************************************************************)
Asks(what) == asking = "none" /\ commands < MaxCommands /\ commands' = commands + 1 /\ asking' = what

\* startQueue takes boxCmdMu, wakes the speaker, loads the list and pushes its first track.
StartQueue ==
  /\ Asks("start") /\ queueMu = Free /\ deck.push < MaxPushes
  /\ queueMu' = "user"
  /\ \E rep \in QueueRepeats : \E q \in Loads(MaxTracks, 1, FALSE, rep) : queue' = q
  /\ UNCHANGED <<queueGen, queueAge, queueCancel, watchers, deck, queueFacts>>
StartPush ==
  /\ asking = "start" /\ asking' = "none" /\ queueMu' = Free
  /\ \E ok \in BOOLEAN : /\ PushStream(ok)
                         /\ IF ok THEN EnsureWatcher ELSE UNCHANGED <<queueCancel, watchers>>
  /\ UNCHANGED <<queue, queueFacts, commands>>

\* queueSkip: forward or back under boxCmdMu; a skip past the end stops the watcher.
QueueSkip ==
  /\ Asks("skip") /\ queueMu = Free /\ queue.active /\ deck.push < MaxPushes
  /\ \E q \in Nexts(queue) \cup {Prev(queue)} :
       /\ queue' = q
       /\ IF q.active THEN queueMu' = "user" /\ UNCHANGED <<watchers, queueCancel>>
          ELSE watchers' = CancelWatcher(watchers) /\ queueCancel' = "none" /\ UNCHANGED queueMu
  /\ UNCHANGED <<queueGen, queueAge, deck, queueFacts>>
SkipPush ==
  /\ asking = "skip" /\ asking' = "none" /\ queueMu' = Free
  /\ IF queueMu = "user" THEN \E ok \in BOOLEAN : PushStream(ok) ELSE UNCHANGED <<deck, queueGen, queueAge>>
  /\ UNCHANGED <<queue, queueCancel, watchers, queueFacts, commands>>

\* A single play (handlePlay, handlePlaySlot) drops the queue under boxCmdMu, then pushes.
SinglePlay ==
  /\ Asks("play") /\ queueMu = Free /\ deck.push < MaxPushes
  /\ queueMu' = "user" /\ StopQueue(watchers)
  /\ UNCHANGED <<queueGen, queueAge, deck, queueFacts>>
PlayPush ==
  /\ asking = "play" /\ asking' = "none" /\ queueMu' = Free
  /\ Put("single") \/ UNCHANGED deck
  /\ UNCHANGED <<queue, queueGen, queueAge, queueCancel, watchers, queueFacts, commands>>

\* handleStop and HandleEnterStandby drop the queue without boxCmdMu: the list first, the
\* watcher after, the speaker last.  After a power-off the speaker is off already.
UserStop ==
  /\ Asks("stop") /\ queue' = Cleared(queue)
  /\ UNCHANGED <<queueGen, queueAge, queueCancel, queueMu, watchers, deck, queueFacts>>
UserStopCancels ==
  /\ asking = "stop" /\ asking' = "none"
  /\ watchers' = CancelWatcher(watchers) /\ queueCancel' = "none"
  /\ deck' = [deck EXCEPT !.state = IF @ \in {"idle", "STANDBY"} THEN @ ELSE "STOP"]
  /\ UNCHANGED <<queue, queueGen, queueAge, queueMu, queueFacts, commands>>
PowerOffSpeaker ==
  /\ Asks("off") /\ deck' = [deck EXCEPT !.state = "STANDBY"]
  /\ UNCHANGED <<queue, queueGen, queueAge, queueCancel, queueMu, watchers, queueFacts>>
HandleEnterStandby ==
  /\ asking = "off" /\ asking' = "stop" /\ queue' = Cleared(queue)
  /\ UNCHANGED <<queueGen, queueAge, queueCancel, queueMu, watchers, deck, queueFacts, commands>>

\* A hardware key: recallPreset pushes without boxCmdMu and records the play after.
KeyPush ==
  /\ Asks("key") /\ deck.push < MaxPushes /\ Put("single")
  /\ UNCHANGED <<queue, queueGen, queueAge, queueCancel, queueMu, watchers, queueFacts>>
NoteLastPlay ==
  /\ asking = "key" /\ asking' = "none" /\ StopQueue(watchers)
  /\ UNCHANGED <<queueGen, queueAge, queueMu, deck, queueFacts, commands>>

(***************************************************************************)
(* The speaker, which nothing tells of the end of a track: it stops, or    *)
(* stays in PLAY_STATE with its position frozen.                           *)
(***************************************************************************)
DeckChanges(to) == deck' = to /\ UNCHANGED <<queue, queueGen, queueAge, queueCancel, queueMu, watchers, queueFacts, asking, commands>>
DeckPlays == deck.state \in {"BUFFERING", "PAUSE"} /\ DeckChanges([deck EXCEPT !.state = "PLAY"])
DeckEnds == deck.state = "PLAY" /\ deck.pos = TrackLen /\ DeckChanges([deck EXCEPT !.state = "STOP"])
DeckRefuses == deck.state = "BUFFERING" /\ DeckChanges([deck EXCEPT !.state = "STOP"])
DeckPaused ==
  /\ deck.state = "PLAY" /\ commands < MaxCommands /\ asking = "none" /\ commands' = commands + 1
  /\ deck' = [deck EXCEPT !.state = "PAUSE"]
  /\ UNCHANGED <<queue, queueGen, queueAge, queueCancel, queueMu, watchers, queueFacts, asking>>

\* One interval passes.  A track that does not move while it passes is held up.
Freezing(w) == w.last > 0 /\ ~queueFacts.length /\ w.frozen < QueueMargin
DeckTick ==
  /\ deck.source # "none"
  /\ \/ queueAge < NetAfter \/ deck.pos < TrackLen
     \/ \E i \in Watchers : Freezing(watchers[i])
  /\ queueAge' = IF queueAge < NetAfter THEN queueAge + 1 ELSE queueAge
  /\ deck' = IF deck.state = "PLAY" THEN [deck EXCEPT !.pos = IF @ < TrackLen THEN @ + 1 ELSE @]
             ELSE [deck EXCEPT !.held = IF deck.state = "PAUSE" /\ @ # "slow" THEN "pause" ELSE "slow"]
  /\ watchers' = [i \in Watchers |-> [watchers[i] EXCEPT
                    !.frozen = IF Freezing(watchers[i]) THEN @ + 1 ELSE @]]
  /\ UNCHANGED <<queue, queueGen, queueCancel, queueMu, queueFacts, asking, commands>>

(***************************************************************************)
(* The watcher (runQueueWatcher).                                          *)
(***************************************************************************)
WatcherMoves(i, to) == watchers' = [watchers EXCEPT ![i] = to]
OwnStep == UNCHANGED <<queueFacts, asking, commands>>

\* A tick: the watcher of no queue, or of a cancelled context, ends; another reads the
\* generation and forgets what it saw of another track.  A context that is done and a tick
\* that is due are taken in either order.
WatcherWakes(i) ==
  /\ watchers[i].pc = "sleep"
  /\ LET w == watchers[i]
         reads == IF w.gen = queueGen THEN w
                  ELSE [w EXCEPT !.gen = queueGen, !.saw = FALSE, !.last = 0, !.frozen = 0]
     IN \/ (w.done \/ ~queue.active) /\ WatcherMoves(i, Resting)
        \/ queue.active /\ WatcherMoves(i, [reads EXCEPT !.pc = "poll", !.from = deck.push])
  /\ OwnStep /\ UNCHANGED <<queue, queueGen, queueAge, queueCancel, queueMu, deck>>

\* What a status tells of the track: that it plays, and how far it has come since.
Observed_NoReset(w, seen) ==
  LET plays == seen \in {"PLAY", "BUFFERING"}
      moved == plays /\ queueFacts.position /\ deck.pos > w.last
  IN [w EXCEPT !.saw = @ \/ plays, !.last = IF moved THEN deck.pos ELSE @]
Observed(w, seen) ==
  LET plays == seen \in {"PLAY", "BUFFERING"}
      moved == plays /\ queueFacts.position /\ deck.pos > w.last
  IN [w EXCEPT !.saw = @ \/ plays, !.last = IF moved THEN deck.pos ELSE @, !.frozen = IF moved THEN 0 ELSE @]

NearEnd(progress) == queueFacts.length => progress >= TrackLen - QueueEpsilon

FrozenNet_Missing(w, seen) == FALSE
FrozenNet(w, seen) == seen = "PLAY" /\ ~queueFacts.length /\ w.last > 0 /\ w.frozen >= QueueMargin

\* What the switch and the two nets decide of a status the speaker reports.
Verdicts(w, seen, age) ==
  CASE seen = "STANDBY" -> "stop"
    [] seen = "PAUSE" -> "again"
    [] seen = "STOP" -> IF ~w.saw THEN "again"
                        ELSE IF NearEnd(IF w.last = 0 THEN age ELSE w.last) THEN "advance" ELSE "stop"
    [] seen \in {"none", "idle"} /\ ~w.saw -> IF age >= QueueStall THEN "advance" ELSE "again"
    [] OTHER -> IF (queueFacts.length /\ age >= NetAfter) \/ FrozenNet(w, seen) THEN "advance" ELSE "again"

\* The poll, up to three seconds after the tick, and the decision drawn from it.  A poll
\* that fails reports nothing.
WatcherPolls(i, seen) ==
  /\ watchers[i].pc = "poll"
  /\ \E age \in IF watchers[i].gen = queueGen THEN {queueAge} ELSE {0, NetAfter} :
       LET now == Observed(watchers[i], seen)
       IN WatcherMoves(i, CASE Verdicts(now, seen, age) = "advance" -> [now EXCEPT !.pc = "lock", !.polled = seen]
                            [] Verdicts(now, seen, age) = "stop" -> [now EXCEPT !.pc = "stop"]
                            [] OTHER -> Sleeping(now))
  /\ OwnStep /\ UNCHANGED <<queue, queueGen, queueAge, queueCancel, queueMu, deck>>
WatcherReads(i) == WatcherPolls(i, deck.state)

\* A speaker in standby, or stopped well before the end: stopQueue, and the watcher ends.
WatcherClears(i) ==
  /\ watchers[i].pc = "stop"
  /\ queue' = Cleared(queue) /\ WatcherMoves(i, [watchers[i] EXCEPT !.pc = "cancel"])
  /\ OwnStep /\ UNCHANGED <<queueGen, queueAge, queueCancel, queueMu, deck>>
WatcherCancels(i) ==
  /\ watchers[i].pc = "cancel"
  /\ watchers' = [CancelWatcher(watchers) EXCEPT ![i] = Resting] /\ queueCancel' = "none"
  /\ OwnStep /\ UNCHANGED <<queue, queueGen, queueAge, queueMu, deck>>

Superseded_Never(i) == FALSE
Superseded(i) == watchers[i].gen # queueGen

\* advanceAndPlay with boxCmdMu in hand: stand down when superseded, stop the speaker when
\* the queue has no next track, else push the next one.
AdvanceLocks(i) ==
  /\ watchers[i].pc = "lock" /\ queueMu = Free
  /\ \/ /\ Superseded(i)
        /\ WatcherMoves(i, Sleeping(watchers[i]))
        /\ UNCHANGED <<queue, queueCancel, queueMu, deck>>
     \/ /\ ~Superseded(i)
        /\ \E q \in AdvanceNaturals(queue) :
             /\ queue' = q
             /\ IF q.active
                THEN /\ queueMu' = i /\ WatcherMoves(i, [watchers[i] EXCEPT !.pc = "push"])
                     /\ UNCHANGED <<queueCancel, deck>>
                ELSE /\ deck' = [deck EXCEPT !.state = IF @ \in {"idle", "STANDBY"} THEN @ ELSE "STOP"]
                     /\ watchers' = [CancelWatcher(watchers) EXCEPT ![i] = Sleeping(@)]
                     /\ queueCancel' = "none" /\ UNCHANGED queueMu
  /\ OwnStep /\ UNCHANGED <<queueGen, queueAge>>
AdvancePush(i, ok) ==
  /\ watchers[i].pc = "push" /\ deck.push < MaxPushes
  /\ queueMu' = Free /\ WatcherMoves(i, Sleeping(watchers[i]))
  /\ PushStream(ok)
  /\ OwnStep /\ UNCHANGED <<queue, queueCancel>>

Watcher(i) == WatcherWakes(i) \/ WatcherReads(i) \/ WatcherPolls(i, "none") \/ WatcherClears(i) \/ WatcherCancels(i) \/ AdvanceLocks(i) \/ \E ok \in BOOLEAN : AdvancePush(i, ok)
Handler == StartPush \/ SkipPush \/ PlayPush \/ UserStopCancels \/ NoteLastPlay \/ HandleEnterStandby
QueueNext ==
  \/ StartQueue \/ QueueSkip \/ SinglePlay \/ UserStop \/ PowerOffSpeaker \/ KeyPush \/ Handler
  \/ DeckPlays \/ DeckEnds \/ DeckRefuses \/ DeckPaused \/ DeckTick
  \/ \E i \in Watchers : Watcher(i)

-----------------------------------------------------------------------------
QueueTypeOK ==
  /\ queue.active => Current(queue) \in 1..MaxTracks
  /\ queueCancel \in Watchers \cup {"none"} /\ queueMu \in Watchers \cup {Free, "user"}
  /\ deck.push \in 0..MaxPushes /\ deck.pos \in 0..TrackLen /\ queueAge \in 0..NetAfter
  /\ \A i \in Watchers : watchers[i].pc \in {"off", "sleep", "poll", "lock", "stop", "cancel", "push"}

\* At most one watcher runs that has not been told to end: two of them would each advance
\* the queue at the end of a track (queueplay.go:191-202).
LoneWatcher == \A i, j \in Watchers : watchers[i].pc # "off" /\ ~watchers[i].done /\ watchers[j].pc # "off" /\ ~watchers[j].done => i = j

\* What holds of the queue, the watchers and the locks.
QueueInv == QueueTypeOK /\ LoneWatcher

\* An advance the watcher decided on never moves the queue on over a track that was put on the
\* speaker after the tick the decision began with: a user who starts a queue or skips while the
\* advance waits for boxCmdMu keeps the track just chosen (queueplay.go:218-240).
NewTrackKept ==
  [][\A i \in Watchers : AdvanceLocks(i) /\ queueMu' = i /\ deck.source = "queue" => watchers[i].from = deck.push]_queueVars

\* A track that is seen to play, and was not held up, is left at its end and not before, by
\* either net and whatever is known of its length (queueplay.go:397-415).
NoTrackCutShort ==
  [][\A i \in Watchers : AdvanceLocks(i) /\ queueMu' = i /\ deck.source = "queue" /\ watchers[i].polled = "PLAY" /\ deck.held = "no" => deck.pos = TrackLen]_queueVars

\* The pause: "never advance, and freeze the wall-clock timer" (queueplay.go:370).  The code
\* freezes nothing: a track that was paused is cut short when it goes on.
PauseFreezesTheClock ==
  [][\A i \in Watchers : AdvanceLocks(i) /\ queueMu' = i /\ watchers[i].polled = "PLAY" /\ deck.source = "queue" /\ deck.held # "slow"
       => deck.pos = TrackLen]_queueVars

\* "The advance re-checks the generation once it holds the lock and aborts when superseded", so
\* that "a new queue/track started while this advance waited" is left alone
\* (queueplay.go:218-236): a single play moves no generation, and is stopped.
SinglePlayKept ==
  [][\A i \in Watchers : AdvanceLocks(i) /\ deck.source = "single" => deck' = deck]_queueVars

\* A track that is over is followed by something: while a watcher that saw it play lives, and the
\* length or the position is known, a finished track does not stay the last word, whether the
\* speaker stops at its end or freezes (queueplay.go:312-417).
Finished ==
  /\ queue.active /\ deck.source = "queue" /\ deck.pos = TrackLen /\ deck.state \in {"PLAY", "STOP"}
  /\ deck.push < MaxPushes
  /\ \E i \in Watchers : queueCancel = i /\ watchers[i].saw /\ watchers[i].gen = queueGen
MovesOn == (Finished /\ (queueFacts.length \/ queueFacts.position)) ~> ~Finished
=============================================================================
