------------------------------ MODULE MCPlaying ------------------------------
(***************************************************************************)
(* What the agent keeps for a listener, on small instances that TLC        *)
(* explores in one run; they share nothing, and `part' says which one a    *)
(* behaviour belongs to: the queue with its watcher (PlayQueue), the order *)
(* of a queue by itself (QueueLaps), the sleep timer (SleepTimer), the     *)
(* stream of the Spotify engine (SpotifyStream).  The variables of the     *)
(* other parts stay as they are initially.                                 *)
(***************************************************************************)
EXTENDS PlayQueue, QueueLaps, SleepTimer, SpotifyStream

VARIABLE part

PlayingInit ==
  /\ QueueInit /\ LapInit /\ SleepInit /\ StreamInit /\ part \in {"queue", "laps", "sleep", "spotify"}
  /\ part # "queue" => queueFacts = [length |-> TRUE, position |-> TRUE]

In(p, A) == part = p /\ A /\ UNCHANGED part
PlayingNext ==
  \/ In("queue", QueueNext) /\ UNCHANGED <<lapVars, sleepVars, streamVars>>
  \/ In("laps", LapNext) /\ UNCHANGED <<queueVars, sleepVars, streamVars>>
  \/ In("sleep", SleepNext) /\ UNCHANGED <<queueVars, lapVars, streamVars>>
  \/ In("spotify", StreamNext) /\ UNCHANGED <<queueVars, lapVars, sleepVars>>

\* Time passes and goroutines run on; nothing is asked of the people.  A watcher whose polls
\* are answered again and again, and whose pushes succeed again and again, is let through.
PlayingSpec ==
  /\ PlayingInit /\ [][PlayingNext]_<<part, queueVars, lapVars, sleepVars, streamVars>>
  /\ \A i \in Watchers : /\ WF_queueVars(Watcher(i))
                         /\ SF_queueVars(WatcherReads(i))
                         /\ SF_queueVars(AdvancePush(i, TRUE))
  /\ WF_queueVars(Handler) /\ WF_queueVars(DeckTick) /\ WF_queueVars(DeckPlays)

-----------------------------------------------------------------------------
\* The invariants of the four parts.
PlayingInv == LapInv /\ QueueInv /\ SleepInv /\ StreamInv
=============================================================================
