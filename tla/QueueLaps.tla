------------------------------ MODULE QueueLaps ------------------------------
(***************************************************************************)
(* The play queue on its own (internal/webui/queue.go): every sequence of  *)
(* its methods, with the tracks played since the order was last built.     *)
(***************************************************************************)
EXTENDS QueueOrder

CONSTANT LapTracks   \* the largest number of tracks a queue is loaded with

ASSUME LapTracksAssumption == LapTracks \in Nat \ {0}

VARIABLES
  laps,        \* the playQueue
  lap,         \* history: the tracks played since the order was last built or run through
  straight     \* history: the lap began at the front and was only ever stepped forward

lapVars == <<laps, lap, straight>>

LapInit == laps = Emptied /\ lap = {} /\ straight = FALSE

\* A lap starts afresh with the track the queue now stands on.
NewLap(q) == lap' = {Current(q)} \ {0} /\ straight' = (q.active /\ q.pos = 1)
SameLap(q) == lap' = lap \cup ({Current(q)} \ {0}) /\ UNCHANGED straight

LapLoad == \E n \in 1..LapTracks, on \in BOOLEAN, rep \in Repeats : \E start \in 0..n :
  laps' \in Loads(n, start, on, rep) /\ NewLap(laps')

\* The next track of the lap; running past the last one starts a new lap or ends the queue.
Forward(qs) ==
  /\ laps.active
  /\ \E q \in qs :
       /\ laps' = q
       /\ IF q.active /\ laps.pos = Len(laps.order) /\ q.pos = 1 /\ laps.repeat = "all"
          THEN NewLap(q) ELSE SameLap(q)

LapSkip == Forward(Nexts(laps))
LapNatural == Forward(AdvanceNaturals(laps))
LapPrev == /\ laps.active
             /\ laps' = Prev(laps)
             /\ lap' = lap \cup {Current(Prev(laps))}
             /\ straight' = FALSE
LapShuffle == \E on \in BOOLEAN : \E q \in SetShuffles(laps, on) :
  /\ laps' = q
  /\ IF laps.shuffle = on THEN UNCHANGED <<lap, straight>> ELSE NewLap(q)
LapRepeat == \E rep \in Repeats : laps' = [laps EXCEPT !.repeat = rep] /\ UNCHANGED <<lap, straight>>
LapClear == laps' = Cleared(laps) /\ lap' = {} /\ straight' = FALSE

LapNext == LapLoad \/ LapSkip \/ LapNatural \/ LapPrev \/ LapShuffle \/ LapRepeat \/ LapClear

-----------------------------------------------------------------------------
\* The order is a permutation of the tracks and an active queue stands on one of them.
LapTypeOK ==
  /\ laps.items \in 0..LapTracks
  /\ laps.order \in [1..laps.items -> 1..laps.items]
  /\ laps.repeat \in Repeats
  /\ laps.active => laps.pos \in 1..laps.items
  /\ lap \subseteq 1..laps.items /\ straight \in BOOLEAN

\* A lap that was begun at the front and only ever stepped forward has played each track when
\* it ends or wraps, shuffled or not: no track is lost by buildOrder's swap or by the rotation
\* of a wrapped lap (queue.go:189-209).
LapPlaysAll ==
  straight /\ laps.items > 0 /\ (laps.pos = laps.items) => lap = 1..laps.items

\* What holds of the order of a queue.
LapInv == LapTypeOK /\ LapPlaysAll
=============================================================================
