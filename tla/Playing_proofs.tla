--------------------------- MODULE Playing_proofs ---------------------------
(***************************************************************************)
(* Proofs about what plays: the queue and its watcher, the order of a      *)
(* queue, the sleep timer and the stream of the Spotify engine, the four   *)
(* parts of MCPlaying; and the groups of GroupZones.  They share nothing,  *)
(* and each has an inductive invariant of its own: what a watcher knows    *)
(* of the track on the speaker; which tracks of a lap have been played;    *)
(* which callback of a timer may still act; who silenced the engine and    *)
(* who will resume it; and what each handler of a zone has read.           *)
(***************************************************************************)
EXTENDS MCPlaying, GroupZones, FiniteSetTheorems, TLAPS

-----------------------------------------------------------------------------
(***************************************************************************)
(* The order of a queue.                                                   *)
(***************************************************************************)

Queues == [items : Nat, order : Seq(Nat), pos : Nat, repeat : Repeats, shuffle : BOOLEAN, active : BOOLEAN]

\* The queues the methods make: an order that plays each track once, a position in it.
Ordered(q) ==
  /\ q \in Queues
  /\ Len(q.order) = q.items /\ q.order \in Shuffles(q.items)
  /\ IF q.items = 0 THEN ~q.active /\ q.pos = 1 ELSE q.pos \in 1..q.items

\* The tracks up to the position.
Played(q) == {q.order[i] : i \in 1..q.pos}

LapIInv ==
  /\ Ordered(laps) /\ laps.items \in 0..LapTracks
  /\ lap \subseteq 1..laps.items /\ straight \in BOOLEAN
  /\ straight => laps.items > 0 /\ lap = Played(laps)

\* An order of the n tracks.
LEMMA OrderTyped ==
  ASSUME NEW n \in Nat, NEW o \in Shuffles(n)
  PROVE  o \in Seq(Nat) /\ Len(o) = n /\ DOMAIN o = 1..n /\ (\A i \in 1..n : o[i] \in 1..n)
<1>1. o \in [1..n -> 1..n]
  BY DEF Shuffles
<1>2. o \in [1..n -> Nat]
  BY <1>1
<1>3. o \in Seq(Nat)
  BY <1>2
<1>. QED
  BY <1>1, <1>3

\* Nothing but each track once.
LEMMA OrderIsOnto ==
  ASSUME NEW n \in Nat, NEW o \in Shuffles(n)
  PROVE  {o[i] : i \in 1..n} = 1..n
<1>1. o \in Injection(1..n, 1..n)
  BY DEF Shuffles, Injection, IsInjective
<1>2. IsFiniteSet(1..n)
  BY FS_Interval
<1>3. o \in Surjection(1..n, 1..n)
  BY <1>1, <1>2, FS_Injection
<1>. QED
  BY <1>3 DEF Surjection

LEMMA BuildsOrder ==
  ASSUME NEW n \in Nat, NEW on \in BOOLEAN, NEW first, NEW o \in BuildOrders(n, on, first)
  PROVE  o \in Shuffles(n) /\ (on => o[1] = first)
<1>1. CASE on
  BY <1>1 DEF BuildOrders
<1>2. CASE ~on
  BY <1>2 DEF BuildOrders, Identity, Shuffles
<1>. QED
  BY <1>1, <1>2

\* The rotation of a reshuffled lap loses no track.
LEMMA RotationIsOrder ==
  ASSUME NEW n \in Nat, n > 1, NEW o \in Shuffles(n)
  PROVE  Append(Tail(o), Head(o)) \in Shuffles(n)
<1>. DEFINE r == Append(Tail(o), Head(o))
<1>1. o \in Seq(Nat) /\ Len(o) = n /\ \A i \in 1..n : o[i] \in 1..n
  BY OrderTyped
<1>2. Tail(o) \in Seq(Nat) /\ Len(Tail(o)) = n - 1 /\ \A i \in 1..(n - 1) : Tail(o)[i] = o[i + 1]
  BY <1>1
<1>3. r \in Seq(Nat) /\ Len(r) = n /\ \A i \in 1..n : r[i] = IF i = n THEN o[1] ELSE o[i + 1]
  BY <1>1, <1>2
<1>4. DOMAIN r = 1..n /\ \A i \in 1..n : r[i] \in 1..n
  BY <1>1, <1>3
<1>. HIDE DEF r
<1>5. r \in [1..n -> 1..n]
  <2>1. r \in [1..Len(r) -> Nat]
    BY <1>3
  <2>. QED
    BY <1>3, <1>4, <2>1
<1>6. ASSUME NEW i \in 1..n, NEW j \in 1..n, r[i] = r[j] PROVE i = j
  <2>1. \A x, y \in 1..n : o[x] = o[y] => x = y
    BY DEF Shuffles
  <2>2. 1 \in 1..n /\ (i # n => i + 1 \in 1..n) /\ (j # n => j + 1 \in 1..n)
    OBVIOUS
  <2>. DEFINE next(k) == IF k = n THEN 1 ELSE k + 1
  <2>3. next(i) \in 1..n /\ next(j) \in 1..n /\ r[i] = o[next(i)] /\ r[j] = o[next(j)]
    BY <1>3, <2>2
  <2>4. next(i) = next(j)
    BY <1>6, <2>1, <2>3
  <2>. QED
    BY <2>4
<1>. QED
  BY <1>5, <1>6 DEF Shuffles, r

\* The steps of the methods.
LEMMA LoadsOrdered ==
  ASSUME NEW n \in Nat \ {0}, NEW start \in 0..n, NEW on \in BOOLEAN, NEW rep \in Repeats, NEW q \in Loads(n, start, on, rep)
  PROVE  Ordered(q) /\ q.items = n /\ q.active
<1>1. PICK s \in 1..n : \E o \in BuildOrders(n, on, s) :
        q = [items |-> n, order |-> o, pos |-> IF on THEN 1 ELSE s, repeat |-> rep, shuffle |-> on, active |-> TRUE]
  BY DEF Loads
<1>2. PICK o \in BuildOrders(n, on, s) :
        q = [items |-> n, order |-> o, pos |-> IF on THEN 1 ELSE s, repeat |-> rep, shuffle |-> on, active |-> TRUE]
  BY <1>1
<1>3. o \in Shuffles(n)
  BY BuildsOrder
<1>4. o \in Seq(Nat) /\ Len(o) = n
  BY <1>3, OrderTyped
<1>5. q \in Queues
  BY <1>2, <1>4 DEF Queues
<1>. QED
  BY <1>2, <1>3, <1>4, <1>5 DEF Ordered, Queues

LEMMA WrapsOrdered ==
  ASSUME NEW p, Ordered(p), p.items > 0, NEW q \in Wraps(p)
  PROVE  Ordered(q) /\ q.items = p.items /\ q.active = p.active /\ q.pos = 1 /\ q.repeat = p.repeat /\ q.shuffle = p.shuffle
<1>1. CASE ~p.shuffle
  <2>1. q = [p EXCEPT !.pos = 1]
    BY <1>1 DEF Wraps
  <2>. QED
    BY <2>1 DEF Ordered, Queues
<1>2. CASE p.shuffle
  <2>1. PICK o \in BuildOrders(p.items, TRUE, p.order[1]) :
          q = [p EXCEPT !.order = IF p.items > 1 THEN Append(Tail(o), Head(o)) ELSE o, !.pos = 1]
    BY <1>2 DEF Wraps
  <2>. DEFINE r == IF p.items > 1 THEN Append(Tail(o), Head(o)) ELSE o
  <2>a. p.items \in Nat /\ TRUE \in BOOLEAN /\ o \in BuildOrders(p.items, TRUE, p.order[1])
    BY <2>1 DEF Ordered, Queues
  <2>2. p.items \in Nat /\ o \in Shuffles(p.items)
    BY <2>a, BuildsOrder
  <2>3. r \in Shuffles(p.items)
    BY <2>2, RotationIsOrder
  <2>4. r \in Seq(Nat) /\ Len(r) = p.items
    BY <2>2, <2>3, OrderTyped
  <2>5. q = [items |-> p.items, order |-> r, pos |-> 1, repeat |-> p.repeat, shuffle |-> p.shuffle, active |-> p.active]
    BY <2>1 DEF Ordered, Queues
  <2>. HIDE DEF r
  <2>6. q \in Queues
    BY <2>4, <2>5 DEF Ordered, Queues
  <2>. QED
    BY <2>3, <2>4, <2>5, <2>6 DEF Ordered, Queues
<1>. QED
  BY <1>1, <1>2

LEMMA NextsOrdered ==
  ASSUME NEW p, Ordered(p), p.active, NEW q \in Nexts(p)
  PROVE  /\ Ordered(q) /\ q.items = p.items
         /\ \/ p.pos < p.items /\ q.active /\ q.pos = p.pos + 1 /\ q.order = p.order
            \/ p.pos = p.items /\ p.repeat = "all" /\ q.active /\ q.pos = 1
            \/ p.pos = p.items /\ p.repeat # "all" /\ ~q.active /\ q.pos = p.pos /\ q.order = p.order
<1>1. p.items > 0 /\ Len(p.order) = p.items /\ p.pos \in 1..p.items /\ p.items \in Nat
  BY DEF Ordered, Queues
<1>2. CASE p.pos < p.items
  <2>1. q = [p EXCEPT !.pos = p.pos + 1]
    BY <1>1, <1>2 DEF Nexts, StepForward
  <2>. QED
    BY <1>1, <1>2, <2>1 DEF Ordered, Queues
<1>3. CASE p.pos = p.items /\ p.repeat = "all"
  <2>1. q \in Wraps(p)
    BY <1>1, <1>3 DEF Nexts, StepForward
  <2>. QED
    BY <1>1, <1>3, <2>1, WrapsOrdered
<1>4. CASE p.pos = p.items /\ p.repeat # "all"
  <2>1. q = [p EXCEPT !.active = FALSE, !.pos = p.pos]
    BY <1>1, <1>4 DEF Nexts, StepForward
  <2>. QED
    BY <1>1, <1>4, <2>1 DEF Ordered, Queues
<1>. QED
  BY <1>1, <1>2, <1>3, <1>4

LEMMA PrevOrdered ==
  ASSUME NEW p, Ordered(p), p.active
  PROVE  Ordered(Prev(p)) /\ Prev(p).items = p.items /\ Prev(p).order = p.order /\ Prev(p).active
<1>1. p.items > 0 /\ Len(p.order) = p.items /\ p.pos \in 1..p.items /\ p.items \in Nat
  BY DEF Ordered, Queues
<1>. DEFINE x == IF p.pos > 1 THEN p.pos - 1 ELSE IF p.repeat = "all" THEN p.items ELSE 1
<1>2. Prev(p) = [p EXCEPT !.pos = x] /\ x \in 1..p.items
  BY <1>1 DEF Prev
<1>. HIDE DEF x
<1>. QED
  BY <1>1, <1>2 DEF Ordered, Queues

LEMMA CurrentTrack ==
  ASSUME NEW q, Ordered(q)
  PROVE  Current(q) = (IF q.active THEN q.order[q.pos] ELSE 0) /\ (q.active => q.items > 0 /\ Current(q) \in 1..q.items)
<1>1. q.active => q.items > 0 /\ q.pos \in 1..q.items
  BY DEF Ordered, Queues
<1>2. q.items \in Nat /\ DOMAIN q.order = 1..q.items /\ \A i \in 1..q.items : q.order[i] \in 1..q.items
  BY OrderTyped DEF Ordered, Queues
<1>. QED
  BY <1>1, <1>2 DEF Current

LEMMA SetShufflesOrdered ==
  ASSUME NEW p, Ordered(p), NEW on \in BOOLEAN, NEW q \in SetShuffles(p, on)
  PROVE  /\ Ordered(q) /\ q.items = p.items /\ q.active = p.active
         /\ p.shuffle = on => q.order = p.order /\ q.pos = p.pos
<1>1. CASE p.shuffle = on \/ p.items = 0
  <2>1. q = [p EXCEPT !.shuffle = on]
    BY <1>1 DEF SetShuffles
  <2>2. ASSUME p.shuffle # on PROVE p.items = 0
    BY <1>1, <2>2
  <2>. QED
    BY <2>1, <2>2 DEF Ordered, Queues
<1>2. CASE ~(p.shuffle = on \/ p.items = 0)
  <2>. DEFINE cur == IF Current(p) # 0 THEN Current(p) ELSE 1
  <2>1. PICK o \in BuildOrders(p.items, on, cur) : q = [p EXCEPT !.shuffle = on, !.order = o, !.pos = IF on THEN 1 ELSE cur]
    BY <1>2 DEF SetShuffles
  <2>2. p.items \in Nat \ {0} /\ cur \in 1..p.items
    BY <1>2, CurrentTrack DEF Ordered, Queues
  <2>. HIDE DEF cur
  <2>3. o \in Shuffles(p.items)
    BY <2>2, BuildsOrder
  <2>4. o \in Seq(Nat) /\ Len(o) = p.items
    BY <2>2, <2>3, OrderTyped
  <2>. DEFINE x == IF on THEN 1 ELSE cur
  <2>5. x \in 1..p.items
    BY <2>2
  <2>6. q = [items |-> p.items, order |-> o, pos |-> x, repeat |-> p.repeat, shuffle |-> on, active |-> p.active]
    BY <2>1 DEF Ordered, Queues
  <2>. HIDE DEF x
  <2>7. q \in Queues
    BY <2>4, <2>5, <2>6 DEF Ordered, Queues
  <2>. QED
    BY <1>2, <2>2, <2>3, <2>4, <2>5, <2>6, <2>7 DEF Ordered, Queues
<1>. QED
  BY <1>1, <1>2

LEMMA EmptyOrdered ==
  ASSUME NEW rep \in Repeats, NEW on \in BOOLEAN
  PROVE  Ordered([items |-> 0, order |-> <<>>, pos |-> 1, repeat |-> rep, shuffle |-> on, active |-> FALSE])
<1>. DEFINE q == [items |-> 0, order |-> <<>>, pos |-> 1, repeat |-> rep, shuffle |-> on, active |-> FALSE]
<1>1. <<>> \in Seq(Nat) /\ Len(<<>>) = 0 /\ FALSE \in BOOLEAN
  OBVIOUS
<1>2. <<>> \in Shuffles(0)
  BY DEF Shuffles
<1>3. q \in Queues
  BY <1>1 DEF Queues
<1>4. q.items = 0 /\ q.order = <<>> /\ q.pos = 1 /\ ~q.active
  OBVIOUS
<1>. HIDE DEF q
<1>5. Ordered(q)
  BY <1>1, <1>2, <1>3, <1>4 DEF Ordered
<1>. QED
  BY <1>5 DEF q

LEMMA ClearedOrdered ==
  ASSUME NEW p, Ordered(p), NEW q, q = Cleared(p)
  PROVE  Ordered(q) /\ q.items = 0 /\ ~q.active
<1>1. p.repeat \in Repeats /\ p.shuffle \in BOOLEAN
  BY DEF Ordered, Queues
<1>2. q = [items |-> 0, order |-> <<>>, pos |-> 1, repeat |-> p.repeat, shuffle |-> p.shuffle, active |-> FALSE]
  BY DEF Cleared, Ordered, Queues
<1>. QED
  BY <1>1, <1>2, EmptyOrdered

LEMMA InitLap == LapInit => LapIInv
<1>. SUFFICES ASSUME LapInit PROVE LapIInv
  OBVIOUS
<1>1. Ordered(Emptied)
  <2>1. "off" \in Repeats /\ FALSE \in BOOLEAN
    BY DEF Repeats
  <2>. QED
    BY <2>1, EmptyOrdered DEF Emptied
<1>. QED
  <2>1. laps = Emptied /\ lap = {} /\ straight = FALSE /\ Emptied.items = 0
    BY DEF LapInit, Emptied
  <2>2. Ordered(laps) /\ laps.items \in 0..LapTracks /\ lap \subseteq 1..laps.items
    BY <1>1, <2>1, LapTracksAssumption
  <2>3. straight \in BOOLEAN /\ ~straight
    BY <2>1
  <2>. QED
    BY <2>2, <2>3 DEF LapIInv

\* At the end of a lap the tracks up to the position are all.
LEMMA LapHolds == LapIInv => LapInv
<1>. SUFFICES ASSUME LapIInv PROVE LapInv
  OBVIOUS
<1>1. LapTypeOK
  BY DEF LapIInv, LapTypeOK, Ordered, Shuffles, Queues
<1>2. LapPlaysAll
  <2>1. laps.items \in Nat /\ laps.order \in Shuffles(laps.items)
    BY DEF LapIInv, Ordered
  <2>2. {laps.order[i] : i \in 1..laps.items} = 1..laps.items
    BY <2>1, OrderIsOnto
  <2>. QED
    BY <2>2 DEF LapIInv, LapPlaysAll, Played
<1>. QED
  BY <1>1, <1>2 DEF LapInv

\* A new lap has played the track it stands on, and that is all before the position if it begins in front.
LEMMA NewLapKept ==
  ASSUME Ordered(laps'), laps'.items \in 0..LapTracks, NewLap(laps')
  PROVE  LapIInv'
<1>1. Current(laps') = (IF laps'.active THEN laps'.order[laps'.pos] ELSE 0) /\ (laps'.active => laps'.items > 0 /\ Current(laps') \in 1..laps'.items)
  BY CurrentTrack
<1>2. lap' = {Current(laps')} \ {0} /\ straight' = (laps'.active /\ laps'.pos = 1)
  BY DEF NewLap
<1>3. lap' \subseteq 1..laps'.items
  BY <1>1, <1>2
<1>4. ASSUME straight' PROVE laps'.items > 0 /\ lap' = Played(laps')
  <2>1. laps'.active /\ laps'.pos = 1 /\ laps'.items > 0 /\ laps'.items \in Nat
    BY <1>1, <1>2, <1>4 DEF Ordered, Queues
  <2>2. lap' = {laps'.order[1]}
    BY <1>1, <1>2, <2>1
  <2>. QED
    BY <2>1, <2>2 DEF Played
<1>5. straight' \in BOOLEAN
  BY <1>2
<1>. QED
  BY <1>3, <1>4, <1>5 DEF LapIInv

LEMMA ForwardStep ==
  ASSUME LapIInv, LapSkip \/ LapNatural
  PROVE  LapIInv'
<1>1. laps.active /\ Ordered(laps) /\ laps.items \in 0..LapTracks
  BY DEF LapSkip, LapNatural, Forward, LapIInv
<1>2. PICK q \in Nexts(laps) \cup {laps} :
        /\ laps' = q /\ (q \notin Nexts(laps) => q = laps /\ laps.repeat = "one")
        /\ IF q.active /\ laps.pos = Len(laps.order) /\ q.pos = 1 /\ laps.repeat = "all" THEN NewLap(q) ELSE SameLap(q)
  BY <1>1 DEF LapSkip, LapNatural, Forward, AdvanceNaturals
<1>a. laps.items > 0 /\ laps.pos \in 1..laps.items /\ Len(laps.order) = laps.items /\ laps.items \in Nat
  BY <1>1 DEF Ordered, Queues
<1>3. CASE q \in Nexts(laps) /\ laps.pos = laps.items /\ laps.repeat = "all"
  <2>1. Ordered(q) /\ q.items = laps.items /\ q.active /\ q.pos = 1
    BY <1>1, <1>a, <1>3, NextsOrdered
  <2>. QED
    BY <1>1, <1>2, <1>a, <1>3, <2>1, NewLapKept
<1>4. CASE q \in Nexts(laps) /\ laps.pos < laps.items
  <2>1. Ordered(q) /\ q.items = laps.items /\ q.active /\ q.pos = laps.pos + 1 /\ q.order = laps.order
    BY <1>1, <1>a, <1>4, NextsOrdered
  <2>2. SameLap(q)
    BY <1>2, <1>a, <1>4
  <2>3. lap' = lap \cup {laps.order[laps.pos + 1]} /\ straight' = straight /\ laps.order[laps.pos + 1] \in 1..laps.items
    <3>1. Current(q) = laps.order[laps.pos + 1] /\ Current(q) \in 1..laps.items
      BY <2>1, CurrentTrack
    <3>. QED
      BY <3>1, <2>2 DEF SameLap
  <2>4. Played(q) = Played(laps) \cup {laps.order[laps.pos + 1]}
    BY <2>1, <1>a DEF Played
  <2>. QED
    BY <1>1, <1>2, <2>1, <2>3, <2>4 DEF LapIInv
<1>5. CASE q \in Nexts(laps) /\ laps.pos = laps.items /\ laps.repeat # "all"
  <2>1. Ordered(q) /\ q.items = laps.items /\ ~q.active /\ q.pos = laps.pos /\ q.order = laps.order
    BY <1>1, <1>a, <1>5, NextsOrdered
  <2>2. Current(q) = 0
    BY <2>1, CurrentTrack
  <2>3. lap' = lap /\ straight' = straight
    BY <1>2, <1>5, <2>2 DEF SameLap
  <2>4. Played(q) = Played(laps)
    BY <2>1 DEF Played
  <2>. QED
    BY <1>1, <1>2, <2>1, <2>3, <2>4 DEF LapIInv
<1>6. CASE q = laps /\ laps.repeat = "one"
  <2>1. Current(laps) = laps.order[laps.pos] /\ Current(laps) \in 1..laps.items
    BY <1>1, CurrentTrack
  <2>2. lap' = lap \cup {laps.order[laps.pos]} /\ straight' = straight /\ laps' = laps
    BY <1>2, <1>6, <2>1 DEF SameLap
  <2>3. laps.order[laps.pos] \in Played(laps)
    BY <1>a DEF Played
  <2>. QED
    BY <2>1, <2>2, <2>3 DEF LapIInv
<1>. QED
  BY <1>2, <1>a, <1>3, <1>4, <1>5, <1>6

LEMMA LapStep ==
  ASSUME LapIInv, [LapNext]_lapVars
  PROVE  LapIInv'
<1>0. Ordered(laps) /\ laps.items \in 0..LapTracks
  BY DEF LapIInv
<1>1. CASE LapLoad
  <2>1. PICK n \in 1..LapTracks, on \in BOOLEAN, rep \in Repeats : \E start \in 0..n : laps' \in Loads(n, start, on, rep) /\ NewLap(laps')
    BY <1>1 DEF LapLoad
  <2>2. PICK start \in 0..n : laps' \in Loads(n, start, on, rep) /\ NewLap(laps')
    BY <2>1
  <2>3. n \in Nat \ {0} /\ n \in 0..LapTracks
    BY LapTracksAssumption
  <2>4. Ordered(laps') /\ laps'.items = n
    BY <2>2, <2>3, LoadsOrdered
  <2>. QED
    BY <2>2, <2>3, <2>4, NewLapKept
<1>2. CASE LapSkip \/ LapNatural
  BY <1>2, ForwardStep
<1>3. CASE LapPrev
  <2>1. laps.active /\ laps' = Prev(laps) /\ lap' = lap \cup {Current(laps')} /\ straight' = FALSE
    BY <1>3 DEF LapPrev
  <2>2. Ordered(laps') /\ laps'.items = laps.items /\ laps'.active
    BY <1>0, <2>1, PrevOrdered
  <2>3. Current(laps') \in 1..laps.items
    BY <2>2, CurrentTrack
  <2>. QED
    BY <1>0, <2>1, <2>2, <2>3 DEF LapIInv
<1>4. CASE LapShuffle
  <2>1. PICK on \in BOOLEAN : \E q \in SetShuffles(laps, on) :
          laps' = q /\ IF laps.shuffle = on THEN UNCHANGED <<lap, straight>> ELSE NewLap(q)
    BY <1>4 DEF LapShuffle
  <2>2. laps' \in SetShuffles(laps, on) /\ IF laps.shuffle = on THEN UNCHANGED <<lap, straight>> ELSE NewLap(laps')
    BY <2>1
  <2>3. Ordered(laps') /\ laps'.items = laps.items /\ (laps.shuffle = on => laps'.order = laps.order /\ laps'.pos = laps.pos)
    BY <1>0, <2>2, SetShufflesOrdered
  <2>4. CASE laps.shuffle = on
    BY <1>0, <2>2, <2>3, <2>4 DEF LapIInv, Played
  <2>5. CASE laps.shuffle # on
    BY <1>0, <2>2, <2>3, <2>5, NewLapKept
  <2>. QED
    BY <2>4, <2>5
<1>5. CASE LapRepeat
  <2>1. PICK rep \in Repeats : laps' = [laps EXCEPT !.repeat = rep] /\ UNCHANGED <<lap, straight>>
    BY <1>5 DEF LapRepeat
  <2>2. Ordered(laps') /\ laps'.items = laps.items /\ laps'.order = laps.order /\ laps'.pos = laps.pos
    BY <1>0, <2>1 DEF Ordered, Queues
  <2>. QED
    BY <1>0, <2>1, <2>2 DEF LapIInv, Played
<1>6. CASE LapClear
  <2>1. laps' = Cleared(laps) /\ lap' = {} /\ straight' = FALSE
    BY <1>6 DEF LapClear
  <2>4. Ordered(laps') /\ laps'.items = 0
    BY <1>0, <2>1, ClearedOrdered
  <2>. QED
    <3>1. laps'.items \in 0..LapTracks /\ lap' \subseteq 1..laps'.items
      BY <2>1, <2>4, LapTracksAssumption
    <3>2. straight' \in BOOLEAN /\ ~straight'
      BY <2>1
    <3>. QED
      BY <2>4, <3>1, <3>2 DEF LapIInv
<1>7. CASE UNCHANGED lapVars
  BY <1>7 DEF lapVars, LapIInv, Ordered, Played
<1>. QED
  BY <1>1, <1>2, <1>3, <1>4, <1>5, <1>6, <1>7 DEF LapNext

-----------------------------------------------------------------------------
(***************************************************************************)
(* The queue, its watcher and the speaker.                                 *)
(***************************************************************************)

DeckStates == {"idle", "BUFFERING", "PLAY", "PAUSE", "STOP", "STANDBY"}
WatcherType ==
  [pc : {"off", "sleep", "poll", "lock", "stop", "cancel", "push"}, done : BOOLEAN, gen : Nat, from : Nat,
   saw : BOOLEAN, last : 0..TrackLen, frozen : Nat, polled : DeckStates \cup {"none"}]
DeckType ==
  [source : {"none", "queue", "single"}, push : 0..MaxPushes, state : DeckStates, pos : 0..TrackLen, held : {"no", "pause", "slow"}]

QueueTypes ==
  /\ Ordered(queue) /\ queue.items \in {0, MaxTracks} /\ queueGen \in Nat /\ queueAge \in 0..NetAfter
  /\ queueCancel \in Watchers \cup {"none"} /\ queueMu \in Watchers \cup {Free, "user"}
  /\ watchers \in [Watchers -> WatcherType] /\ deck \in DeckType /\ queueFacts \in [length : BOOLEAN, position : BOOLEAN]

\* Whoever pushes holds boxCmdMu, and a skip past the end leaves nothing to advance.
Locks ==
  /\ asking \in {"start", "play"} => queueMu = "user" /\ deck.push < MaxPushes
  /\ asking = "skip" => (queueMu = "user" /\ deck.push < MaxPushes) \/ (queueMu = Free /\ ~queue.active)
  /\ \A i \in Watchers : watchers[i].pc = "push" => queueMu = i

\* A watcher that has not been told to end is the one that can be told.
LiveIsKnown == \A i \in Watchers : watchers[i].pc # "off" /\ ~watchers[i].done => queueCancel = i

\* What a watcher of this generation knows of the track on the speaker.
Knows(i) ==
  LET w == watchers[i] IN
  /\ w.gen <= queueGen /\ (w.last > 0 => queueFacts.position)
  /\ w.gen = queueGen /\ deck.source = "queue" =>
       /\ w.pc \in {"poll", "lock"} => w.from = deck.push
       /\ deck.held = "no" =>
            /\ w.last <= deck.pos /\ (w.frozen > 0 => deck.pos > w.last \/ deck.pos = TrackLen)
            /\ w.pc = "lock" /\ w.polled = "PLAY" => deck.pos = TrackLen

\* A track that was not held up has come as far as time has.
OnTime == deck.source = "queue" /\ deck.held = "no" => deck.pos = TrackLen \/ deck.pos >= queueAge

QueueIInv == QueueTypes /\ Locks /\ LiveIsKnown /\ (\A i \in Watchers : Knows(i)) /\ OnTime

LEMMA InitQueue == PlayingInit => QueueIInv
<1>. SUFFICES ASSUME PlayingInit PROVE QueueIInv
  OBVIOUS
<1>0. /\ queue = Emptied /\ queueGen = 0 /\ queueAge = 0 /\ queueCancel = "none" /\ queueMu = Free /\ asking = "none"
      /\ watchers = [i \in Watchers |-> Resting] /\ queueFacts \in [length : BOOLEAN, position : BOOLEAN]
      /\ deck = [source |-> "none", push |-> 0, state |-> "idle", pos |-> 0, held |-> "no"]
  BY DEF PlayingInit, QueueInit
<1>1. Ordered(queue) /\ queue.items = 0 /\ ~queue.active
  <2>1. "off" \in Repeats /\ FALSE \in BOOLEAN
    BY DEF Repeats
  <2>. QED
    BY <1>0, <2>1, EmptyOrdered DEF Emptied
<1>2. Resting \in WatcherType
  <2>1. FALSE \in BOOLEAN /\ 0 \in 0..TrackLen
    BY QueueAssumption
  <2>. QED
    BY <2>1 DEF Resting, WatcherType
<1>3. deck \in DeckType
  BY <1>0, QueueAssumption DEF DeckType, DeckStates
<1>4. QueueTypes
  <2>1. queueAge \in 0..NetAfter
    BY <1>0, QueueAssumption DEF NetAfter
  <2>. QED
    BY <1>0, <1>1, <1>2, <1>3, <2>1 DEF QueueTypes
<1>5. Locks /\ LiveIsKnown
  BY <1>0 DEF Locks, LiveIsKnown, Resting
<1>6. \A i \in Watchers : Knows(i)
  BY <1>0 DEF Knows, Resting
<1>7. OnTime
  BY <1>0 DEF OnTime
<1>. QED
  BY <1>4, <1>5, <1>6, <1>7 DEF QueueIInv

LEMMA QueueHolds == QueueIInv => QueueInv
<1>. SUFFICES ASSUME QueueIInv PROVE QueueInv
  OBVIOUS
<1>1. QueueTypeOK
  <2>1. queue.active => Current(queue) \in 1..MaxTracks
    BY CurrentTrack DEF QueueIInv, QueueTypes
  <2>. QED
    BY <2>1 DEF QueueTypeOK, QueueIInv, QueueTypes, DeckType, WatcherType
<1>2. LoneWatcher
  BY DEF LoneWatcher, QueueIInv, LiveIsKnown
<1>. QED
  BY <1>1, <1>2 DEF QueueInv

\* To be told to end changes nothing else of a watcher.
LEMMA Cancels ==
  ASSUME QueueTypes
  PROVE  /\ CancelWatcher(watchers) \in [Watchers -> WatcherType]
         /\ \A i \in Watchers : CancelWatcher(watchers)[i] = [watchers[i] EXCEPT !.done = @ \/ i = queueCancel]
<1>. SUFFICES ASSUME NEW i \in Watchers
              PROVE  CancelWatcher(watchers)[i] \in WatcherType /\ CancelWatcher(watchers)[i] = [watchers[i] EXCEPT !.done = @ \/ i = queueCancel]
  BY DEF CancelWatcher
<1>1. watchers[i] \in WatcherType
  BY DEF QueueTypes
<1>2. CASE i = queueCancel
  <2>1. CancelWatcher(watchers)[i] = [watchers[i] EXCEPT !.done = TRUE]
    BY <1>2 DEF CancelWatcher
  <2>2. [watchers[i] EXCEPT !.done = TRUE] \in WatcherType
    BY <1>1 DEF WatcherType
  <2>. QED
    BY <1>1, <1>2, <2>1, <2>2
<1>3. CASE i # queueCancel
  <2>1. CancelWatcher(watchers)[i] = watchers[i]
    BY <1>3 DEF CancelWatcher
  <2>2. [watchers[i] EXCEPT !.done = @ \/ i = queueCancel] = watchers[i]
    BY <1>1, <1>3 DEF WatcherType
  <2>. QED
    BY <1>1, <2>1, <2>2
<1>. QED
  BY <1>2, <1>3

\* What a watcher knows it goes on knowing while the track stays, and a new one is none of its business.
SameWatcher(v, w) == /\ v.pc = w.pc /\ v.gen = w.gen /\ v.from = w.from /\ v.last = w.last /\ v.frozen = w.frozen /\ v.polled = w.polled
SameTrack == deck'.source = deck.source /\ deck'.push = deck.push /\ deck'.pos = deck.pos /\ deck'.held = deck.held /\ queueGen' = queueGen
OtherTrack == queueGen' = queueGen + 1 \/ (queueGen' = queueGen /\ deck'.source = "single")

LEMMA KnowsKept ==
  ASSUME QueueIInv, NEW i \in Watchers, SameWatcher(watchers'[i], watchers[i]), SameTrack \/ OtherTrack, queueFacts' = queueFacts
  PROVE  Knows(i)'
<1>0. Knows(i) /\ queueGen \in Nat
  BY DEF QueueIInv, QueueTypes
<1>a. watchers[i].gen \in Nat
  BY DEF QueueIInv, QueueTypes, WatcherType
<1>1. CASE SameTrack
  BY <1>0, <1>1 DEF SameTrack, SameWatcher, Knows
<1>2. CASE OtherTrack
  BY <1>0, <1>a, <1>2 DEF OtherTrack, SameWatcher, Knows
<1>. QED
  BY <1>1, <1>2

\* A watcher at rest knows nothing.
LEMMA RestingKnows ==
  ASSUME QueueIInv, NEW i \in Watchers, watchers'[i] = Resting \/ watchers'[i] = [Resting EXCEPT !.pc = "sleep"],
         queueGen' \in Nat, deck' \in DeckType
  PROVE  Knows(i)'
  BY DEF Knows, Resting, DeckType

LEMMA RestingTyped == Resting \in WatcherType /\ [Resting EXCEPT !.pc = "sleep"] \in WatcherType
<1>1. FALSE \in BOOLEAN /\ 0 \in 0..TrackLen
  BY QueueAssumption
<1>. QED
  BY <1>1 DEF Resting, WatcherType

\* A new track on the speaker, with the timing it starts.
LEMMA Puts ==
  ASSUME QueueIInv, NEW src \in {"queue", "single"}, Put(src), deck.push < MaxPushes
  PROVE  deck' \in DeckType /\ deck'.source = src /\ deck'.push = deck.push + 1 /\ deck'.pos = 0
<1>1. deck.push + 1 \in 0..MaxPushes
  BY QueueAssumption DEF QueueIInv, QueueTypes, DeckType
<1>. QED
  BY <1>1, QueueAssumption DEF Put, DeckType, DeckStates

LEMMA PushLeaves ==
  ASSUME QueueIInv, NEW ok \in BOOLEAN, PushStream(ok), deck.push < MaxPushes
  PROVE  /\ deck' \in DeckType /\ queueAge' \in 0..NetAfter /\ queueGen' \in Nat /\ OnTime'
         /\ OtherTrack \/ (SameTrack /\ queueAge' = queueAge)
<1>0. deck \in DeckType /\ queueAge \in 0..NetAfter /\ queueGen \in Nat /\ OnTime
  BY DEF QueueIInv, QueueTypes
<1>1. CASE ok
  <2>1. Put("queue") /\ queueGen' = queueGen + 1 /\ queueAge' = 0
    BY <1>1 DEF PushStream, SetQueueTiming
  <2>2. deck' \in DeckType /\ deck'.pos = 0
    BY <2>1, Puts
  <2>. QED
    BY <1>0, <2>1, <2>2, QueueAssumption DEF OnTime, OtherTrack, NetAfter
<1>2. CASE ~ok
  BY <1>0, <1>2 DEF PushStream, OnTime, SameTrack
<1>. QED
  BY <1>1, <1>2

\* The commands of the user.  A step of theirs cancels a watcher or starts one; what it leaves to show:
UserMoves ==
  /\ watchers' \in [Watchers -> WatcherType] /\ queueFacts' = queueFacts
  /\ \A i \in Watchers : \/ SameWatcher(watchers'[i], watchers[i])
                         \/ watchers'[i] = Resting \/ watchers'[i] = [Resting EXCEPT !.pc = "sleep"]
  /\ SameTrack \/ OtherTrack

LEMMA UserKnows ==
  ASSUME QueueIInv, UserMoves, deck' \in DeckType, queueGen' \in Nat
  PROVE  \A i \in Watchers : Knows(i)'
<1>. SUFFICES ASSUME NEW i \in Watchers PROVE Knows(i)'
  OBVIOUS
<1>1. CASE SameWatcher(watchers'[i], watchers[i])
  BY <1>1, KnowsKept DEF UserMoves
<1>2. CASE ~SameWatcher(watchers'[i], watchers[i])
  BY <1>2, RestingKnows DEF UserMoves
<1>. QED
  BY <1>1, <1>2

LEMMA SameIsSame ==
  ASSUME QueueTypes
  PROVE  /\ \A i \in Watchers : SameWatcher(watchers[i], watchers[i])
         /\ \A i \in Watchers : /\ SameWatcher(CancelWatcher(watchers)[i], watchers[i])
                                /\ CancelWatcher(watchers)[i].done = (watchers[i].done \/ i = queueCancel)
<1>. SUFFICES ASSUME NEW i \in Watchers
              PROVE  /\ SameWatcher(watchers[i], watchers[i])
                     /\ SameWatcher(CancelWatcher(watchers)[i], watchers[i])
                     /\ CancelWatcher(watchers)[i].done = (watchers[i].done \/ i = queueCancel)
  OBVIOUS
<1>1. CancelWatcher(watchers)[i] = [watchers[i] EXCEPT !.done = @ \/ i = queueCancel]
  BY Cancels
<1>2. watchers[i] \in WatcherType
  BY DEF QueueTypes
<1>. QED
  BY <1>1, <1>2 DEF SameWatcher, WatcherType

\* After a cancel no watcher runs on that has not been told.
LEMMA CancelMoves ==
  ASSUME QueueIInv, watchers' = CancelWatcher(watchers), queueCancel' = "none"
  PROVE  /\ watchers' \in [Watchers -> WatcherType] /\ LiveIsKnown'
         /\ \A i \in Watchers : SameWatcher(watchers'[i], watchers[i])
<1>0. QueueTypes /\ LiveIsKnown
  BY DEF QueueIInv
<1>1. watchers' \in [Watchers -> WatcherType]
  BY <1>0, Cancels
<1>2. \A i \in Watchers : /\ SameWatcher(watchers'[i], watchers[i])
                          /\ watchers'[i].done = (watchers[i].done \/ i = queueCancel)
  BY <1>0, SameIsSame
<1>3. \A i \in Watchers : watchers'[i].pc # "off" => watchers'[i].done
  BY <1>0, <1>2 DEF LiveIsKnown, SameWatcher
<1>. QED
  BY <1>1, <1>2, <1>3 DEF LiveIsKnown

LEMMA EnsureMoves ==
  ASSUME QueueIInv, EnsureWatcher
  PROVE  /\ watchers' \in [Watchers -> WatcherType] /\ LiveIsKnown' /\ queueCancel' \in Watchers \cup {"none"}
         /\ \A i \in Watchers : \/ SameWatcher(watchers'[i], watchers[i])
                                \/ watchers'[i] = [Resting EXCEPT !.pc = "sleep"]
<1>0. QueueTypes /\ LiveIsKnown /\ watchers \in [Watchers -> WatcherType] /\ queueCancel \in Watchers \cup {"none"}
  BY DEF QueueIInv, QueueTypes
<1>1. \A i \in Watchers : SameWatcher(watchers[i], watchers[i])
  BY <1>0, SameIsSame
<1>2. CASE queueCancel # "none"
  BY <1>0, <1>1, <1>2 DEF EnsureWatcher, LiveIsKnown
<1>3. CASE queueCancel = "none"
  <2>1. PICK i \in Watchers : queueCancel' = i /\ watchers' = [watchers EXCEPT ![i] = [Resting EXCEPT !.pc = "sleep"]]
    BY <1>3 DEF EnsureWatcher
  <2>2. watchers' \in [Watchers -> WatcherType]
    BY <1>0, <2>1, RestingTyped
  <2>3. watchers'[i] = [Resting EXCEPT !.pc = "sleep"] /\ \A j \in Watchers : j # i => watchers'[j] = watchers[j]
    BY <1>0, <2>1
  <2>4. \A j \in Watchers : j # i => watchers[j].pc = "off" \/ watchers[j].done
    BY <1>0, <1>3 DEF LiveIsKnown, Watchers
  <2>5. LiveIsKnown'
    BY <2>1, <2>3, <2>4 DEF LiveIsKnown
  <2>. QED
    BY <1>1, <2>1, <2>2, <2>3, <2>5
<1>. QED
  BY <1>2, <1>3

\* A list that is loaded, moved on or dropped.
LEMMA ListMoves ==
  ASSUME QueueTypes, NEW q, \/ \E rep \in QueueRepeats : q \in Loads(MaxTracks, 1, FALSE, rep)
                            \/ queue.active /\ q \in Nexts(queue) \cup {Prev(queue)}
                            \/ q \in AdvanceNaturals(queue)
                            \/ q = Cleared(queue)
  PROVE  Ordered(q) /\ q.items \in {0, MaxTracks} /\ (q \in AdvanceNaturals(queue) /\ ~queue.active => ~q.active)
<1>0. Ordered(queue) /\ queue.items \in {0, MaxTracks}
  BY DEF QueueTypes
<1>1. ASSUME \E rep \in QueueRepeats : q \in Loads(MaxTracks, 1, FALSE, rep) PROVE Ordered(q) /\ q.items = MaxTracks
  <2>1. PICK rep \in QueueRepeats : q \in Loads(MaxTracks, 1, FALSE, rep)
    BY <1>1
  <2>2. MaxTracks \in Nat \ {0} /\ 1 \in 0..MaxTracks /\ rep \in Repeats
    BY QueueAssumption DEF Repeats
  <2>3. PICK on \in BOOLEAN : on = FALSE
    OBVIOUS
  <2>4. q \in Loads(MaxTracks, 1, on, rep)
    BY <2>1, <2>3
  <2>. QED
    BY <2>2, <2>4, LoadsOrdered
<1>2. ASSUME queue.active, q \in Nexts(queue) PROVE Ordered(q) /\ q.items = queue.items
  BY <1>0, <1>2, NextsOrdered
<1>3. ASSUME queue.active PROVE Ordered(Prev(queue)) /\ Prev(queue).items = queue.items
  BY <1>0, <1>3, PrevOrdered
<1>4. ASSUME q \in AdvanceNaturals(queue) PROVE q = queue \/ (queue.active /\ q \in Nexts(queue))
  BY <1>4 DEF AdvanceNaturals, Nexts
<1>5. ASSUME q \in AdvanceNaturals(queue), ~queue.active PROVE q = queue
  BY <1>5 DEF AdvanceNaturals, Nexts
<1>6. ASSUME q = Cleared(queue) PROVE Ordered(q) /\ q.items = 0 /\ ~q.active
  BY <1>0, <1>6, ClearedOrdered
<1>. QED
  BY <1>0, <1>1, <1>2, <1>3, <1>4, <1>5, <1>6

\* What makes the invariant of a step that starts or cancels a watcher, or puts something on the speaker.
ListTyped == Ordered(queue') /\ queue'.items \in {0, MaxTracks} /\ queueMu' \in Watchers \cup {Free, "user"}

LEMMA UserLeaves ==
  ASSUME QueueIInv, ListTyped, Locks', UserMoves, LiveIsKnown', queueCancel' \in Watchers \cup {"none"},
         deck' \in DeckType, queueGen' \in Nat, queueAge' \in 0..NetAfter, OnTime'
  PROVE  QueueIInv'
<1>1. \A i \in Watchers : Knows(i)'
  BY UserKnows
<1>2. QueueTypes'
  BY DEF QueueIInv, QueueTypes, ListTyped, UserMoves
<1>. QED
  BY <1>1, <1>2 DEF QueueIInv

LEMMA StillLeaves ==
  ASSUME QueueIInv, ListTyped, Locks', UNCHANGED <<queueGen, queueAge, queueCancel, watchers, queueFacts>>,
         deck' \in DeckType, SameTrack
  PROVE  QueueIInv'
<1>0. QueueTypes /\ LiveIsKnown /\ OnTime
  BY DEF QueueIInv
<1>1. UserMoves
  BY <1>0, SameIsSame DEF UserMoves, QueueTypes
<1>2. LiveIsKnown' /\ OnTime'
  BY <1>0 DEF LiveIsKnown, OnTime, SameTrack
<1>. QED
  BY <1>0, <1>1, <1>2, UserLeaves DEF QueueTypes

LEMMA CancelLeaves ==
  ASSUME QueueIInv, ListTyped, Locks', watchers' = CancelWatcher(watchers), queueCancel' = "none",
         UNCHANGED <<queueGen, queueAge, queueFacts>>, deck' \in DeckType, SameTrack
  PROVE  QueueIInv'
<1>0. QueueTypes /\ OnTime
  BY DEF QueueIInv
<1>1. UserMoves /\ LiveIsKnown'
  BY CancelMoves DEF UserMoves
<1>2. OnTime'
  BY <1>0 DEF OnTime, SameTrack
<1>. QED
  BY <1>0, <1>1, <1>2, UserLeaves DEF QueueTypes

LEMMA CancelPcs ==
  ASSUME QueueIInv, watchers' = CancelWatcher(watchers)
  PROVE  \A i \in Watchers : watchers'[i].pc = watchers[i].pc
  BY SameIsSame DEF QueueIInv, SameWatcher

\* Nobody pushes while boxCmdMu is free or the user's.
LEMMA NobodyPushes ==
  ASSUME QueueIInv, queueMu \in {Free, "user"}
  PROVE  \A i \in Watchers : watchers[i].pc # "push"
  BY DEF QueueIInv, Locks, Watchers, Free

LEMMA AsksStep ==
  ASSUME QueueIInv, StartQueue \/ QueueSkip \/ SinglePlay \/ UserStop \/ PowerOffSpeaker \/ KeyPush
  PROVE  QueueIInv'
<1>0. /\ QueueTypes /\ Locks /\ deck \in DeckType /\ queueMu \in Watchers \cup {Free, "user"} /\ queueFacts' = queueFacts
      /\ Ordered(queue) /\ queue.items \in {0, MaxTracks} /\ watchers \in [Watchers -> WatcherType]
  BY DEF QueueIInv, QueueTypes, StartQueue, QueueSkip, SinglePlay, UserStop, PowerOffSpeaker, KeyPush
<1>a. \A q : q = Cleared(queue) => Ordered(q) /\ q.items = 0 /\ ~q.active
  BY <1>0, ClearedOrdered
<1>1. CASE StartQueue
  <2>1. /\ asking' = "start" /\ deck.push < MaxPushes /\ queueMu = Free /\ queueMu' = "user"
        /\ UNCHANGED <<queueGen, queueAge, queueCancel, watchers, deck, queueFacts>>
    BY <1>1 DEF StartQueue, Asks
  <2>2. \E rep \in QueueRepeats : queue' \in Loads(MaxTracks, 1, FALSE, rep)
    BY <1>1 DEF StartQueue
  <2>3. ListTyped
    BY <1>0, <2>1, <2>2, ListMoves DEF ListTyped
  <2>4. Locks'
    BY <2>1, NobodyPushes DEF Locks
  <2>. QED
    BY <1>0, <2>1, <2>3, <2>4, StillLeaves DEF SameTrack
<1>2. CASE QueueSkip
  <2>1. PICK q \in Nexts(queue) \cup {Prev(queue)} :
          /\ queue' = q
          /\ IF q.active THEN queueMu' = "user" /\ UNCHANGED <<watchers, queueCancel>>
             ELSE watchers' = CancelWatcher(watchers) /\ queueCancel' = "none" /\ UNCHANGED queueMu
    BY <1>2 DEF QueueSkip
  <2>2. /\ asking' = "skip" /\ deck.push < MaxPushes /\ queueMu = Free /\ queue.active /\ UNCHANGED <<queueGen, queueAge, deck, queueFacts>>
    BY <1>2 DEF QueueSkip, Asks
  <2>3. ListTyped
    BY <1>0, <2>1, <2>2, ListMoves DEF ListTyped
  <2>4. CASE q.active
    <3>1. Locks'
      BY <2>1, <2>2, <2>4, NobodyPushes DEF Locks
    <3>. QED
      BY <1>0, <2>1, <2>2, <2>3, <2>4, <3>1, StillLeaves DEF SameTrack
  <2>5. CASE ~q.active
    <3>1. Locks'
      BY <2>1, <2>2, <2>5, NobodyPushes, CancelPcs DEF Locks
    <3>. QED
      BY <1>0, <2>1, <2>2, <2>3, <2>5, <3>1, CancelLeaves DEF SameTrack
  <2>. QED
    BY <2>4, <2>5
<1>3. CASE SinglePlay
  <2>1. /\ asking' = "play" /\ deck.push < MaxPushes /\ queueMu = Free /\ queueMu' = "user" /\ queue' = Cleared(queue)
        /\ watchers' = CancelWatcher(watchers) /\ queueCancel' = "none" /\ UNCHANGED <<queueGen, queueAge, deck, queueFacts>>
    BY <1>3 DEF SinglePlay, Asks, StopQueue
  <2>2. ListTyped
    BY <1>a, <2>1 DEF ListTyped
  <2>3. Locks'
    BY <2>1, NobodyPushes, CancelPcs DEF Locks
  <2>. QED
    BY <1>0, <2>1, <2>2, <2>3, CancelLeaves DEF SameTrack
<1>4. CASE UserStop
  <2>1. asking' = "stop" /\ queue' = Cleared(queue) /\ UNCHANGED <<queueGen, queueAge, queueCancel, queueMu, watchers, deck, queueFacts>>
    BY <1>4 DEF UserStop, Asks
  <2>2. ListTyped
    BY <1>0, <1>a, <2>1 DEF ListTyped
  <2>3. Locks'
    BY <1>0, <2>1 DEF Locks
  <2>. QED
    BY <1>0, <2>1, <2>2, <2>3, StillLeaves DEF SameTrack
<1>5. CASE PowerOffSpeaker
  <2>1. /\ asking' = "off" /\ deck' = [deck EXCEPT !.state = "STANDBY"]
        /\ UNCHANGED <<queue, queueGen, queueAge, queueCancel, queueMu, watchers, queueFacts>>
    BY <1>5 DEF PowerOffSpeaker, Asks
  <2>2. deck' \in DeckType /\ SameTrack
    BY <1>0, <2>1 DEF SameTrack, DeckType, DeckStates
  <2>3. Locks' /\ ListTyped
    BY <1>0, <2>1 DEF Locks, ListTyped
  <2>. QED
    BY <2>1, <2>2, <2>3, StillLeaves
<1>6. CASE KeyPush
  <2>1. /\ asking' = "key" /\ deck.push < MaxPushes /\ Put("single")
        /\ UNCHANGED <<queue, queueGen, queueAge, queueCancel, queueMu, watchers, queueFacts>>
    BY <1>6 DEF KeyPush, Asks
  <2>2. deck' \in DeckType /\ deck'.source = "single"
    BY <2>1, Puts
  <2>3. Locks' /\ ListTyped
    BY <1>0, <2>1 DEF Locks, ListTyped
  <2>4. UserMoves /\ LiveIsKnown' /\ OnTime'
    BY <1>0, <2>1, <2>2, SameIsSame DEF UserMoves, OtherTrack, LiveIsKnown, OnTime, QueueIInv
  <2>. QED
    BY <1>0, <2>1, <2>2, <2>3, <2>4, UserLeaves DEF QueueTypes
<1>. QED
  BY <1>1, <1>2, <1>3, <1>4, <1>5, <1>6

LEMMA HandlerStep ==
  ASSUME QueueIInv, Handler
  PROVE  QueueIInv'
<1>0. /\ QueueTypes /\ Locks /\ deck \in DeckType /\ queueMu \in Watchers \cup {Free, "user"}
      /\ Ordered(queue) /\ queue.items \in {0, MaxTracks} /\ watchers \in [Watchers -> WatcherType]
      /\ queueGen \in Nat /\ queueAge \in 0..NetAfter /\ queueCancel \in Watchers \cup {"none"} /\ LiveIsKnown /\ OnTime
  BY DEF QueueIInv, QueueTypes
<1>a. \A q : q = Cleared(queue) => Ordered(q) /\ q.items = 0 /\ ~q.active
  BY <1>0, ClearedOrdered
<1>b. \A i \in Watchers : SameWatcher(watchers[i], watchers[i])
  BY <1>0, SameIsSame
<1>1. CASE StartPush
  <2>1. asking = "start" /\ asking' = "none" /\ queueMu' = Free /\ queue' = queue /\ queueFacts' = queueFacts
    BY <1>1 DEF StartPush
  <2>2. queueMu = "user" /\ deck.push < MaxPushes
    BY <1>0, <2>1 DEF Locks
  <2>3. PICK ok \in BOOLEAN : PushStream(ok) /\ IF ok THEN EnsureWatcher ELSE UNCHANGED <<queueCancel, watchers>>
    BY <1>1 DEF StartPush
  <2>4. /\ deck' \in DeckType /\ queueAge' \in 0..NetAfter /\ queueGen' \in Nat /\ OnTime'
        /\ OtherTrack \/ (SameTrack /\ queueAge' = queueAge)
    BY <2>2, <2>3, PushLeaves
  <2>5. /\ watchers' \in [Watchers -> WatcherType] /\ LiveIsKnown' /\ queueCancel' \in Watchers \cup {"none"}
        /\ \A i \in Watchers : SameWatcher(watchers'[i], watchers[i]) \/ watchers'[i] = [Resting EXCEPT !.pc = "sleep"]
    <3>1. CASE ok
      BY <2>3, <3>1, EnsureMoves
    <3>2. CASE ~ok
      BY <1>0, <1>b, <2>3, <3>2 DEF LiveIsKnown
    <3>. QED
      BY <3>1, <3>2
  <2>6. Locks' /\ ListTyped
    <3>1. \A i \in Watchers : watchers'[i].pc # "push"
      BY <2>2, <2>5, NobodyPushes DEF SameWatcher, Resting
    <3>. QED
      BY <1>0, <2>1, <3>1 DEF Locks, ListTyped
  <2>7. UserMoves
    BY <2>1, <2>4, <2>5 DEF UserMoves
  <2>. QED
    BY <2>4, <2>5, <2>6, <2>7, UserLeaves
<1>2. CASE SkipPush
  <2>1. /\ asking = "skip" /\ asking' = "none" /\ queueMu' = Free /\ UNCHANGED <<queue, queueCancel, watchers, queueFacts>>
    BY <1>2 DEF SkipPush
  <2>2. (queueMu = "user" /\ deck.push < MaxPushes) \/ queueMu = Free
    BY <1>0, <2>1 DEF Locks
  <2>3. Locks' /\ ListTyped
    BY <1>0, <2>1, <2>2, NobodyPushes DEF Locks, ListTyped
  <2>4. /\ deck' \in DeckType /\ queueAge' \in 0..NetAfter /\ queueGen' \in Nat /\ OnTime'
        /\ OtherTrack \/ SameTrack
    <3>1. CASE queueMu = "user"
      <4>1. PICK ok \in BOOLEAN : PushStream(ok)
        BY <1>2, <3>1 DEF SkipPush
      <4>. QED
        BY <2>2, <3>1, <4>1, PushLeaves DEF Free
    <3>2. CASE queueMu # "user"
      BY <1>0, <1>2, <3>2 DEF SkipPush, SameTrack, OnTime
    <3>. QED
      BY <3>1, <3>2
  <2>5. UserMoves /\ LiveIsKnown'
    BY <1>0, <1>b, <2>1, <2>4 DEF UserMoves, LiveIsKnown
  <2>. QED
    BY <1>0, <2>1, <2>3, <2>4, <2>5, UserLeaves
<1>3. CASE PlayPush
  <2>1. /\ asking = "play" /\ asking' = "none" /\ queueMu' = Free
        /\ UNCHANGED <<queue, queueGen, queueAge, queueCancel, watchers, queueFacts>> /\ (Put("single") \/ UNCHANGED deck)
    BY <1>3 DEF PlayPush
  <2>2. queueMu = "user" /\ deck.push < MaxPushes
    BY <1>0, <2>1 DEF Locks
  <2>3. Locks' /\ ListTyped
    BY <1>0, <2>1, <2>2, NobodyPushes DEF Locks, ListTyped
  <2>4. deck' \in DeckType /\ (OtherTrack \/ SameTrack) /\ OnTime'
    <3>1. CASE Put("single")
      BY <2>1, <2>2, <3>1, Puts DEF OtherTrack, OnTime
    <3>2. CASE UNCHANGED deck
      BY <1>0, <2>1, <3>2 DEF SameTrack, OnTime
    <3>. QED
      BY <2>1, <3>1, <3>2
  <2>5. UserMoves /\ LiveIsKnown'
    BY <1>0, <1>b, <2>1, <2>4 DEF UserMoves, LiveIsKnown
  <2>. QED
    BY <1>0, <2>1, <2>3, <2>4, <2>5, UserLeaves
<1>4. CASE UserStopCancels
  <2>1. /\ asking' = "none" /\ watchers' = CancelWatcher(watchers) /\ queueCancel' = "none"
        /\ deck' = [deck EXCEPT !.state = IF @ \in {"idle", "STANDBY"} THEN @ ELSE "STOP"]
        /\ UNCHANGED <<queue, queueGen, queueAge, queueMu, queueFacts>>
    BY <1>4 DEF UserStopCancels
  <2>2. deck' \in DeckType /\ SameTrack
    BY <1>0, <2>1 DEF SameTrack, DeckType, DeckStates
  <2>3. Locks' /\ ListTyped
    BY <1>0, <2>1, CancelPcs DEF Locks, ListTyped
  <2>. QED
    BY <2>1, <2>2, <2>3, CancelLeaves
<1>5. CASE NoteLastPlay
  <2>1. /\ asking' = "none" /\ watchers' = CancelWatcher(watchers) /\ queueCancel' = "none" /\ queue' = Cleared(queue)
        /\ UNCHANGED <<queueGen, queueAge, queueMu, queueFacts, deck>>
    BY <1>5 DEF NoteLastPlay, StopQueue
  <2>3. Locks' /\ ListTyped
    BY <1>0, <1>a, <2>1, CancelPcs DEF Locks, ListTyped
  <2>. QED
    BY <1>0, <2>1, <2>3, CancelLeaves DEF SameTrack
<1>6. CASE HandleEnterStandby
  <2>1. asking' = "stop" /\ queue' = Cleared(queue) /\ UNCHANGED <<queueGen, queueAge, queueCancel, queueMu, watchers, deck, queueFacts>>
    BY <1>6 DEF HandleEnterStandby
  <2>2. Locks' /\ ListTyped
    BY <1>0, <1>a, <2>1 DEF Locks, ListTyped
  <2>. QED
    BY <1>0, <2>1, <2>2, StillLeaves DEF SameTrack
<1>. QED
  BY <1>1, <1>2, <1>3, <1>4, <1>5, <1>6 DEF Handler

LEMMA DeckStep ==
  ASSUME QueueIInv, DeckPlays \/ DeckEnds \/ DeckRefuses \/ DeckPaused
  PROVE  QueueIInv'
<1>0. QueueTypes /\ Locks /\ deck \in DeckType
  BY DEF QueueIInv, QueueTypes
<1>1. /\ UNCHANGED <<queue, queueGen, queueAge, queueCancel, queueMu, watchers, queueFacts, asking>>
      /\ \E to \in {"PLAY", "STOP", "PAUSE"} : deck' = [deck EXCEPT !.state = to]
  BY DEF DeckPlays, DeckEnds, DeckRefuses, DeckPaused, DeckChanges
<1>2. deck' \in DeckType /\ SameTrack
  BY <1>0, <1>1 DEF SameTrack, DeckType, DeckStates
<1>3. Locks' /\ ListTyped
  <2>1. deck'.push = deck.push
    BY <1>2 DEF SameTrack
  <2>. QED
    BY <1>0, <1>1, <2>1 DEF Locks, ListTyped, QueueTypes
<1>. QED
  BY <1>1, <1>2, <1>3, StillLeaves

\* An interval in which the track plays moves it on; any other holds it up.
LEMMA DeckTickStep ==
  ASSUME QueueIInv, DeckTick
  PROVE  QueueIInv'
<1>0. /\ QueueTypes /\ Locks /\ deck \in DeckType /\ watchers \in [Watchers -> WatcherType] /\ queueAge \in 0..NetAfter
      /\ LiveIsKnown /\ OnTime /\ TrackLen \in Nat /\ NetAfter \in Nat
  BY QueueAssumption DEF QueueIInv, QueueTypes, NetAfter
<1>1. /\ queueAge' = (IF queueAge < NetAfter THEN queueAge + 1 ELSE queueAge)
      /\ deck' = IF deck.state = "PLAY" THEN [deck EXCEPT !.pos = IF @ < TrackLen THEN @ + 1 ELSE @]
                 ELSE [deck EXCEPT !.held = IF deck.state = "PAUSE" /\ @ # "slow" THEN "pause" ELSE "slow"]
      /\ UNCHANGED <<queue, queueGen, queueCancel, queueMu, queueFacts, asking>>
      /\ watchers' = [i \in Watchers |-> [watchers[i] EXCEPT !.frozen = IF Freezing(watchers[i]) THEN @ + 1 ELSE @]]
  BY DEF DeckTick
<1>2. /\ deck'.source = deck.source /\ deck'.push = deck.push /\ deck' \in DeckType
      /\ deck'.held = "no" => deck.held = "no" /\ deck'.pos = IF deck.pos < TrackLen THEN deck.pos + 1 ELSE deck.pos
  <2>1. CASE deck.state = "PLAY"
    BY <1>0, <1>1, <2>1 DEF DeckType
  <2>2. CASE deck.state # "PLAY"
    BY <1>0, <1>1, <2>2 DEF DeckType
  <2>. QED
    BY <2>1, <2>2
<1>3. ASSUME NEW i \in Watchers
      PROVE  /\ watchers'[i] \in WatcherType
             /\ \E n \in {watchers[i].frozen, watchers[i].frozen + 1} : watchers'[i] = [watchers[i] EXCEPT !.frozen = n]
             /\ watchers'[i].pc = watchers[i].pc /\ watchers'[i].done = watchers[i].done
  <2>1. watchers[i] \in WatcherType
    BY <1>0
  <2>2. PICK n \in {watchers[i].frozen, watchers[i].frozen + 1} : watchers'[i] = [watchers[i] EXCEPT !.frozen = n]
    BY <1>1
  <2>3. n \in Nat
    BY <2>1 DEF WatcherType
  <2>. QED
    BY <2>1, <2>2, <2>3 DEF WatcherType
<1>4. watchers' \in [Watchers -> WatcherType]
  BY <1>1, <1>3
<1>5. QueueTypes'
  BY <1>0, <1>1, <1>2, <1>4 DEF QueueTypes
<1>6. Locks' /\ LiveIsKnown'
  <2>1. Locks'
    BY <1>0, <1>1, <1>2, <1>3 DEF Locks
  <2>2. LiveIsKnown'
    BY <1>0, <1>1, <1>3 DEF LiveIsKnown
  <2>. QED
    BY <2>1, <2>2
<1>7. OnTime'
  BY <1>0, <1>1, <1>2 DEF OnTime, DeckType
<1>8. ASSUME NEW i \in Watchers PROVE Knows(i)'
  <2>1. Knows(i) /\ watchers[i] \in WatcherType /\ queueGen' = queueGen /\ queueFacts' = queueFacts
    BY <1>0, <1>1 DEF QueueIInv
  <2>2. PICK n \in {watchers[i].frozen, watchers[i].frozen + 1} : watchers'[i] = [watchers[i] EXCEPT !.frozen = n]
    BY <1>3
  <2>3. /\ watchers'[i].pc = watchers[i].pc /\ watchers'[i].gen = watchers[i].gen /\ watchers'[i].from = watchers[i].from
        /\ watchers'[i].last = watchers[i].last /\ watchers'[i].polled = watchers[i].polled
    BY <2>1, <2>2 DEF WatcherType
  <2>4. deck.pos \in 0..TrackLen /\ watchers[i].last \in 0..TrackLen
    BY <1>0, <2>1 DEF DeckType, WatcherType
  <2>5. ASSUME deck'.held = "no", watchers[i].last <= deck.pos
        PROVE  watchers[i].last <= deck'.pos /\ (deck'.pos > watchers[i].last \/ deck'.pos = TrackLen)
    BY <1>0, <1>2, <2>4, <2>5
  <2>6. (deck.pos = TrackLen /\ deck'.held = "no") => deck'.pos = TrackLen
    BY <1>0, <1>2
  <2>. QED
    BY <1>2, <2>1, <2>3, <2>5, <2>6 DEF Knows
<1>. QED
  BY <1>5, <1>6, <1>7, <1>8 DEF QueueIInv

\* A watcher's own step: it alone moves, to w.
LEMMA OwnMoves ==
  ASSUME QueueIInv, NEW i \in Watchers, NEW w \in WatcherType, WatcherMoves(i, w),
         (w.done = watchers[i].done /\ watchers[i].pc # "off") \/ w.pc = "off", queueCancel' = queueCancel
  PROVE  /\ watchers' \in [Watchers -> WatcherType] /\ watchers'[i] = w /\ (\A j \in Watchers : j # i => watchers'[j] = watchers[j])
         /\ LiveIsKnown'
<1>0. watchers \in [Watchers -> WatcherType] /\ LiveIsKnown
  BY DEF QueueIInv, QueueTypes
<1>1. watchers' \in [Watchers -> WatcherType] /\ watchers'[i] = w /\ (\A j \in Watchers : j # i => watchers'[j] = watchers[j])
  BY <1>0 DEF WatcherMoves
<1>. QED
  BY <1>0, <1>1 DEF LiveIsKnown

\* ... and leaves the rest as it is.
LEMMA OwnLeaves ==
  ASSUME QueueIInv, NEW i \in Watchers, NEW w \in WatcherType, WatcherMoves(i, w),
         (w.done = watchers[i].done /\ watchers[i].pc # "off") \/ w.pc = "off", w.pc # "push", Knows(i)', OwnStep,
         UNCHANGED <<queueGen, queueAge, queueCancel, queueMu, deck>>, queue' = queue \/ queue' = Cleared(queue)
  PROVE  QueueIInv'
<1>0. QueueTypes /\ Locks /\ OnTime /\ Ordered(queue)
  BY DEF QueueIInv, QueueTypes
<1>1. /\ watchers' \in [Watchers -> WatcherType] /\ watchers'[i] = w /\ (\A j \in Watchers : j # i => watchers'[j] = watchers[j])
      /\ LiveIsKnown'
  BY OwnMoves
<1>2. Ordered(queue') /\ queue'.items \in {0, MaxTracks} /\ (~queue.active => ~queue'.active)
  BY <1>0, ClearedOrdered DEF QueueTypes
<1>3. QueueTypes' /\ Locks' /\ OnTime'
  BY <1>0, <1>1, <1>2 DEF QueueTypes, Locks, OnTime, OwnStep
<1>4. ASSUME NEW j \in Watchers PROVE Knows(j)'
  <2>1. CASE j # i
    <3>1. SameWatcher(watchers'[j], watchers[j])
      BY <1>1, <2>1, <1>0, SameIsSame
    <3>. QED
      BY <3>1, KnowsKept DEF SameTrack, OwnStep
  <2>. QED
    BY <2>1
<1>. QED
  BY <1>1, <1>3, <1>4 DEF QueueIInv

LEMMA WakesStep ==
  ASSUME QueueIInv, NEW i \in Watchers, WatcherWakes(i)
  PROVE  QueueIInv'
<1>0. /\ watchers[i] \in WatcherType /\ Knows(i) /\ queueGen \in Nat /\ deck \in DeckType /\ watchers[i].pc = "sleep"
      /\ OwnStep /\ UNCHANGED <<queue, queueGen, queueAge, queueCancel, queueMu, deck>>
  BY DEF QueueIInv, QueueTypes, WatcherWakes
<1>1. CASE WatcherMoves(i, Resting)
  <2>1. Resting \in WatcherType /\ Resting.pc = "off"
    BY RestingTyped DEF Resting
  <2>2. Knows(i)'
    <3>1. watchers'[i] = Resting
      BY <1>0, <1>1, <2>1, OwnMoves
    <3>. QED
      BY <1>0, <3>1, RestingKnows
  <2>. QED
    BY <1>0, <1>1, <2>1, <2>2, OwnLeaves
<1>2. CASE ~WatcherMoves(i, Resting)
  <2>. DEFINE w == watchers[i]
  <2>1. PICK u \in {w, [w EXCEPT !.gen = queueGen, !.saw = FALSE, !.last = 0, !.frozen = 0]} :
          /\ WatcherMoves(i, [u EXCEPT !.pc = "poll", !.from = deck.push])
          /\ w.gen = queueGen => u = w
          /\ w.gen # queueGen => u # w
    BY <1>0, <1>2 DEF WatcherWakes, WatcherType
  <2>2. u \in WatcherType /\ u.done = w.done /\ (u = w \/ (u.last = 0 /\ u.frozen = 0 /\ u.gen = queueGen))
    <3>1. CASE u = w
      BY <1>0, <3>1
    <3>2. CASE u = [w EXCEPT !.gen = queueGen, !.saw = FALSE, !.last = 0, !.frozen = 0]
      <4>1. u = [pc |-> w.pc, done |-> w.done, gen |-> queueGen, from |-> w.from, saw |-> FALSE, last |-> 0, frozen |-> 0, polled |-> w.polled]
        BY <1>0, <3>2 DEF WatcherType
      <4>2. 0 \in 0..TrackLen /\ FALSE \in BOOLEAN
        BY QueueAssumption
      <4>3. u \in WatcherType
        BY <1>0, <4>1, <4>2 DEF WatcherType
      <4>. QED
        BY <4>1, <4>3
    <3>. QED
      BY <2>1, <3>1, <3>2
  <2>. DEFINE v == [u EXCEPT !.pc = "poll", !.from = deck.push]
  <2>3. /\ v \in WatcherType /\ v.done = w.done /\ v.pc = "poll" /\ v.from = deck.push
        /\ v.gen = u.gen /\ v.last = u.last /\ v.frozen = u.frozen
    <3>1. deck.push \in Nat
      BY <1>0, QueueAssumption DEF DeckType
    <3>2. v \in WatcherType
      BY <2>2, <3>1 DEF WatcherType
    <3>. QED
      BY <2>2, <3>2 DEF WatcherType
  <2>. HIDE DEF v
  <2>4. watchers'[i] = v
    BY <1>0, <2>1, <2>3, OwnMoves DEF v
  <2>5. Knows(i)'
    BY <1>0, <2>2, <2>3, <2>4 DEF Knows, OwnStep, DeckType
  <2>. QED
    BY <1>0, <2>1, <2>3, <2>5, OwnLeaves DEF v
<1>. QED
  BY <1>1, <1>2

\* What a poll leaves a watcher with.
LEMMA Observes ==
  ASSUME NEW w \in WatcherType, deck \in DeckType, NEW seen \in DeckStates \cup {"none"}
  PROVE  LET o == Observed(w, seen)
         IN /\ o \in WatcherType /\ o.pc = w.pc /\ o.done = w.done /\ o.gen = w.gen /\ o.from = w.from /\ o.polled = w.polled
            /\ \/ queueFacts.position /\ deck.pos > w.last /\ o.last = deck.pos /\ o.frozen = 0
               \/ /\ o.last = w.last /\ o.frozen = w.frozen
                  /\ seen = "PLAY" /\ queueFacts.position => deck.pos <= w.last
<1>. DEFINE plays == seen \in {"PLAY", "BUFFERING"}
            moved == plays /\ queueFacts.position /\ deck.pos > w.last
            o == [w EXCEPT !.saw = @ \/ plays, !.last = IF moved THEN deck.pos ELSE @, !.frozen = IF moved THEN 0 ELSE @]
<1>1. Observed(w, seen) = o
  BY DEF Observed
<1>2. deck.pos \in 0..TrackLen /\ w.last \in 0..TrackLen /\ (w.saw \/ plays) \in BOOLEAN
  BY DEF DeckType, WatcherType
<1>3. /\ o.pc = w.pc /\ o.done = w.done /\ o.gen = w.gen /\ o.from = w.from /\ o.polled = w.polled
      /\ o.last = (IF moved THEN deck.pos ELSE w.last) /\ o.frozen = (IF moved THEN 0 ELSE w.frozen)
  BY DEF WatcherType
<1>4. o \in WatcherType
  <2>1. PICK s \in BOOLEAN, l \in 0..TrackLen, f \in Nat : o = [w EXCEPT !.saw = s, !.last = l, !.frozen = f]
    BY <1>2 DEF WatcherType
  <2>. QED
    BY <2>1 DEF WatcherType
<1>. HIDE DEF o
<1>5. QueueAssumption
  BY QueueAssumption
<1>. QED
  BY <1>1, <1>2, <1>3, <1>4

\* A poll sees the state the speaker is in, or nothing.
LEMMA PollsStep ==
  ASSUME QueueIInv, NEW i \in Watchers, NEW seen \in {deck.state, "none"}, WatcherPolls(i, seen)
  PROVE  QueueIInv'
<1>. DEFINE w == watchers[i]
            o == Observed(w, seen)
<1>0. /\ w \in WatcherType /\ Knows(i) /\ OnTime /\ queueGen \in Nat /\ deck \in DeckType /\ w.pc = "poll" /\ OwnStep
      /\ UNCHANGED <<queue, queueGen, queueAge, queueCancel, queueMu, deck>> /\ queueAge \in 0..NetAfter
      /\ seen \in DeckStates \cup {"none"} /\ queueFacts \in [length : BOOLEAN, position : BOOLEAN]
  BY DEF QueueIInv, QueueTypes, WatcherPolls, DeckType
<1>1. /\ o \in WatcherType /\ o.pc = w.pc /\ o.done = w.done /\ o.gen = w.gen /\ o.from = w.from /\ o.polled = w.polled
      /\ \/ queueFacts.position /\ deck.pos > w.last /\ o.last = deck.pos /\ o.frozen = 0
         \/ /\ o.last = w.last /\ o.frozen = w.frozen
            /\ seen = "PLAY" /\ queueFacts.position => deck.pos <= w.last
  BY <1>0, Observes
<1>2. PICK age \in IF w.gen = queueGen THEN {queueAge} ELSE {0, NetAfter} :
        WatcherMoves(i, CASE Verdicts(o, seen, age) = "advance" -> [o EXCEPT !.pc = "lock", !.polled = seen]
                          [] Verdicts(o, seen, age) = "stop" -> [o EXCEPT !.pc = "stop"]
                          [] OTHER -> Sleeping(o))
  BY DEF WatcherPolls
<1>. HIDE DEF o
\* What the watcher knows, it knows still.
<1>3. deck.pos \in 0..TrackLen /\ w.last \in 0..TrackLen /\ o.last \in 0..TrackLen /\ w.frozen \in Nat /\ o.frozen \in Nat
  BY <1>0, <1>1 DEF DeckType, WatcherType
<1>4. o.last > 0 => queueFacts.position
  BY <1>0, <1>1, <1>3 DEF Knows
<1>5. ASSUME w.gen = queueGen, deck.source = "queue"
      PROVE  /\ w.from = deck.push
             /\ deck.held = "no" => o.last <= deck.pos /\ (o.frozen > 0 => deck.pos > o.last \/ deck.pos = TrackLen)
  <2>1. /\ w.from = deck.push
        /\ deck.held = "no" => w.last <= deck.pos /\ (w.frozen > 0 => deck.pos > w.last \/ deck.pos = TrackLen)
    BY <1>0, <1>5 DEF Knows
  <2>. QED
    BY <1>1, <1>3, <2>1
<1>6. CASE Verdicts(o, seen, age) = "advance"
  <2>. DEFINE v == [o EXCEPT !.pc = "lock", !.polled = seen]
  <2>1. WatcherMoves(i, v)
    BY <1>2, <1>6
  <2>2. /\ v \in WatcherType /\ v.done = w.done /\ v.pc = "lock" /\ v.polled = seen
        /\ v.gen = w.gen /\ v.from = w.from /\ v.last = o.last /\ v.frozen = o.frozen
    BY <1>0, <1>1 DEF WatcherType
  <2>. HIDE DEF v
  \* Both nets tell that the track is over.
  <2>3. ASSUME w.gen = queueGen, deck.source = "queue", deck.held = "no", seen = "PLAY" PROVE deck.pos = TrackLen
    <3>1. age = queueAge /\ (deck.pos = TrackLen \/ deck.pos >= queueAge)
      BY <1>0, <1>2, <2>3 DEF OnTime
    <3>2. (queueFacts.length /\ age >= NetAfter) \/ FrozenNet(o, seen)
      BY <1>6, <2>3 DEF Verdicts
    <3>3. CASE age >= NetAfter
      BY <1>0, <1>3, <3>1, <3>3, QueueAssumption DEF NetAfter
    <3>4. CASE FrozenNet(o, seen)
      <4>1. o.last > 0 /\ o.frozen >= QueueMargin /\ QueueMargin \in Nat \ {0}
        BY <3>4, QueueAssumption DEF FrozenNet
      <4>2. o.frozen > 0 /\ queueFacts.position
        BY <1>3, <1>4, <4>1
      <4>3. o.last = w.last /\ deck.pos <= w.last
        BY <1>1, <1>3, <2>3, <4>2
      <4>. QED
        BY <1>3, <1>5, <2>3, <4>2, <4>3
    <3>. QED
      BY <3>2, <3>3, <3>4
  <2>4. watchers'[i] = v
    BY <1>0, <2>1, <2>2, OwnMoves
  <2>5. Knows(i)'
    BY <1>0, <1>4, <1>5, <2>2, <2>3, <2>4 DEF Knows, OwnStep
  <2>. QED
    BY <1>0, <2>1, <2>2, <2>5, OwnLeaves
<1>7. CASE Verdicts(o, seen, age) # "advance"
  <2>1. PICK v \in {[o EXCEPT !.pc = "stop"], Sleeping(o)} : WatcherMoves(i, v)
    BY <1>2, <1>7
  <2>2. /\ v \in WatcherType /\ v.done = w.done /\ v.pc \in {"stop", "sleep"}
        /\ v.gen = w.gen /\ v.last = o.last /\ v.frozen = o.frozen
    <3>1. CASE v = [o EXCEPT !.pc = "stop"]
      <4>1. v \in WatcherType
        BY <1>1, <3>1 DEF WatcherType
      <4>. QED
        BY <1>1, <3>1, <4>1 DEF WatcherType
    <3>2. CASE v = Sleeping(o)
      <4>1. v = [o EXCEPT !.pc = "sleep", !.polled = "none", !.from = 0]
        BY <3>2 DEF Sleeping
      <4>2. v \in WatcherType
        BY <1>1, <4>1 DEF WatcherType
      <4>. QED
        BY <1>1, <4>1, <4>2 DEF WatcherType
    <3>. QED
      BY <2>1, <3>1, <3>2
  <2>3. watchers'[i] = v
    BY <1>0, <2>1, <2>2, OwnMoves
  <2>4. Knows(i)'
    BY <1>0, <1>4, <1>5, <2>2, <2>3 DEF Knows, OwnStep
  <2>. QED
    BY <1>0, <2>1, <2>2, <2>4, OwnLeaves
<1>. QED
  BY <1>6, <1>7

LEMMA ClearsStep ==
  ASSUME QueueIInv, NEW i \in Watchers, WatcherClears(i)
  PROVE  QueueIInv'
<1>. DEFINE v == [watchers[i] EXCEPT !.pc = "cancel"]
<1>0. /\ watchers[i] \in WatcherType /\ Knows(i) /\ watchers[i].pc = "stop" /\ WatcherMoves(i, v) /\ OwnStep
      /\ UNCHANGED <<queueGen, queueAge, queueCancel, queueMu, deck>> /\ queue' = Cleared(queue)
  BY DEF QueueIInv, QueueTypes, WatcherClears
<1>1. /\ v \in WatcherType /\ v.done = watchers[i].done /\ v.pc = "cancel" /\ v.gen = watchers[i].gen
      /\ v.last = watchers[i].last /\ v.frozen = watchers[i].frozen
  BY <1>0 DEF WatcherType
<1>. HIDE DEF v
<1>2. watchers'[i] = v
  BY <1>0, <1>1, OwnMoves
<1>3. Knows(i)'
  BY <1>0, <1>1, <1>2 DEF Knows, OwnStep
<1>. QED
  BY <1>0, <1>1, <1>3, OwnLeaves

LEMMA CancelsStep ==
  ASSUME QueueIInv, NEW i \in Watchers, WatcherCancels(i)
  PROVE  QueueIInv'
<1>0. /\ QueueTypes /\ Locks /\ OnTime /\ LiveIsKnown /\ watchers[i].pc = "cancel" /\ OwnStep
      /\ UNCHANGED <<queue, queueGen, queueAge, queueMu, deck>> /\ queueCancel' = "none"
      /\ watchers' = [CancelWatcher(watchers) EXCEPT ![i] = Resting]
  BY DEF QueueIInv, WatcherCancels
<1>1. CancelWatcher(watchers) \in [Watchers -> WatcherType]
  BY <1>0, Cancels
<1>2. watchers' \in [Watchers -> WatcherType]
  BY <1>0, <1>1, RestingTyped
<1>3. watchers'[i] = Resting /\ \A j \in Watchers : j # i => watchers'[j] = CancelWatcher(watchers)[j]
  BY <1>0, <1>1
<1>4. \A j \in Watchers : j # i => SameWatcher(watchers'[j], watchers[j]) /\ watchers'[j].done = (watchers[j].done \/ j = queueCancel)
  BY <1>0, <1>3, SameIsSame
<1>5. LiveIsKnown'
  <2>1. ASSUME NEW j \in Watchers PROVE watchers'[j].pc = "off" \/ watchers'[j].done
    <3>1. CASE j = i
      BY <1>3, <3>1 DEF Resting
    <3>2. CASE j # i
      <4>1. watchers[j].pc # "off" /\ ~watchers[j].done => queueCancel = j
        BY <1>0 DEF LiveIsKnown
      <4>. QED
        BY <1>4, <3>2, <4>1 DEF SameWatcher
    <3>. QED
      BY <3>1, <3>2
  <2>. QED
    BY <2>1 DEF LiveIsKnown
<1>6. UserMoves
  BY <1>0, <1>2, <1>3, <1>4 DEF UserMoves, OwnStep, SameTrack
<1>7. Locks' /\ ListTyped
  BY <1>0, <1>3, <1>4 DEF Locks, ListTyped, OwnStep, SameWatcher, Resting, QueueTypes
<1>. QED
  BY <1>0, <1>5, <1>6, <1>7, UserLeaves DEF QueueTypes, OnTime

LEMMA LocksStep ==
  ASSUME QueueIInv, NEW i \in Watchers, AdvanceLocks(i)
  PROVE  QueueIInv'
<1>. DEFINE w == watchers[i]
<1>0. /\ w \in WatcherType /\ QueueTypes /\ Locks /\ OnTime /\ LiveIsKnown /\ Knows(i) /\ w.pc = "lock" /\ queueMu = Free /\ OwnStep
      /\ queueGen' = queueGen /\ queueAge' = queueAge /\ deck \in DeckType
  BY DEF QueueIInv, QueueTypes, AdvanceLocks
<1>1. /\ Sleeping(w) \in WatcherType /\ Sleeping(w).done = w.done /\ Sleeping(w).pc = "sleep" /\ Sleeping(w).gen = w.gen
      /\ Sleeping(w).last = w.last /\ Sleeping(w).frozen = w.frozen
  <2>1. Sleeping(w) \in WatcherType
    BY <1>0 DEF Sleeping, WatcherType
  <2>. QED
    BY <1>0, <2>1 DEF Sleeping, WatcherType
<1>2. CASE Superseded(i) /\ WatcherMoves(i, Sleeping(w)) /\ UNCHANGED <<queue, queueCancel, queueMu, deck>>
  <2>1. watchers'[i] = Sleeping(w)
    BY <1>0, <1>1, <1>2, OwnMoves
  <2>2. Knows(i)'
    BY <1>0, <1>1, <1>2, <2>1 DEF Knows, OwnStep
  <2>. QED
    BY <1>0, <1>1, <1>2, <2>2, OwnLeaves
<1>3. ASSUME NEW q \in AdvanceNaturals(queue), queue' = q, q.active, queueMu' = i, WatcherMoves(i, [w EXCEPT !.pc = "push"]),
             UNCHANGED <<queueCancel, deck>>
      PROVE  QueueIInv'
  <2>. DEFINE v == [w EXCEPT !.pc = "push"]
  <2>1. /\ v \in WatcherType /\ v.done = w.done /\ v.pc = "push" /\ v.gen = w.gen /\ v.last = w.last /\ v.frozen = w.frozen
    BY <1>0 DEF WatcherType
  <2>2. WatcherMoves(i, v)
    BY <1>3
  <2>. HIDE DEF v
  <2>3. /\ watchers' \in [Watchers -> WatcherType] /\ watchers'[i] = v /\ (\A j \in Watchers : j # i => watchers'[j] = watchers[j])
        /\ LiveIsKnown'
    BY <1>0, <1>3, <2>1, <2>2, OwnMoves
  <2>4. Ordered(q) /\ q.items \in {0, MaxTracks} /\ queue.active
    BY <1>0, <1>3, ListMoves
  <2>5. QueueTypes' /\ OnTime'
    BY <1>0, <1>3, <2>3, <2>4 DEF QueueTypes, OnTime, OwnStep
  <2>6. Locks'
    <3>1. asking \notin {"start", "play", "skip"}
      BY <1>0, <2>4 DEF Locks, Free
    <3>2. \A j \in Watchers : watchers[j].pc # "push"
      BY <1>0, NobodyPushes
    <3>. QED
      BY <1>0, <1>3, <2>3, <3>1, <3>2 DEF Locks, OwnStep
  <2>7. ASSUME NEW j \in Watchers PROVE Knows(j)'
    <3>1. CASE j = i
      BY <1>0, <1>3, <2>1, <2>3, <3>1 DEF Knows, OwnStep
    <3>2. CASE j # i
      <4>1. SameWatcher(watchers'[j], watchers[j])
        BY <1>0, <2>3, <3>2, SameIsSame
      <4>. QED
        BY <1>0, <1>3, <4>1, KnowsKept DEF SameTrack, OwnStep
    <3>. QED
      BY <3>1, <3>2
  <2>. QED
    BY <2>3, <2>5, <2>6, <2>7 DEF QueueIInv
<1>4. ASSUME NEW q \in AdvanceNaturals(queue), queue' = q, ~q.active, queueMu' = queueMu, queueCancel' = "none",
             deck' = [deck EXCEPT !.state = IF @ \in {"idle", "STANDBY"} THEN @ ELSE "STOP"],
             watchers' = [CancelWatcher(watchers) EXCEPT ![i] = Sleeping(@)]
      PROVE  QueueIInv'
  <2>1. /\ CancelWatcher(watchers) \in [Watchers -> WatcherType]
        /\ \A j \in Watchers : /\ SameWatcher(CancelWatcher(watchers)[j], watchers[j])
                               /\ CancelWatcher(watchers)[j].done = (watchers[j].done \/ j = queueCancel)
    BY <1>0, Cancels, SameIsSame
  <2>. DEFINE v == Sleeping(CancelWatcher(watchers)[i])
  <2>2. /\ v \in WatcherType /\ v.done = (w.done \/ i = queueCancel) /\ v.pc = "sleep" /\ v.gen = w.gen /\ v.last = w.last /\ v.frozen = w.frozen
    <3>. DEFINE u == CancelWatcher(watchers)[i]
    <3>1. u \in WatcherType /\ SameWatcher(u, w) /\ u.done = (w.done \/ i = queueCancel)
      BY <2>1
    <3>. HIDE DEF u
    <3>2. v = [u EXCEPT !.pc = "sleep", !.polled = "none", !.from = 0]
      BY DEF Sleeping, u
    <3>. HIDE DEF v
    <3>3. v \in WatcherType
      BY <3>1, <3>2 DEF WatcherType
    <3>. QED
      BY <3>1, <3>2, <3>3 DEF WatcherType, SameWatcher
  <2>3. watchers' = [CancelWatcher(watchers) EXCEPT ![i] = v]
    BY <1>4, <2>1
  <2>. HIDE DEF v
  <2>4. /\ watchers' \in [Watchers -> WatcherType] /\ watchers'[i] = v
        /\ \A j \in Watchers : j # i => watchers'[j] = CancelWatcher(watchers)[j]
    BY <2>1, <2>2, <2>3
  <2>5. LiveIsKnown'
    <3>1. \A j \in Watchers : j # i => watchers'[j].pc = watchers[j].pc /\ watchers'[j].done = (watchers[j].done \/ j = queueCancel)
      BY <2>1, <2>4 DEF SameWatcher
    <3>2. \A j \in Watchers : watchers[j].pc # "off" => watchers[j].done \/ j = queueCancel
      BY <1>0 DEF LiveIsKnown
    <3>3. w.pc # "off"
      BY <1>0
    <3>4. \A j \in Watchers : watchers'[j].pc # "off" => watchers'[j].done
      <4>. SUFFICES ASSUME NEW j \in Watchers, watchers'[j].pc # "off" PROVE watchers'[j].done
        OBVIOUS
      <4>1. CASE j = i
        BY <2>2, <2>4, <3>2, <3>3, <4>1
      <4>2. CASE j # i
        BY <3>1, <3>2, <4>2
      <4>. QED
        BY <4>1, <4>2
    <3>. QED
      BY <3>4 DEF LiveIsKnown
  <2>6. Ordered(q) /\ q.items \in {0, MaxTracks}
    BY <1>0, ListMoves
  <2>7. deck' \in DeckType /\ SameTrack
    BY <1>0, <1>4 DEF DeckType, DeckStates, SameTrack
  <2>8. QueueTypes' /\ OnTime'
    BY <1>0, <1>4, <2>4, <2>6, <2>7 DEF QueueTypes, OnTime, OwnStep, SameTrack
  <2>9. Locks'
    <3>1. \A j \in Watchers : watchers'[j].pc # "push"
      BY <1>0, <2>1, <2>2, <2>4, NobodyPushes DEF SameWatcher
    <3>. QED
      BY <1>0, <1>4, <2>7, <3>1 DEF Locks, OwnStep, SameTrack, Free
  <2>10. ASSUME NEW j \in Watchers PROVE Knows(j)'
    <3>1. CASE j = i
      BY <1>0, <2>2, <2>4, <2>7, <3>1 DEF Knows, OwnStep, SameTrack
    <3>2. CASE j # i
      <4>1. SameWatcher(watchers'[j], watchers[j])
        BY <2>1, <2>4, <3>2
      <4>. QED
        BY <1>0, <2>7, <4>1, KnowsKept DEF OwnStep
    <3>. QED
      BY <3>1, <3>2
  <2>. QED
    BY <2>5, <2>8, <2>9, <2>10 DEF QueueIInv
<1>. QED
  BY <1>2, <1>3, <1>4 DEF AdvanceLocks

LEMMA PushStep ==
  ASSUME QueueIInv, NEW i \in Watchers, NEW ok \in BOOLEAN, AdvancePush(i, ok)
  PROVE  QueueIInv'
<1>. DEFINE w == watchers[i]
<1>0. /\ w \in WatcherType /\ QueueTypes /\ Locks /\ w.pc = "push" /\ deck.push < MaxPushes /\ queueMu' = Free /\ OwnStep
      /\ WatcherMoves(i, Sleeping(w)) /\ PushStream(ok) /\ UNCHANGED <<queue, queueCancel>> /\ queueMu = i
  BY DEF QueueIInv, QueueTypes, AdvancePush, Locks
<1>1. /\ Sleeping(w) \in WatcherType /\ Sleeping(w).done = w.done /\ Sleeping(w).pc = "sleep" /\ Sleeping(w).gen = w.gen
      /\ Sleeping(w).last = w.last /\ Sleeping(w).frozen = w.frozen
  <2>1. Sleeping(w) \in WatcherType
    BY <1>0 DEF Sleeping, WatcherType
  <2>. QED
    BY <1>0, <2>1 DEF Sleeping, WatcherType
<1>2. /\ watchers' \in [Watchers -> WatcherType] /\ watchers'[i] = Sleeping(w) /\ (\A j \in Watchers : j # i => watchers'[j] = watchers[j])
      /\ LiveIsKnown'
  BY <1>0, <1>1, OwnMoves
<1>3. /\ deck' \in DeckType /\ queueAge' \in 0..NetAfter /\ queueGen' \in Nat /\ OnTime'
      /\ OtherTrack \/ (SameTrack /\ queueAge' = queueAge)
  BY <1>0, PushLeaves
<1>4. QueueTypes'
  BY <1>0, <1>2, <1>3 DEF QueueTypes, OwnStep
<1>5. Locks'
  <2>1. asking \notin {"start", "play", "skip"}
    BY <1>0 DEF Locks, Free, Watchers
  <2>2. \A j \in Watchers : watchers'[j].pc # "push"
    BY <1>0, <1>1, <1>2 DEF Locks
  <2>. QED
    BY <1>0, <2>1, <2>2 DEF Locks, OwnStep
<1>6. ASSUME NEW j \in Watchers PROVE Knows(j)'
  <2>1. CASE j = i
    <3>1. Knows(i) /\ queueGen \in Nat /\ w.gen \in Nat
      BY <1>0 DEF QueueIInv, QueueTypes, WatcherType
    <3>. QED
      BY <1>0, <1>1, <1>2, <1>3, <2>1, <3>1 DEF Knows, OwnStep, OtherTrack, SameTrack
  <2>2. CASE j # i
    <3>1. SameWatcher(watchers'[j], watchers[j])
      BY <1>0, <1>2, <2>2, SameIsSame
    <3>. QED
      BY <1>0, <1>3, <3>1, KnowsKept DEF OwnStep
  <2>. QED
    BY <2>1, <2>2
<1>. QED
  BY <1>2, <1>3, <1>4, <1>5, <1>6 DEF QueueIInv

LEMMA QueueStep ==
  ASSUME QueueIInv, [QueueNext]_queueVars
  PROVE  QueueIInv'
<1>1. ASSUME NEW i \in Watchers, Watcher(i) PROVE QueueIInv'
  <2>1. ASSUME WatcherReads(i) \/ WatcherPolls(i, "none") PROVE QueueIInv'
    BY <2>1, PollsStep DEF WatcherReads
  <2>. QED
    BY <1>1, <2>1, WakesStep, ClearsStep, CancelsStep, LocksStep, PushStep DEF Watcher
<1>2. CASE UNCHANGED queueVars
  <2>1. QueueTypes' /\ Locks' /\ LiveIsKnown' /\ OnTime'
    BY <1>2 DEF queueVars, QueueIInv, QueueTypes, Locks, LiveIsKnown, OnTime
  <2>2. \A i \in Watchers : Knows(i)'
    BY <1>2 DEF queueVars, QueueIInv, Knows
  <2>. QED
    BY <2>1, <2>2 DEF QueueIInv
<1>. QED
  BY <1>1, <1>2, AsksStep, HandlerStep, DeckStep, DeckTickStep DEF QueueNext

\* An advance that takes the lock is of the track on the speaker.
LEMMA AdvanceIsOf ==
  ASSUME QueueIInv, NEW i \in Watchers, AdvanceLocks(i), queueMu' = i, deck.source = "queue"
  PROVE  watchers[i].from = deck.push /\ (watchers[i].polled = "PLAY" /\ deck.held = "no" => deck.pos = TrackLen)
<1>1. ~Superseded(i) /\ watchers[i].pc = "lock"
  BY DEF AdvanceLocks, Watchers, Free
<1>2. Knows(i)
  BY DEF QueueIInv
<1>. QED
  BY <1>1, <1>2 DEF Knows, Superseded

-----------------------------------------------------------------------------
(***************************************************************************)
(* The sleep timer.                                                        *)
(***************************************************************************)

CallbackStates == {"unset", "armed", "due", "read", "off", "members", "over"}
SleepIInv ==
  /\ SleepInv
  /\ callbacks \in [SleepGens -> CallbackStates] /\ grouped \in [SleepGens -> BOOLEAN]
  /\ asked \in [SleepGens -> SUBSET SleepMembers]

LEMMA InitSleep == SleepInit => SleepIInv
<1>. SUFFICES ASSUME SleepInit PROVE SleepIInv
  OBVIOUS
<1>1. callbacks \in [SleepGens -> CallbackStates] /\ \A g \in SleepGens : callbacks[g] = "unset"
  BY DEF SleepInit, CallbackStates
<1>2. grouped \in [SleepGens -> BOOLEAN] /\ asked \in [SleepGens -> SUBSET SleepMembers]
  BY DEF SleepInit
<1>3. awake \subseteq Speakers /\ sleepGen = 0 /\ sleepTimer = 0 /\ sleepGroup = FALSE
  BY DEF SleepInit
<1>4. StatusTellsTruth
  BY <1>1, <1>3 DEF StatusTellsTruth
<1>5. sleepTimer \in 0..sleepGen /\ sleepGen \in 0..MaxSleeps
  BY <1>3, SleepAssumption
<1>6. SleepTypeOK
  BY <1>1, <1>3, <1>5 DEF SleepTypeOK
<1>. QED
  BY <1>1, <1>2, <1>4, <1>6 DEF SleepIInv, SleepInv

\* After Stop no callback is armed but of a timer that has been started meanwhile.
LEMMA StopReaches ==
  ASSUME SleepIInv
  PROVE  /\ Stopped(callbacks) \in [SleepGens -> CallbackStates]
         /\ \A g \in SleepGens : Stopped(callbacks)[g] # "armed"
  BY SleepAssumption DEF SleepIInv, SleepInv, SleepTypeOK, StatusTellsTruth, CallbackStates, Stopped, SleepGens

\* Whoever is asked to go to standby, nothing but a speaker is on.
LEMMA RequestTyped ==
  ASSUME NEW s \in Speakers, Request(s), awake \subseteq Speakers
  PROVE  awake' \subseteq Speakers
  BY Zenon DEF Request

LEMMA SleepStep ==
  ASSUME SleepIInv, [SleepNext]_sleepVars
  PROVE  SleepIInv'
<1>. USE SleepAssumption DEF SleepIInv, SleepInv, SleepTypeOK, StatusTellsTruth
<1>1. ASSUME NEW all \in BOOLEAN, ArmSleep(all) PROVE SleepIInv'
  <2>1. /\ callbacks' = [Stopped(callbacks) EXCEPT ![sleepGen + 1] = "armed"] /\ sleepGen + 1 \in SleepGens
        /\ sleepGen' = sleepGen + 1 /\ sleepTimer' = sleepGen + 1 /\ sleepGroup' = all
        /\ UNCHANGED <<grouped, asked, awake>>
    BY <1>1 DEF ArmSleep, SleepGens
  <2>2. /\ callbacks' \in [SleepGens -> CallbackStates]
        /\ callbacks'[sleepGen'] = "armed" /\ \A g \in SleepGens : callbacks'[g] = "armed" => g = sleepGen'
    BY <2>1, StopReaches DEF CallbackStates
  <2>. QED
    BY <2>1, <2>2 DEF CallbackStates, SleepGens
<1>2. CASE CancelSleep
  <2>1. callbacks' = Stopped(callbacks) /\ sleepGen' = sleepGen + 1 /\ sleepTimer' = 0 /\ sleepGen' \in 0 .. MaxSleeps
      BY <1>2 DEF CancelSleep
  <2>. QED
    BY <1>2, <2>1, StopReaches DEF CancelSleep, CallbackStates
<1>3. CASE OtherSwitch
  BY <1>3 DEF OtherSwitch
<1>4. ASSUME NEW g \in SleepGens, TimeUp(g) PROVE SleepIInv'
  BY <1>4 DEF TimeUp, Callback, CallbackStates, SleepGens
<1>5. ASSUME NEW g \in SleepGens, FireSleep(g) PROVE SleepIInv'
  <2>1. CASE g # sleepGen
    BY <1>5, <2>1 DEF FireSleep, Callback, CallbackStates, SleepGens
  <2>2. CASE g = sleepGen
    <3>1. /\ callbacks[g] = "due" /\ callbacks' = [callbacks EXCEPT ![g] = "read"] /\ sleepTimer' = 0
          /\ grouped' = [grouped EXCEPT ![g] = sleepGroup] /\ UNCHANGED <<sleepGen, sleepGroup, asked, awake>>
      BY <1>5, <2>2 DEF FireSleep, Callback
    <3>2. /\ grouped' \in [SleepGens -> BOOLEAN] /\ callbacks' \in [SleepGens -> CallbackStates]
          /\ \A h \in SleepGens : h # g => callbacks'[h] = callbacks[h]
      BY <3>1 DEF CallbackStates
    <3>. QED
      BY <2>2, <3>1, <3>2 DEF CallbackStates, SleepGens
  <2>. QED
    BY <2>1, <2>2
<1>6. ASSUME NEW g \in SleepGens, ReadSource(g) PROVE SleepIInv'
  BY <1>6 DEF ReadSource, Callback, CallbackStates, SleepGens
<1>7. ASSUME NEW g \in SleepGens, StandbySelf(g) PROVE SleepIInv'
  <2>1. awake' \subseteq Speakers
    BY <1>7, RequestTyped DEF StandbySelf, Speakers
  <2>2. /\ callbacks' \in [SleepGens -> CallbackStates] /\ asked' \in [SleepGens -> SUBSET SleepMembers]
        /\ \A x \in SleepGens : x # g => callbacks'[x] = callbacks[x]
        /\ callbacks[g] = "off" /\ callbacks'[g] \in {"members", "over"}
        /\ UNCHANGED <<sleepTimer, sleepGen, sleepGroup, grouped>>
    BY <1>7 DEF StandbySelf, Callback, CallbackStates
  <2>. QED
    BY <2>1, <2>2 DEF CallbackStates, SleepGens
<1>8. ASSUME NEW g \in SleepGens, StandbyMember(g) PROVE SleepIInv'
  <2>1. awake' \subseteq Speakers
    BY <1>8, RequestTyped DEF StandbyMember, Speakers
  <2>2. /\ callbacks' \in [SleepGens -> CallbackStates] /\ asked' \in [SleepGens -> SUBSET SleepMembers]
        /\ \A x \in SleepGens : x # g => callbacks'[x] = callbacks[x]
        /\ callbacks[g] = "members" /\ callbacks'[g] \in {"members", "over"}
        /\ UNCHANGED <<sleepTimer, sleepGen, sleepGroup, grouped>>
    BY <1>8 DEF StandbyMember, Callback, CallbackStates
  <2>. QED
    BY <2>1, <2>2 DEF CallbackStates, SleepGens
<1>9. CASE UNCHANGED sleepVars
  BY <1>9 DEF sleepVars
<1>. QED
  BY <1>1, <1>2, <1>3, <1>4, <1>5, <1>6, <1>7, <1>8, <1>9 DEF SleepNext, Fire

-----------------------------------------------------------------------------
(***************************************************************************)
(* The stream of the Spotify engine.                                       *)
(***************************************************************************)

Attached == {"close", "fresh", "ask", "resume", "hold"}
FetchType ==
  [at : Attached \cup {"none", "header", "attach"}, again : BOOLEAN, before : Fetches \cup {Nobody}, done : BOOLEAN]
SourceType == [on : {"spotify", "other"}, open : SUBSET Fetches, away : BOOLEAN]
EngineType == [plays : BOOLEAN, heard : BOOLEAN, old : BOOLEAN]
PumpType == [at : {"page", "write", "pause"}, to : Fetches \cup {Nobody}, paused : BOOLEAN]
WindowType == [hold : {"none", "recalling", "hot"}, suppress : BOOLEAN, skip : BOOLEAN]
ExcusedType == [late : BOOLEAN, unseen : BOOLEAN, failed : BOOLEAN]

StreamTypes ==
  /\ source \in SourceType /\ engine \in EngineType /\ sink \in Fetches \cup {Nobody} /\ lastIn \in Fetches \cup {Nobody}
  /\ fetch \in [Fetches -> FetchType] /\ pump \in PumpType /\ (pump.at = "write" => pump.to \in Fetches)
  /\ recall \in {"none", "load", "resume"} /\ leaving \in {"none", "pause", "push"} /\ windows \in WindowType
  /\ pointing \in {"none", "before", "since"} /\ excused \in ExcusedType

\* The newest consumer is the sink while its connection lasts, and one that is not the sink has been
\* closed, or is about to be by the handler that took over from it.
Consumers ==
  /\ \A f \in Fetches : fetch[f].before # f /\ (fetch[f].before # Nobody => fetch[f].at = "close")
  /\ sink # Nobody => fetch[sink].at \in Attached
  /\ lastIn # Nobody /\ fetch[lastIn].at \in Attached /\ lastIn \in source.open /\ ~fetch[lastIn].done => sink = lastIn
  /\ \A f \in Fetches : fetch[f].at \in Attached /\ f # sink /\ f \in source.open /\ ~fetch[f].done => \E g \in Fetches : fetch[g].before = f

\* An engine that is silent for no reason that excuses it will be resumed by the recall under way, when
\* the sink's handler leaves that to a recall, and also while others would.
Silent == ~source.away /\ ~engine.plays /\ why \notin {"user", "crossed"} /\ ~excused.failed
Resumed ==
  /\ Silent /\ Recalling => recall # "none"
  /\ Silent /\ sink # Nobody /\ fetch[sink].at = "hold" => recall # "none"

\* After a switch away nothing of the engine is heard that could point the speaker back.
Away == source.away /\ ~excused.late
SwitchHolds ==
  /\ Away /\ leaving # "pause" => ~engine.plays
  /\ Away => windows.suppress \/ (leaving = "none" /\ ~engine.heard)
  /\ Away => pointing # "since"
  /\ Away /\ leaving = "none" => source.on = "other"

\* The cut of a skip outlasts the track skipped only when nobody was there at its end.
CutEnds == windows.skip /\ ~excused.unseen => engine.old

StreamIInv == StreamTypes /\ Consumers /\ Resumed /\ SwitchHolds /\ CutEnds

LEMMA BooleanConstants == TRUE \in BOOLEAN /\ FALSE \in BOOLEAN
  OBVIOUS

LEMMA InitStream == StreamInit => StreamIInv
<1>. SUFFICES ASSUME StreamInit PROVE StreamIInv
  OBVIOUS
<1>1. /\ source = [on |-> "other", open |-> {}, away |-> TRUE] /\ engine = [plays |-> FALSE, heard |-> FALSE, old |-> FALSE]
      /\ sink = Nobody /\ lastIn = Nobody /\ fetch = [f \in Fetches |-> NoFetch]
      /\ pump = [at |-> "page", to |-> Nobody, paused |-> FALSE] /\ recall = "none" /\ leaving = "none"
      /\ windows = [hold |-> "none", suppress |-> FALSE, skip |-> FALSE] /\ pointing = "none"
      /\ excused = [late |-> FALSE, unseen |-> FALSE, failed |-> FALSE]
  BY DEF StreamInit
<1>2. source \in SourceType
  BY <1>1, BooleanConstants DEF SourceType
<1>3. engine \in EngineType /\ pump \in PumpType /\ windows \in WindowType /\ excused \in ExcusedType
  BY <1>1, BooleanConstants DEF EngineType, PumpType, WindowType, ExcusedType
<1>4. fetch \in [Fetches -> FetchType] /\ \A f \in Fetches : fetch[f] = NoFetch
  <2>1. NoFetch \in FetchType
    BY BooleanConstants DEF NoFetch, FetchType, Attached
  <2>. QED
    BY <1>1, <2>1
<1>5. StreamTypes
  BY <1>1, <1>2, <1>3, <1>4 DEF StreamTypes
<1>6. Consumers
  BY <1>1, <1>4, StreamAssumption DEF Consumers, NoFetch, Attached
<1>7. Resumed /\ CutEnds
  BY <1>1 DEF Resumed, Recalling, CutEnds
<1>8. SwitchHolds
  BY <1>1 DEF SwitchHolds
<1>. QED
  BY <1>5, <1>6, <1>7, <1>8 DEF StreamIInv

LEMMA StreamHolds == StreamIInv => StreamInv
<1>. SUFFICES ASSUME StreamIInv PROVE StreamInv
  OBVIOUS
<1>1. NewestIsSink
  <2>0. Consumers
    BY DEF StreamIInv
  <2>1. lastIn # Nobody /\ fetch[lastIn].at \in {"close", "fresh", "ask", "resume", "hold"} /\ Live(lastIn) => sink = lastIn
    BY <2>0 DEF Consumers, Attached, Live
  <2>2. ASSUME NEW f \in Fetches, fetch[f].at = "hold", f # sink PROVE \E g \in Fetches : fetch[g].before = f \/ ~Live(f)
    <3>1. CASE Live(f)
      BY <2>0, <2>2, <3>1 DEF Consumers, Attached, Live
    <3>2. CASE ~Live(f)
      BY <3>2
    <3>. QED
      BY <3>1, <3>2
  <2>. QED
    BY <2>1, <2>2 DEF NewestIsSink, Live
<1>2. NoSilence
  <2>1. sink # Nobody => sink \in Fetches /\ fetch[sink].at # "none"
    BY DEF StreamIInv, StreamTypes, Consumers, Attached
  <2>. QED
    BY <2>1 DEF StreamIInv, Resumed, Silent, NoSilence, AtEase
<1>3. StaysAway
  BY DEF StreamIInv, SwitchHolds, Away, StaysAway
<1>4. CutsOldOnly
  BY DEF StreamIInv, CutEnds, CutsOldOnly
<1>. QED
  BY <1>1, <1>2, <1>3, <1>4 DEF StreamInv

\* A resume of the engine over its API, and a pause.
LEMMA PlaysLeaves ==
  ASSUME StreamTypes, NEW late \in BOOLEAN, Plays(late)
  PROVE  /\ engine' \in EngineType /\ engine'.plays /\ (engine'.old <=> engine.old)
         /\ excused' \in ExcusedType /\ (excused'.late <=> excused.late \/ late) /\ (excused'.unseen <=> excused.unseen)
<1>1. /\ engine' = [engine EXCEPT !.plays = TRUE, !.heard = engine.heard \/ ~engine.plays]
      /\ excused' = [excused EXCEPT !.late = excused.late \/ late, !.failed = FALSE] /\ engine \in EngineType /\ excused \in ExcusedType
  BY DEF Plays, StreamTypes
<1>2. PICK h \in BOOLEAN : engine' = [plays |-> TRUE, heard |-> h, old |-> engine.old] /\ engine.old \in BOOLEAN
  BY <1>1 DEF EngineType
<1>3. engine' \in EngineType
  BY <1>2, BooleanConstants DEF EngineType
<1>4. PICK l \in BOOLEAN : (l <=> excused.late \/ late) /\ excused' = [late |-> l, unseen |-> excused.unseen, failed |-> FALSE] /\ excused.unseen \in BOOLEAN
  BY <1>1 DEF ExcusedType
<1>5. excused' \in ExcusedType
  BY <1>4, BooleanConstants DEF ExcusedType
<1>. QED
  BY <1>2, <1>3, <1>4, <1>5

LEMMA PausesLeaves ==
  ASSUME StreamTypes, NEW reason, Pauses(reason)
  PROVE  /\ engine' \in EngineType /\ ~engine'.plays /\ (engine'.heard <=> engine.heard) /\ (engine'.old <=> engine.old)
         /\ why' = (IF engine.plays THEN reason ELSE why)
<1>1. engine' = [plays |-> FALSE, heard |-> engine.heard, old |-> engine.old] /\ engine \in EngineType
      /\ why' = (IF engine.plays THEN reason ELSE why)
  BY DEF Pauses, StreamTypes, EngineType
<1>2. engine' \in EngineType
  BY <1>1, BooleanConstants DEF EngineType
<1>. QED
  BY <1>1, <1>2

\* What a step leaves to show that changes nothing of the handlers.
LEMMA ConsumersKept ==
  ASSUME Consumers, fetch' = fetch, lastIn' = lastIn, sink' = sink, source'.open \subseteq source.open
  PROVE  Consumers'
  BY DEF Consumers

\* What a step leaves to show that leaves the engine, its excuses, the windows and the recall alone.
EngineKept == UNCHANGED <<engine, recall, why, excused>>

LEMMA ResumedKept ==
  ASSUME Resumed, EngineKept, source'.away <=> source.away, windows'.hold = windows.hold,
         sink' # Nobody /\ fetch'[sink'].at = "hold" => sink' = sink /\ fetch[sink].at = "hold"
  PROVE  Resumed'
  BY DEF Resumed, Silent, Recalling, EngineKept

LEMMA SwitchKept ==
  ASSUME SwitchHolds, EngineKept, source'.away <=> source.away, source'.on = source.on, leaving' = leaving, pointing' = pointing,
         windows.suppress => windows'.suppress
  PROVE  SwitchHolds'
  BY DEF SwitchHolds, Away, EngineKept

LEMMA CutKept ==
  ASSUME CutEnds, EngineKept, windows'.skip => windows.skip
  PROVE  CutEnds'
  BY DEF CutEnds, EngineKept

-----------------------------------------------------------------------------
LEMMA FetchStep ==
  ASSUME StreamIInv, NEW f \in Fetches, Fetch(f)
  PROVE  StreamIInv'
<1>0. StreamTypes /\ Consumers /\ Resumed /\ SwitchHolds /\ CutEnds /\ fetch[f].at = "none" /\ fetch \in [Fetches -> FetchType]
      /\ UNCHANGED <<engine, sink, lastIn, pump, recall, leaving, windows, pointing, why, excused>>
  BY DEF StreamIInv, Fetch, StreamTypes
<1>1. fetch' = [fetch EXCEPT ![f] = [NoFetch EXCEPT !.at = "header"]]
  BY DEF Fetch
<1>2. PICK open \in {{}, source.open} : source' = [source EXCEPT !.open = open \cup {f}]
  BY DEF Fetch
<1>3. [NoFetch EXCEPT !.at = "header"] \in FetchType
  BY BooleanConstants DEF NoFetch, FetchType
<1>4. /\ fetch' \in [Fetches -> FetchType] /\ fetch'[f].at = "header" /\ fetch'[f].before = Nobody
      /\ \A g \in Fetches : g # f => fetch'[g] = fetch[g]
  BY <1>0, <1>1, <1>3 DEF NoFetch
<1>5. source' \in SourceType /\ source'.on = source.on /\ (source'.away <=> source.away) /\ source'.open \subseteq source.open \cup {f}
  BY <1>0, <1>2 DEF StreamTypes, SourceType
<1>6. StreamTypes'
  BY <1>0, <1>4, <1>5 DEF StreamTypes
<1>7. Consumers'
  <2>1. \A g \in Fetches : fetch'[g].before # g /\ (fetch'[g].before # Nobody => fetch'[g].at = "close")
    BY <1>0, <1>4, StreamAssumption DEF Consumers, Attached
  <2>2. ASSUME NEW g \in Fetches, fetch'[g].at \in Attached, g \in source'.open PROVE g # f /\ fetch'[g] = fetch[g] /\ g \in source.open
    <3>1. g # f
      BY <1>4, <2>2 DEF Attached
    <3>. QED
      BY <1>4, <1>5, <2>2, <3>1
  <2>3. lastIn' # Nobody /\ fetch'[lastIn'].at \in Attached /\ lastIn' \in source'.open /\ ~fetch'[lastIn'].done => sink' = lastIn'
    BY <1>0, <2>2 DEF Consumers, StreamTypes
  <2>4. ASSUME NEW g \in Fetches, fetch'[g].at \in Attached, g # sink', g \in source'.open, ~fetch'[g].done
        PROVE  \E h \in Fetches : fetch'[h].before = g
    <3>1. PICK h \in Fetches : fetch[h].before = g
      BY <1>0, <2>2, <2>4 DEF Consumers
    <3>2. h # f
      BY <1>0, <2>4, <3>1, StreamAssumption DEF Consumers
    <3>. QED
      BY <1>4, <3>1, <3>2
  <2>5. sink' # Nobody => fetch'[sink'].at \in Attached
    BY <1>0, <1>4 DEF Consumers, StreamTypes, Attached
  <2>. QED
    BY <2>1, <2>3, <2>4, <2>5 DEF Consumers
<1>8. Resumed' /\ SwitchHolds' /\ CutEnds'
  <2>1. sink' # Nobody /\ fetch'[sink'].at = "hold" => sink' = sink /\ fetch[sink].at = "hold"
    BY <1>0, <1>4 DEF StreamTypes
  <2>. QED
    BY <1>0, <1>5, <2>1, ResumedKept, SwitchKept, CutKept DEF EngineKept
<1>. QED
  BY <1>6, <1>7, <1>8 DEF StreamIInv

\* A step of the handler of f that stays attached or goes no further than to attach: it alone moves.
LEMMA HandlerMoves ==
  ASSUME StreamIInv, NEW f \in Fetches, NEW u \in FetchType, fetch' = [fetch EXCEPT ![f] = u],
         u.before = Nobody, u.at \in Attached => fetch[f].at \in Attached, fetch[f].at \in Attached => u.at \in Attached,
         u.done <=> fetch[f].done, fetch[f].at # "close",
         UNCHANGED <<sink, lastIn, pump, leaving, pointing, recall, source>>
  PROVE  /\ fetch' \in [Fetches -> FetchType] /\ fetch'[f] = u /\ (\A g \in Fetches : g # f => fetch'[g] = fetch[g])
         /\ Consumers'
<1>0. StreamTypes /\ Consumers /\ fetch \in [Fetches -> FetchType]
  BY DEF StreamIInv, StreamTypes
<1>1. fetch' \in [Fetches -> FetchType] /\ fetch'[f] = u /\ (\A g \in Fetches : g # f => fetch'[g] = fetch[g])
  BY <1>0
<1>2. \A g \in Fetches : fetch'[g].before = fetch[g].before /\ (fetch'[g].at \in Attached <=> fetch[g].at \in Attached)
                         /\ (fetch'[g].done <=> fetch[g].done)
  BY <1>0, <1>1 DEF Consumers
<1>3. \A g \in Fetches : fetch'[g].before # g /\ (fetch'[g].before # Nobody => fetch'[g].at = "close")
  BY <1>0, <1>1, StreamAssumption DEF Consumers, Attached
<1>4. sink' # Nobody => fetch'[sink'].at \in Attached
  BY <1>0, <1>2 DEF Consumers, StreamTypes
<1>5. lastIn' # Nobody /\ fetch'[lastIn'].at \in Attached /\ lastIn' \in source'.open /\ ~fetch'[lastIn'].done => sink' = lastIn'
  BY <1>0, <1>2 DEF Consumers, StreamTypes
<1>6. \A g \in Fetches : fetch'[g].at \in Attached /\ g # sink' /\ g \in source'.open /\ ~fetch'[g].done => \E h \in Fetches : fetch'[h].before = g
  BY <1>0, <1>2 DEF Consumers
<1>. QED
  BY <1>1, <1>3, <1>4, <1>5, <1>6 DEF Consumers

LEMMA HeaderStep ==
  ASSUME StreamIInv, NEW f \in Fetches, Header(f)
  PROVE  StreamIInv'
<1>. DEFINE u == IF f \in source.open THEN [fetch[f] EXCEPT !.at = "attach"] ELSE NoFetch
<1>0. /\ StreamTypes /\ Consumers /\ Resumed /\ SwitchHolds /\ CutEnds /\ fetch[f].at = "header" /\ fetch[f] \in FetchType
      /\ UNCHANGED <<sink, lastIn, windows, source, engine, pump, recall, leaving, pointing, why, excused>>
      /\ fetch' = [fetch EXCEPT ![f] = u] /\ fetch[f].before = Nobody /\ fetch \in [Fetches -> FetchType]
  <2>1. StreamTypes /\ Consumers /\ fetch[f] \in FetchType /\ fetch[f].at = "header" /\ fetch \in [Fetches -> FetchType]
    BY DEF StreamIInv, StreamTypes, Header
  <2>2. fetch[f].before = Nobody
    BY <2>1 DEF Consumers
  <2>3. fetch' = [fetch EXCEPT ![f] = u]
    BY <2>1 DEF Header
  <2>. QED
    BY <2>1, <2>2, <2>3 DEF StreamIInv, Header, HandlerOnly
<1>1. u \in FetchType /\ u.before = Nobody /\ u.at \notin Attached /\ u.at # "hold"
  <2>1. NoFetch \in FetchType /\ NoFetch.before = Nobody /\ NoFetch.at = "none"
    BY BooleanConstants DEF NoFetch, FetchType
  <2>2. [fetch[f] EXCEPT !.at = "attach"] \in FetchType
    BY <1>0 DEF FetchType
  <2>3. [fetch[f] EXCEPT !.at = "attach"].before = Nobody /\ [fetch[f] EXCEPT !.at = "attach"].at = "attach"
    BY <1>0 DEF FetchType
  <2>. QED
    BY <2>1, <2>2, <2>3 DEF Attached
<1>. HIDE DEF u
<1>2. /\ fetch' \in [Fetches -> FetchType] /\ fetch'[f] = u /\ \A g \in Fetches : g # f => fetch'[g] = fetch[g]
  BY <1>0, <1>1
<1>3. StreamTypes'
  BY <1>0, <1>2 DEF StreamTypes
<1>4. Consumers'
  <2>1. \A g \in Fetches : fetch'[g].before = fetch[g].before /\ (fetch'[g].at \in Attached => fetch'[g] = fetch[g])
                           /\ (fetch[g].at \in Attached => fetch'[g] = fetch[g])
    BY <1>0, <1>1, <1>2 DEF Attached
  <2>2. \A g \in Fetches : fetch'[g].before # g /\ (fetch'[g].before # Nobody => fetch'[g].at = "close")
    BY <1>0, <1>1, <1>2, StreamAssumption DEF Consumers, Attached
  <2>. QED
    BY <1>0, <2>1, <2>2 DEF Consumers, StreamTypes
<1>5. sink' # Nobody /\ fetch'[sink'].at = "hold" => sink' = sink /\ fetch[sink].at = "hold"
  BY <1>0, <1>1, <1>2 DEF StreamTypes
<1>. QED
  BY <1>0, <1>3, <1>4, <1>5, ResumedKept, SwitchKept, CutKept DEF StreamIInv, EngineKept

LEMMA AttachStep ==
  ASSUME StreamIInv, NEW f \in Fetches, Attach(f)
  PROVE  StreamIInv'
<1>. DEFINE u == [fetch[f] EXCEPT !.at = "close", !.again = sink # Nobody, !.before = sink]
<1>0. /\ StreamTypes /\ Consumers /\ Resumed /\ SwitchHolds /\ CutEnds /\ fetch[f].at = "attach" /\ fetch[f] \in FetchType
      /\ UNCHANGED <<windows, source, engine, pump, recall, leaving, pointing, why, excused>> /\ sink' = f /\ lastIn' = f
      /\ fetch' = [fetch EXCEPT ![f] = u] /\ fetch \in [Fetches -> FetchType] /\ sink \in Fetches \cup {Nobody}
  BY DEF StreamIInv, StreamTypes, Attach, HandlerOnly
<1>1. u \in FetchType /\ u.at = "close" /\ u.before = sink
  <2>0. (sink # Nobody) \in BOOLEAN
    OBVIOUS
  <2>1. PICK b \in BOOLEAN : b = (sink # Nobody)
    BY <2>0
  <2>a. u = [fetch[f] EXCEPT !.at = "close", !.again = b, !.before = sink]
    BY <2>1, Zenon
  <2>. HIDE DEF u
  <2>2. u = [at |-> "close", again |-> b, before |-> sink, done |-> fetch[f].done] /\ fetch[f].done \in BOOLEAN
    BY <1>0, <2>a DEF FetchType
  <2>3. u \in FetchType
    BY <1>0, <2>2 DEF FetchType, Attached
  <2>. QED
    BY <2>2, <2>3
<1>. HIDE DEF u
<1>2. /\ fetch' \in [Fetches -> FetchType] /\ fetch'[f] = u /\ \A g \in Fetches : g # f => fetch'[g] = fetch[g]
  BY <1>0, <1>1
<1>3. StreamTypes'
  BY <1>0, <1>2 DEF StreamTypes
<1>4. Consumers'
  <2>1. \A g \in Fetches : fetch'[g].before # g /\ (fetch'[g].before # Nobody => fetch'[g].at = "close")
    BY <1>0, <1>1, <1>2, StreamAssumption DEF Consumers, Attached
  <2>2. ASSUME NEW g \in Fetches, fetch'[g].at \in Attached, g # f, g \in source.open, ~fetch'[g].done
        PROVE  \E h \in Fetches : fetch'[h].before = g
    <3>1. CASE g = sink
      BY <1>1, <1>2, <3>1
    <3>2. CASE g # sink
      <4>1. PICK h \in Fetches : fetch[h].before = g
        BY <1>0, <1>2, <2>2, <3>2 DEF Consumers
      <4>2. h # f
        BY <1>0, <4>1, StreamAssumption DEF Consumers
      <4>. QED
        BY <1>2, <4>1, <4>2
    <3>. QED
      BY <3>1, <3>2
  <2>. QED
    BY <1>0, <1>1, <1>2, <2>1, <2>2 DEF Consumers, Attached
<1>5. ~(sink' # Nobody /\ fetch'[sink'].at = "hold")
  BY <1>0, <1>1, <1>2
<1>. QED
  BY <1>0, <1>3, <1>4, <1>5, ResumedKept, SwitchKept, CutKept DEF StreamIInv, EngineKept

LEMMA ClosesStep ==
  ASSUME StreamIInv, NEW f \in Fetches, Closes(f)
  PROVE  StreamIInv'
<1>. DEFINE u == [fetch[f] EXCEPT !.at = IF fetch[f].again THEN "ask" ELSE "fresh", !.before = Nobody]
            g == fetch[f].before
<1>0. /\ StreamTypes /\ Consumers /\ Resumed /\ SwitchHolds /\ CutEnds /\ fetch[f].at = "close"
      /\ UNCHANGED <<sink, lastIn, source, engine, pump, recall, leaving, pointing, why, excused>>
      /\ fetch' = [h \in Fetches |-> IF h = f THEN u ELSE IF h = g /\ fetch[h].at # "none" THEN [fetch[h] EXCEPT !.done = TRUE] ELSE fetch[h]]
      /\ windows' \in {windows, [windows EXCEPT !.suppress = TRUE]} /\ \A h \in Fetches : fetch[h] \in FetchType
  BY DEF StreamIInv, StreamTypes, Closes, HandlerOnly
<1>1. u \in FetchType /\ u.at \in {"ask", "fresh"} /\ u.before = Nobody /\ (u.done <=> fetch[f].done)
  <2>1. PICK p \in {"ask", "fresh"} : u = [fetch[f] EXCEPT !.at = p, !.before = Nobody]
    OBVIOUS
  <2>. HIDE DEF u
  <2>2. u \in FetchType
    BY <1>0, <2>1 DEF FetchType, Attached
  <2>. QED
    BY <1>0, <2>1, <2>2 DEF FetchType
<1>. HIDE DEF u
<1>2. ASSUME NEW h \in Fetches, h # f
      PROVE  /\ fetch'[h] \in FetchType /\ fetch'[h].at = fetch[h].at /\ fetch'[h].before = fetch[h].before
             /\ fetch'[h].done <=> fetch[h].done \/ (h = g /\ fetch[h].at # "none")
  <2>1. CASE h = g /\ fetch[h].at # "none"
    <3>1. fetch'[h] = [fetch[h] EXCEPT !.done = TRUE]
      BY <1>0, <1>2, <2>1
    <3>2. fetch'[h] \in FetchType
      BY <1>0, <3>1 DEF FetchType
    <3>. QED
      BY <1>0, <2>1, <3>1, <3>2 DEF FetchType
  <2>2. CASE ~(h = g /\ fetch[h].at # "none")
    <3>1. fetch'[h] = fetch[h]
      BY <1>0, <1>2, <2>2
    <3>. QED
      BY <1>0, <2>2, <3>1
  <2>. QED
    BY <2>1, <2>2
<1>3. fetch'[f] = u
  BY <1>0
<1>4. windows' \in WindowType /\ windows'.hold = windows.hold /\ (windows.suppress => windows'.suppress) /\ (windows'.skip <=> windows.skip)
  BY <1>0 DEF StreamTypes, WindowType
<1>5. StreamTypes'
  <2>1. fetch' \in [Fetches -> FetchType]
    BY <1>0, <1>1, <1>2, <1>3
  <2>. QED
    BY <1>0, <1>4, <2>1 DEF StreamTypes
<1>6. \A h \in Fetches : fetch'[h].at \in Attached <=> fetch[h].at \in Attached
  BY <1>0, <1>1, <1>2, <1>3 DEF Attached
<1>7. \A h \in Fetches : ~fetch'[h].done => ~fetch[h].done
  BY <1>1, <1>2, <1>3
<1>8. Consumers'
  <2>1. \A h \in Fetches : fetch'[h].before # h /\ (fetch'[h].before # Nobody => fetch'[h].at = "close")
    BY <1>0, <1>1, <1>2, <1>3, StreamAssumption DEF Consumers
  <2>2. sink' # Nobody => fetch'[sink'].at \in Attached
    BY <1>0, <1>6 DEF Consumers, StreamTypes
  <2>3. lastIn' # Nobody /\ fetch'[lastIn'].at \in Attached /\ lastIn' \in source'.open /\ ~fetch'[lastIn'].done => sink' = lastIn'
    BY <1>0, <1>6, <1>7 DEF Consumers, StreamTypes
  <2>4. ASSUME NEW h \in Fetches, fetch'[h].at \in Attached, h # sink', h \in source'.open, ~fetch'[h].done
        PROVE  \E k \in Fetches : fetch'[k].before = h
    <3>1. PICK k \in Fetches : fetch[k].before = h
      BY <1>0, <1>6, <1>7, <2>4 DEF Consumers
    <3>2. k # f
      <4>1. SUFFICES ASSUME k = f PROVE FALSE
        OBVIOUS
      <4>2. h = g /\ h # f
        BY <1>0, <3>1, <4>1 DEF Consumers
      <4>3. fetch[h].at # "none"
        BY <1>6, <2>4 DEF Attached
      <4>. QED
        BY <1>2, <2>4, <4>2, <4>3
    <3>. QED
      BY <1>2, <3>1, <3>2
  <2>. QED
    BY <2>1, <2>2, <2>3, <2>4 DEF Consumers
<1>9. sink' # Nobody /\ fetch'[sink'].at = "hold" => sink' = sink /\ fetch[sink].at = "hold"
  BY <1>0, <1>1, <1>2, <1>3 DEF StreamTypes
<1>. QED
  BY <1>0, <1>4, <1>5, <1>8, <1>9, ResumedKept, SwitchKept, CutKept DEF StreamIInv, EngineKept

\* A handler that leaves the engine to a recall does so while there is one.
LEMMA AskStep ==
  ASSUME StreamIInv, NEW f \in Fetches, Ask(f)
  PROVE  StreamIInv'
<1>. DEFINE u == [fetch[f] EXCEPT !.at = IF Recalling THEN "hold" ELSE "resume"]
<1>0. /\ StreamTypes /\ Consumers /\ Resumed /\ SwitchHolds /\ CutEnds /\ fetch[f].at \in {"fresh", "ask"} /\ fetch[f] \in FetchType
      /\ UNCHANGED <<sink, lastIn, windows, source, engine, pump, recall, leaving, pointing, why, excused>>
      /\ fetch' = [fetch EXCEPT ![f] = u] /\ fetch[f].before = Nobody /\ fetch \in [Fetches -> FetchType]
  <2>1. StreamTypes /\ Consumers /\ fetch[f] \in FetchType /\ fetch[f].at \in {"fresh", "ask"} /\ fetch \in [Fetches -> FetchType]
    BY DEF StreamIInv, StreamTypes, Ask
  <2>2. fetch[f].before = Nobody
    BY <2>1 DEF Consumers
  <2>3. fetch' = [fetch EXCEPT ![f] = u]
    BY <2>1 DEF Ask, To
  <2>. QED
    BY <2>1, <2>2, <2>3 DEF StreamIInv, Ask, HandlerOnly
<1>1. u \in FetchType /\ u.at \in {"hold", "resume"} /\ (u.at = "hold" => Recalling) /\ u.before = Nobody /\ (u.done <=> fetch[f].done)
  <2>1. PICK p \in {"hold", "resume"} : u = [fetch[f] EXCEPT !.at = p] /\ (p = "hold" => Recalling)
    OBVIOUS
  <2>. HIDE DEF u
  <2>2. u \in FetchType
    BY <1>0, <2>1 DEF FetchType, Attached
  <2>. QED
    BY <1>0, <2>1, <2>2 DEF FetchType
<1>. HIDE DEF u
<1>2. /\ fetch' \in [Fetches -> FetchType] /\ fetch'[f] = u /\ (\A g \in Fetches : g # f => fetch'[g] = fetch[g])
      /\ Consumers'
  BY <1>0, <1>1, HandlerMoves DEF Attached
<1>3. StreamTypes'
  BY <1>0, <1>2 DEF StreamTypes
<1>4. Resumed'
  BY <1>0, <1>1, <1>2 DEF Resumed, Silent, Recalling, StreamTypes
<1>. QED
  BY <1>0, <1>2, <1>3, <1>4, SwitchKept, CutKept DEF StreamIInv, EngineKept

\* A resume while the user wants another source is excused.
LEMMA PlaysKeeps ==
  ASSUME StreamIInv, NEW late \in BOOLEAN, Plays(late), source.away => late \/ ~source'.away, source'.away => source.away,
         UNCHANGED <<leaving, pointing, windows>>
  PROVE  engine' \in EngineType /\ excused' \in ExcusedType /\ Resumed' /\ SwitchHolds' /\ CutEnds'
<1>0. StreamTypes /\ CutEnds
  BY DEF StreamIInv
<1>1. /\ engine' \in EngineType /\ engine'.plays /\ (engine'.old <=> engine.old)
      /\ excused' \in ExcusedType /\ (excused'.late <=> excused.late \/ late) /\ (excused'.unseen <=> excused.unseen)
  BY <1>0, PlaysLeaves
<1>. QED
  BY <1>0, <1>1 DEF Resumed, Silent, SwitchHolds, Away, CutEnds

LEMMA ResumeStep ==
  ASSUME StreamIInv, NEW f \in Fetches, Resume(f)
  PROVE  StreamIInv'
<1>. DEFINE u == [fetch[f] EXCEPT !.at = "hold"]
<1>0. /\ StreamTypes /\ Consumers /\ fetch[f].at = "resume" /\ fetch[f] \in FetchType /\ source.away \in BOOLEAN
      /\ UNCHANGED <<source, sink, lastIn, pump, recall, leaving, windows, pointing>> /\ Plays(source.away)
      /\ fetch' = [fetch EXCEPT ![f] = u] /\ fetch \in [Fetches -> FetchType]
  BY DEF StreamIInv, StreamTypes, SourceType, Resume, To
<1>1. u \in FetchType /\ u.at = "hold" /\ u.before = fetch[f].before /\ (u.done <=> fetch[f].done)
  <2>1. u \in FetchType
    BY <1>0 DEF FetchType, Attached
  <2>. QED
    BY <1>0, <2>1 DEF FetchType
<1>. HIDE DEF u
<1>2. fetch[f].before = Nobody
  BY <1>0 DEF Consumers
<1>3. fetch' \in [Fetches -> FetchType] /\ Consumers'
  BY <1>0, <1>1, <1>2, HandlerMoves DEF Attached
<1>4. engine' \in EngineType /\ excused' \in ExcusedType /\ Resumed' /\ SwitchHolds' /\ CutEnds'
  BY <1>0, PlaysKeeps
<1>5. StreamTypes'
  BY <1>0, <1>3, <1>4 DEF StreamTypes
<1>. QED
  BY <1>3, <1>4, <1>5 DEF StreamIInv

LEMMA EndedStep ==
  ASSUME StreamIInv, NEW f \in Fetches, Ended(f)
  PROVE  StreamIInv'
<1>0. /\ StreamTypes /\ Consumers /\ Resumed /\ SwitchHolds /\ CutEnds /\ fetch[f].at = "hold" /\ fetch \in [Fetches -> FetchType]
      /\ UNCHANGED <<engine, lastIn, pump, recall, leaving, windows, pointing, why, excused>>
      /\ fetch' = [fetch EXCEPT ![f] = NoFetch] /\ source' = [source EXCEPT !.open = source.open \ {f}]
      /\ sink' = (IF sink = f THEN Nobody ELSE sink)
  BY DEF StreamIInv, StreamTypes, Ended, Detach
<1>1. NoFetch \in FetchType /\ NoFetch.before = Nobody /\ NoFetch.at = "none"
  BY BooleanConstants DEF NoFetch, FetchType
<1>2. /\ fetch' \in [Fetches -> FetchType] /\ fetch'[f] = NoFetch /\ \A g \in Fetches : g # f => fetch'[g] = fetch[g]
  BY <1>0, <1>1
<1>3. /\ source' \in SourceType /\ source'.on = source.on /\ (source'.away <=> source.away) /\ source'.open = source.open \ {f}
  BY <1>0 DEF StreamTypes, SourceType
<1>4. StreamTypes'
  BY <1>0, <1>2, <1>3 DEF StreamTypes
<1>5. Consumers'
  <2>1. \A g \in Fetches : fetch'[g].before # g /\ (fetch'[g].before # Nobody => fetch'[g].at = "close")
    BY <1>0, <1>1, <1>2, StreamAssumption DEF Consumers
  <2>2. sink' # Nobody => fetch'[sink'].at \in Attached
    BY <1>0, <1>2 DEF Consumers, StreamTypes
  <2>3. lastIn' # Nobody /\ fetch'[lastIn'].at \in Attached /\ lastIn' \in source'.open /\ ~fetch'[lastIn'].done => sink' = lastIn'
    BY <1>0, <1>1, <1>2, <1>3 DEF Consumers, StreamTypes, Attached
  <2>4. ASSUME NEW g \in Fetches, fetch'[g].at \in Attached, g # sink', g \in source'.open, ~fetch'[g].done
        PROVE  \E h \in Fetches : fetch'[h].before = g
    <3>1. g # f /\ g # sink /\ fetch'[g] = fetch[g] /\ g \in source.open
      BY <1>0, <1>2, <1>3, <2>4
    <3>2. PICK h \in Fetches : fetch[h].before = g
      BY <1>0, <2>4, <3>1 DEF Consumers
    <3>3. h # f
      BY <1>0, <3>2, StreamAssumption DEF Consumers
    <3>. QED
      BY <1>2, <3>2, <3>3
  <2>. QED
    BY <2>1, <2>2, <2>3, <2>4 DEF Consumers
<1>6. sink' # Nobody /\ fetch'[sink'].at = "hold" => sink' = sink /\ fetch[sink].at = "hold"
  BY <1>0, <1>2 DEF StreamTypes
<1>. QED
  BY <1>0, <1>3, <1>4, <1>5, <1>6, ResumedKept, SwitchKept, CutKept DEF StreamIInv, EngineKept

LEMMA OggHandlerStep ==
  ASSUME StreamIInv, NEW f \in Fetches, OggHandler(f)
  PROVE  StreamIInv'
  BY HeaderStep, AttachStep, ClosesStep, AskStep, ResumeStep, EndedStep DEF OggHandler

-----------------------------------------------------------------------------
LEMMA ReadsPageStep ==
  ASSUME StreamIInv, ReadsPage
  PROVE  StreamIInv'
<1>0. /\ StreamTypes /\ Consumers /\ Resumed /\ SwitchHolds /\ CutEnds
      /\ UNCHANGED <<engine, sink, fetch, windows, why, excused, source, lastIn, recall, leaving, pointing>>
      /\ pump' = IF sink # Nobody THEN [at |-> "write", to |-> sink, paused |-> FALSE]
                 ELSE [pump EXCEPT !.at = IF pump.paused \/ Hot THEN "page" ELSE "pause"]
  BY DEF StreamIInv, ReadsPage, PumpOnly
<1>1. pump' \in PumpType /\ (pump'.at = "write" => pump'.to \in Fetches)
  <2>1. CASE sink # Nobody
    BY <1>0, <2>1, BooleanConstants DEF StreamTypes, PumpType
  <2>2. CASE sink = Nobody
    <3>1. PICK p \in {"page", "pause"} : pump' = [pump EXCEPT !.at = p]
      BY <1>0, <2>2
    <3>. QED
      BY <1>0, <3>1 DEF StreamTypes, PumpType
  <2>. QED
    BY <2>1, <2>2
<1>2. StreamTypes'
  BY <1>0, <1>1 DEF StreamTypes
<1>. QED
  BY <1>0, <1>2, ConsumersKept, ResumedKept, SwitchKept, CutKept DEF StreamIInv, EngineKept

\* A page that cannot be written ends its consumer, which then is none of a handler still at work.
LEMMA WritesStep ==
  ASSUME StreamIInv, Writes
  PROVE  StreamIInv'
<1>. DEFINE f == pump.to
<1>0. /\ StreamTypes /\ Consumers /\ Resumed /\ SwitchHolds /\ CutEnds /\ f \in Fetches /\ pump \in PumpType /\ fetch \in [Fetches -> FetchType]
      /\ UNCHANGED <<engine, windows, why, excused, source, lastIn, recall, leaving, pointing>>
      /\ pump' = [pump EXCEPT !.at = "page", !.to = Nobody]
      /\ IF f \in source.open THEN UNCHANGED <<sink, fetch>>
         ELSE Detach(f) /\ fetch' = [fetch EXCEPT ![f].done = fetch[f].done \/ fetch[f].at # "none"]
  BY DEF StreamIInv, StreamTypes, Writes, PumpOnly
<1>1. pump' \in PumpType /\ pump'.at = "page"
  BY <1>0 DEF PumpType
<1>. HIDE DEF f
<1>2. CASE f \in source.open
  <2>1. StreamTypes'
    BY <1>0, <1>1, <1>2 DEF StreamTypes
  <2>. QED
    BY <1>0, <1>2, <2>1, ConsumersKept, ResumedKept, SwitchKept, CutKept DEF StreamIInv, EngineKept
<1>3. CASE f \notin source.open
  <2>1. sink' = (IF sink = f THEN Nobody ELSE sink) /\ \E d \in BOOLEAN : fetch' = [fetch EXCEPT ![f].done = d]
    <3>1. (fetch[f].done \/ fetch[f].at # "none") \in BOOLEAN
      OBVIOUS
    <3>. QED
      BY <1>0, <1>3, <3>1, Zenon DEF Detach
  <2>2. PICK d \in BOOLEAN : fetch' = [fetch EXCEPT ![f].done = d]
    BY <2>1
  <2>3. [fetch[f] EXCEPT !.done = d] \in FetchType
    BY <1>0 DEF FetchType
  <2>4. fetch' = [fetch EXCEPT ![f] = [fetch[f] EXCEPT !.done = d]]
    BY <2>2
  <2>5. /\ fetch' \in [Fetches -> FetchType] /\ \A g \in Fetches : g # f => fetch'[g] = fetch[g]
        /\ fetch'[f].at = fetch[f].at /\ fetch'[f].before = fetch[f].before
    BY <1>0, <2>3, <2>4 DEF FetchType
  <2>6. StreamTypes'
    BY <1>0, <1>1, <2>1, <2>5 DEF StreamTypes
  <2>7. Consumers'
    <3>1. \A g \in Fetches : fetch'[g].before = fetch[g].before /\ fetch'[g].at = fetch[g].at
      BY <2>5
    <3>2. \A g \in Fetches : g \in source'.open => g # f /\ fetch'[g] = fetch[g]
      BY <1>0, <1>3, <2>5
    <3>3. sink' # Nobody => sink' = sink
      BY <2>1
    <3>4. lastIn' # Nobody /\ fetch'[lastIn'].at \in Attached /\ lastIn' \in source'.open /\ ~fetch'[lastIn'].done => sink' = lastIn'
      BY <1>0, <2>1, <3>2 DEF Consumers, StreamTypes
    <3>5. ASSUME NEW g \in Fetches, fetch'[g].at \in Attached, g # sink', g \in source'.open, ~fetch'[g].done
          PROVE  \E h \in Fetches : fetch'[h].before = g
      <4>1. g # f /\ fetch'[g] = fetch[g] /\ g # sink
        BY <2>1, <3>2, <3>5
      <4>2. \E h \in Fetches : fetch[h].before = g
        BY <1>0, <3>5, <4>1 DEF Consumers
      <4>. QED
        BY <3>1, <4>2
    <3>. QED
      BY <1>0, <3>1, <3>3, <3>4, <3>5 DEF Consumers, StreamTypes
  <2>8. sink' # Nobody /\ fetch'[sink'].at = "hold" => sink' = sink /\ fetch[sink].at = "hold"
    BY <1>0, <2>1, <2>5 DEF StreamTypes
  <2>. QED
    BY <1>0, <2>6, <2>7, <2>8, ResumedKept, SwitchKept, CutKept DEF StreamIInv, EngineKept
<1>. QED
  BY <1>2, <1>3

\* A pause keeps what is owed to the user; its reason excuses it, or there is nobody, or a recall follows.
LEMMA PausesKeeps ==
  ASSUME StreamIInv, NEW reason, Pauses(reason), fetch' = fetch, sink' = sink,
         \/ reason \in {"user", "crossed"} /\ recall' = recall /\ windows' = windows
         \/ recall' # "none"
         \/ source'.away
         \/ sink = Nobody /\ ~Recalling /\ recall' = recall /\ windows' = windows,
         source'.away <=> source.away, excused'.failed <=> excused.failed
  PROVE  Resumed'
<1>0. StreamTypes /\ Resumed /\ engine \in EngineType
  BY DEF StreamIInv, StreamTypes
<1>1. ~engine'.plays /\ why' = (IF engine.plays THEN reason ELSE why)
  BY <1>0, PausesLeaves
<1>. QED
  BY <1>0, <1>1 DEF Resumed, Silent, Recalling

LEMMA PumpPausesStep ==
  ASSUME StreamIInv, PumpPauses
  PROVE  StreamIInv'
<1>0. /\ StreamTypes /\ Consumers /\ SwitchHolds /\ CutEnds /\ pump \in PumpType
      /\ UNCHANGED <<sink, fetch, windows, excused, source, lastIn, recall, leaving, pointing>>
      /\ pump' = [pump EXCEPT !.at = "page", !.paused = TRUE] /\ Pauses(IF sink = Nobody /\ ~Hot THEN "idle" ELSE "crossed")
  BY DEF StreamIInv, StreamTypes, PumpPauses, PumpOnly
<1>1. pump' \in PumpType /\ pump'.at = "page"
  BY <1>0, BooleanConstants DEF PumpType
<1>2. engine' \in EngineType /\ ~engine'.plays /\ (engine'.heard <=> engine.heard) /\ (engine'.old <=> engine.old)
  BY <1>0, PausesLeaves
<1>3. Resumed'
  <2>1. CASE sink = Nobody /\ ~Hot
    BY <1>0, <2>1, PausesKeeps DEF Hot, Recalling
  <2>2. CASE ~(sink = Nobody /\ ~Hot)
    BY <1>0, <2>2, PausesKeeps
  <2>. QED
    BY <2>1, <2>2
<1>4. SwitchHolds' /\ CutEnds'
  BY <1>0, <1>2 DEF SwitchHolds, Away, CutEnds
<1>5. StreamTypes'
  BY <1>0, <1>1, <1>2 DEF StreamTypes
<1>. QED
  BY <1>0, <1>3, <1>4, <1>5, ConsumersKept DEF StreamIInv

LEMMA BoundaryStep ==
  ASSUME StreamIInv, Boundary
  PROVE  StreamIInv'
<1>0. /\ StreamTypes /\ Consumers /\ Resumed /\ SwitchHolds /\ CutEnds /\ engine.plays /\ engine.old /\ engine \in EngineType
      /\ windows \in WindowType /\ excused \in ExcusedType
      /\ UNCHANGED <<sink, fetch, pump, why, source, lastIn, recall, leaving, pointing>>
      /\ engine' = [engine EXCEPT !.old = FALSE, !.heard = TRUE]
      /\ windows' = [windows EXCEPT !.skip = windows.skip /\ sink = Nobody]
      /\ excused' = [excused EXCEPT !.unseen = excused.unseen \/ (windows.skip /\ sink = Nobody)]
  BY DEF StreamIInv, StreamTypes, Boundary, PumpOnly
<1>1. engine' \in EngineType /\ (engine'.plays <=> engine.plays)
  <2>1. engine' = [plays |-> engine.plays, heard |-> TRUE, old |-> FALSE] /\ engine.plays \in BOOLEAN
    BY <1>0 DEF EngineType
  <2>2. engine' \in EngineType
    BY <2>1, BooleanConstants DEF EngineType
  <2>. QED
    BY <2>1, <2>2
<1>2. /\ windows' \in WindowType /\ windows'.hold = windows.hold /\ (windows'.suppress <=> windows.suppress)
      /\ (windows'.skip <=> windows.skip /\ sink = Nobody)
  <2>1. (windows.skip /\ sink = Nobody) \in BOOLEAN
    OBVIOUS
  <2>2. PICK s \in BOOLEAN : s = (windows.skip /\ sink = Nobody)
    BY <2>1
  <2>3. windows' = [windows EXCEPT !.skip = s]
    BY <1>0, <2>2, Zenon
  <2>4. windows' \in WindowType
    BY <1>0, <2>3 DEF WindowType
  <2>. QED
    BY <1>0, <2>2, <2>3, <2>4 DEF WindowType
<1>3. /\ excused' \in ExcusedType /\ (excused'.late <=> excused.late) /\ (excused'.failed <=> excused.failed)
      /\ (excused'.unseen <=> excused.unseen \/ (windows.skip /\ sink = Nobody))
  <2>1. (excused.unseen \/ (windows.skip /\ sink = Nobody)) \in BOOLEAN
    OBVIOUS
  <2>2. PICK s \in BOOLEAN : s = (excused.unseen \/ (windows.skip /\ sink = Nobody))
    BY <2>1
  <2>3. excused' = [excused EXCEPT !.unseen = s]
    BY <1>0, <2>2, Zenon
  <2>4. excused' \in ExcusedType
    BY <1>0, <2>3 DEF ExcusedType
  <2>. QED
    BY <1>0, <2>2, <2>3, <2>4 DEF ExcusedType
<1>4. StreamTypes'
  BY <1>0, <1>1, <1>2, <1>3 DEF StreamTypes
<1>5. Resumed'
  BY <1>0, <1>1, <1>2, <1>3 DEF Resumed, Silent, Recalling
<1>6. SwitchHolds'
  BY <1>0, <1>1, <1>2, <1>3 DEF SwitchHolds, Away, StreamTypes
<1>7. CutEnds'
  BY <1>2, <1>3 DEF CutEnds
<1>. QED
  BY <1>0, <1>4, <1>5, <1>6, <1>7, ConsumersKept DEF StreamIInv

-----------------------------------------------------------------------------
LEMMA RecallStep ==
  ASSUME StreamIInv, Recall
  PROVE  StreamIInv'
<1>0. /\ StreamTypes /\ Consumers /\ SwitchHolds /\ CutEnds /\ source \in SourceType /\ windows \in WindowType
      /\ UNCHANGED <<engine, sink, lastIn, fetch, pump, leaving, pointing, why, excused>> /\ recall' = "load"
      /\ windows' = [windows EXCEPT !.hold = "recalling"] /\ source' = [source EXCEPT !.on = "spotify", !.away = FALSE]
  BY DEF StreamIInv, StreamTypes, Recall
<1>1. source' \in SourceType /\ ~source'.away /\ source'.open = source.open
  <2>1. source' = [on |-> "spotify", open |-> source.open, away |-> FALSE] /\ source.open \in SUBSET Fetches
    BY <1>0 DEF SourceType
  <2>2. source' \in SourceType
    BY <2>1, BooleanConstants DEF SourceType
  <2>. QED
    BY <2>1, <2>2
<1>2. windows' \in WindowType /\ (windows'.skip <=> windows.skip)
  BY <1>0 DEF WindowType
<1>3. StreamTypes'
  BY <1>0, <1>1, <1>2 DEF StreamTypes
<1>4. Resumed' /\ SwitchHolds' /\ CutEnds'
  BY <1>0, <1>1, <1>2 DEF Resumed, SwitchHolds, Away, CutEnds
<1>. QED
  BY <1>0, <1>1, <1>3, <1>4, ConsumersKept DEF StreamIInv

LEMMA LoadsContextStep ==
  ASSUME StreamIInv, LoadsContext
  PROVE  StreamIInv'
<1>0. /\ StreamTypes /\ Consumers /\ Resumed /\ SwitchHolds /\ CutEnds /\ engine \in EngineType /\ windows \in WindowType
      /\ excused \in ExcusedType /\ UNCHANGED <<source, sink, lastIn, fetch, pump, leaving, pointing>>
      /\ windows' = [windows EXCEPT !.hold = "recalling"] /\ excused' = [excused EXCEPT !.failed = excused.failed \/ recall' = "none"]
      /\ \/ recall' = "resume" /\ Pauses("load")
         \/ recall' = "none" /\ UNCHANGED engine /\ UNCHANGED why
  BY DEF StreamIInv, StreamTypes, LoadsContext, RecallOnly
<1>1. windows' \in WindowType /\ (windows'.skip <=> windows.skip) /\ (windows'.suppress <=> windows.suppress)
  BY <1>0 DEF WindowType
<1>2. /\ excused' \in ExcusedType /\ (excused'.late <=> excused.late) /\ (excused'.unseen <=> excused.unseen)
      /\ (excused'.failed <=> excused.failed \/ recall' = "none")
  <2>1. (excused.failed \/ recall' = "none") \in BOOLEAN
    OBVIOUS
  <2>2. PICK s \in BOOLEAN : s = (excused.failed \/ recall' = "none")
    BY <2>1
  <2>3. excused' = [excused EXCEPT !.failed = s]
    BY <1>0, <2>2, Zenon
  <2>4. excused' \in ExcusedType
    BY <1>0, <2>3 DEF ExcusedType
  <2>. QED
    BY <1>0, <2>2, <2>3, <2>4 DEF ExcusedType
<1>3. /\ recall' \in {"none", "resume"} /\ engine' \in EngineType /\ (engine'.plays => engine.plays)
      /\ (engine'.heard <=> engine.heard) /\ (engine'.old <=> engine.old)
  BY <1>0, PausesLeaves
<1>4. StreamTypes'
  BY <1>0, <1>1, <1>2, <1>3 DEF StreamTypes
<1>5. Resumed'
  BY <1>2, <1>3 DEF Resumed, Silent
<1>6. SwitchHolds' /\ CutEnds'
  BY <1>0, <1>1, <1>2, <1>3 DEF SwitchHolds, Away, CutEnds
<1>. QED
  BY <1>0, <1>4, <1>5, <1>6, ConsumersKept DEF StreamIInv

LEMMA ResumesStep ==
  ASSUME StreamIInv, Resumes
  PROVE  StreamIInv'
<1>0. /\ StreamTypes /\ Consumers /\ source.away \in BOOLEAN /\ recall' = "none" /\ Plays(source.away)
      /\ UNCHANGED <<source, sink, lastIn, fetch, pump, leaving, pointing, windows>>
  BY DEF StreamIInv, StreamTypes, SourceType, Resumes, RecallOnly
<1>1. engine' \in EngineType /\ excused' \in ExcusedType /\ Resumed' /\ SwitchHolds' /\ CutEnds'
  BY <1>0, PlaysKeeps
<1>2. StreamTypes'
  BY <1>0, <1>1 DEF StreamTypes
<1>. QED
  BY <1>0, <1>1, <1>2, ConsumersKept DEF StreamIInv

LEMMA NoteSkipStep ==
  ASSUME StreamIInv, NoteSkip
  PROVE  StreamIInv'
<1>0. /\ StreamTypes /\ Consumers /\ SwitchHolds /\ engine \in EngineType /\ windows \in WindowType /\ excused \in ExcusedType
      /\ engine.plays /\ UNCHANGED <<source, sink, lastIn, fetch, pump, recall, leaving, pointing, why>>
      /\ engine' = [engine EXCEPT !.old = TRUE] /\ windows' = [windows EXCEPT !.skip = TRUE] /\ excused' = [excused EXCEPT !.unseen = FALSE]
  BY DEF StreamIInv, StreamTypes, NoteSkip
<1>1. engine' \in EngineType /\ (engine'.plays <=> engine.plays) /\ (engine'.heard <=> engine.heard) /\ engine'.old
  <2>1. engine' \in EngineType
    BY <1>0, BooleanConstants DEF EngineType
  <2>. QED
    BY <1>0, <2>1 DEF EngineType
<1>2. windows' \in WindowType /\ (windows'.suppress <=> windows.suppress)
  <2>1. windows' \in WindowType
    BY <1>0, BooleanConstants DEF WindowType
  <2>. QED
    BY <1>0, <2>1 DEF WindowType
<1>3. excused' \in ExcusedType /\ (excused'.late <=> excused.late)
  <2>1. excused' \in ExcusedType
    BY <1>0, BooleanConstants DEF ExcusedType
  <2>. QED
    BY <1>0, <2>1 DEF ExcusedType
<1>4. StreamTypes'
  BY <1>0, <1>1, <1>2, <1>3 DEF StreamTypes
<1>5. Resumed' /\ SwitchHolds' /\ CutEnds'
  BY <1>0, <1>1, <1>2, <1>3 DEF Resumed, Silent, SwitchHolds, Away, CutEnds
<1>. QED
  BY <1>0, <1>4, <1>5, ConsumersKept DEF StreamIInv

LEMMA SwitchedAwayStep ==
  ASSUME StreamIInv, SwitchedAway
  PROVE  StreamIInv'
<1>0. /\ StreamTypes /\ Consumers /\ CutEnds /\ source \in SourceType /\ windows \in WindowType /\ excused \in ExcusedType
      /\ UNCHANGED <<engine, sink, lastIn, fetch, pump, recall, why>> /\ leaving' = "pause"
      /\ windows' = [windows EXCEPT !.suppress = TRUE] /\ source' = [source EXCEPT !.away = TRUE]
      /\ excused' = [excused EXCEPT !.late = FALSE] /\ pointing' \in {"none", "before"}
  BY DEF StreamIInv, StreamTypes, SwitchedAway
<1>1. source' \in SourceType /\ source'.away /\ source'.open = source.open
  <2>1. source' \in SourceType
    BY <1>0, BooleanConstants DEF SourceType
  <2>. QED
    BY <1>0, <2>1 DEF SourceType
<1>2. windows' \in WindowType /\ windows'.suppress /\ (windows'.skip <=> windows.skip)
  <2>1. windows' \in WindowType
    BY <1>0, BooleanConstants DEF WindowType
  <2>. QED
    BY <1>0, <2>1 DEF WindowType
<1>3. excused' \in ExcusedType /\ (excused'.unseen <=> excused.unseen)
  <2>1. excused' \in ExcusedType
    BY <1>0, BooleanConstants DEF ExcusedType
  <2>. QED
    BY <1>0, <2>1 DEF ExcusedType
<1>4. StreamTypes'
  BY <1>0, <1>1, <1>2, <1>3 DEF StreamTypes
<1>5. Resumed' /\ SwitchHolds' /\ CutEnds'
  BY <1>0, <1>1, <1>2, <1>3 DEF Resumed, Silent, SwitchHolds, Away, CutEnds
<1>. QED
  BY <1>0, <1>1, <1>4, <1>5, ConsumersKept DEF StreamIInv

LEMMA LeavesStep ==
  ASSUME StreamIInv, Leaves
  PROVE  StreamIInv'
<1>0. StreamTypes /\ Consumers /\ Resumed /\ SwitchHolds /\ CutEnds /\ source \in SourceType
  BY DEF StreamIInv, StreamTypes
<1>1. CASE /\ leaving = "pause" /\ leaving' = "push" /\ Pauses(IF source.away THEN "switch" ELSE "crossed")
           /\ UNCHANGED <<source, sink, lastIn, fetch, pump, recall, windows, pointing, excused, moves>>
  <2>1. engine' \in EngineType /\ ~engine'.plays /\ (engine'.heard <=> engine.heard) /\ (engine'.old <=> engine.old)
    BY <1>0, <1>1, PausesLeaves
  <2>2. Resumed'
    <3>1. CASE source.away
      BY <1>1, <3>1 DEF Resumed, Silent
    <3>2. CASE ~source.away
      BY <1>1, <3>2, PausesKeeps
    <3>. QED
      BY <3>1, <3>2
  <2>3. SwitchHolds' /\ CutEnds'
    BY <1>0, <1>1, <2>1 DEF SwitchHolds, Away, CutEnds
  <2>4. StreamTypes'
    BY <1>0, <1>1, <2>1 DEF StreamTypes
  <2>. QED
    BY <1>0, <1>1, <2>2, <2>3, <2>4, ConsumersKept DEF StreamIInv
<1>2. CASE /\ leaving = "push" /\ leaving' = "none"
           /\ source' = (IF source.away THEN [source EXCEPT !.on = "other", !.open = {}] ELSE source)
           /\ UNCHANGED <<engine, sink, lastIn, fetch, pump, recall, windows, pointing, why, excused, moves>>
  <2>1. /\ source' \in SourceType /\ (source'.away <=> source.away) /\ source'.open \subseteq source.open
        /\ (source.away => source'.on = "other")
    BY <1>0, <1>2 DEF SourceType
  <2>2. SwitchHolds'
    BY <1>0, <1>2, <2>1 DEF SwitchHolds, Away
  <2>3. Resumed' /\ CutEnds'
    BY <1>0, <1>2, <2>1, ResumedKept, CutKept DEF EngineKept
  <2>4. StreamTypes'
    BY <1>0, <1>2, <2>1 DEF StreamTypes
  <2>. QED
    BY <1>0, <1>2, <2>1, <2>2, <2>3, <2>4, ConsumersKept DEF StreamIInv
<1>. QED
  BY <1>1, <1>2 DEF Leaves

LEMMA ListenerStep ==
  ASSUME StreamIInv, Listener
  PROVE  StreamIInv'
<1>0. /\ StreamTypes /\ Consumers /\ Resumed /\ SwitchHolds /\ CutEnds /\ source \in SourceType
      /\ UNCHANGED <<sink, lastIn, fetch, pump, recall, leaving, windows, pointing>>
  BY DEF StreamIInv, StreamTypes, Listener
<1>1. CASE Pauses("user") /\ UNCHANGED <<source, excused>>
  <2>1. engine' \in EngineType /\ ~engine'.plays /\ (engine'.heard <=> engine.heard) /\ (engine'.old <=> engine.old)
    BY <1>0, <1>1, PausesLeaves
  <2>2. Resumed'
    BY <1>0, <1>1, PausesKeeps
  <2>3. SwitchHolds' /\ CutEnds'
    BY <1>0, <1>1, <2>1 DEF SwitchHolds, Away, CutEnds
  <2>4. StreamTypes'
    BY <1>0, <1>1, <2>1 DEF StreamTypes
  <2>. QED
    BY <1>0, <1>1, <2>2, <2>3, <2>4, ConsumersKept DEF StreamIInv
<1>2. CASE Plays(FALSE) /\ source' = [source EXCEPT !.away = FALSE]
  <2>1. source' \in SourceType /\ ~source'.away /\ source'.open = source.open
    <3>1. source' \in SourceType
      BY <1>0, <1>2, BooleanConstants DEF SourceType
    <3>. QED
      BY <1>0, <1>2, <3>1 DEF SourceType
  <2>2. PICK late \in BOOLEAN : late = FALSE
    BY BooleanConstants
  <2>3. Plays(late)
    BY <1>2, <2>2
  <2>4. engine' \in EngineType /\ excused' \in ExcusedType /\ Resumed' /\ SwitchHolds' /\ CutEnds'
    BY <1>0, <2>1, <2>3, PlaysKeeps
  <2>5. StreamTypes'
    BY <1>0, <2>1, <2>4 DEF StreamTypes
  <2>. QED
    BY <1>0, <2>1, <2>4, <2>5, ConsumersKept DEF StreamIInv
<1>. QED
  BY <1>1, <1>2 DEF Listener

\* An event heard while a switch away is held to points nobody back.
LEMMA HearsStep ==
  ASSUME StreamIInv, Hears
  PROVE  StreamIInv'
<1>0. /\ StreamTypes /\ Consumers /\ Resumed /\ SwitchHolds /\ CutEnds /\ engine \in EngineType /\ engine.heard
      /\ UNCHANGED <<source, sink, lastIn, fetch, pump, recall, leaving, windows, why, excused>>
      /\ engine' = [engine EXCEPT !.heard = FALSE]
      /\ pointing' \in (IF MayActivate /\ pointing = "none" THEN {"none", "since"} ELSE {pointing})
  BY DEF StreamIInv, StreamTypes, Hears
<1>1. engine' \in EngineType /\ (engine'.plays <=> engine.plays) /\ ~engine'.heard /\ (engine'.old <=> engine.old)
  <2>1. engine' \in EngineType
    BY <1>0, BooleanConstants DEF EngineType
  <2>. QED
    BY <1>0, <2>1 DEF EngineType
<1>2. pointing' \in {"none", "before", "since"} /\ (pointing' = "since" => pointing = "since" \/ ~windows.suppress)
  BY <1>0 DEF MayActivate, StreamTypes
<1>3. StreamTypes'
  BY <1>0, <1>1, <1>2 DEF StreamTypes
<1>4. Resumed' /\ CutEnds'
  BY <1>0, <1>1 DEF Resumed, Silent, Recalling, CutEnds
<1>5. SwitchHolds'
  BY <1>0, <1>1, <1>2 DEF SwitchHolds, Away
<1>. QED
  BY <1>0, <1>3, <1>4, <1>5, ConsumersKept DEF StreamIInv

LEMMA PointsStep ==
  ASSUME StreamIInv, Points
  PROVE  StreamIInv'
<1>0. /\ StreamTypes /\ Consumers /\ Resumed /\ SwitchHolds /\ CutEnds /\ source \in SourceType /\ excused \in ExcusedType
      /\ pointing # "none" /\ pointing' = "none"
      /\ UNCHANGED <<engine, sink, lastIn, fetch, pump, recall, leaving, windows, why>>
      /\ source' = [source EXCEPT !.on = "spotify"] /\ excused' = [excused EXCEPT !.late = excused.late \/ pointing = "before"]
  BY DEF StreamIInv, StreamTypes, Points
<1>1. source' \in SourceType /\ (source'.away <=> source.away) /\ source'.open = source.open
  BY <1>0 DEF SourceType
<1>2. /\ excused' \in ExcusedType /\ (excused'.unseen <=> excused.unseen) /\ (excused'.failed <=> excused.failed)
      /\ (excused'.late <=> excused.late \/ pointing = "before")
  <2>1. (excused.late \/ pointing = "before") \in BOOLEAN
    OBVIOUS
  <2>2. PICK s \in BOOLEAN : s = (excused.late \/ pointing = "before")
    BY <2>1
  <2>3. excused' = [excused EXCEPT !.late = s]
    BY <1>0, <2>2, Zenon
  <2>4. excused' \in ExcusedType
    BY <1>0, <2>3 DEF ExcusedType
  <2>. QED
    BY <1>0, <2>2, <2>3, <2>4 DEF ExcusedType
<1>3. StreamTypes'
  BY <1>0, <1>1, <1>2 DEF StreamTypes
<1>4. Resumed' /\ CutEnds'
  BY <1>0, <1>1, <1>2 DEF Resumed, Silent, Recalling, CutEnds
<1>5. SwitchHolds'
  BY <1>0, <1>1, <1>2 DEF SwitchHolds, Away, StreamTypes
<1>. QED
  BY <1>0, <1>1, <1>3, <1>4, <1>5, ConsumersKept DEF StreamIInv

LEMMA WindowEndsStep ==
  ASSUME StreamIInv, WindowEnds
  PROVE  StreamIInv'
<1>0. /\ StreamTypes /\ Consumers /\ Resumed /\ SwitchHolds /\ CutEnds /\ windows \in WindowType
      /\ UNCHANGED <<source, engine, sink, lastIn, fetch, pump, recall, leaving, pointing, why, excused>>
  BY DEF StreamIInv, StreamTypes, WindowEnds
<1>1. /\ windows' \in WindowType /\ (windows'.hold # "recalling" \/ windows'.hold = windows.hold)
      /\ (windows'.skip => windows.skip) /\ (windows.suppress => windows'.suppress \/ (~engine.heard /\ leaving = "none"))
  <2>1. CASE \E h \in {"hot", "none"} : windows' = [windows EXCEPT !.hold = h]
    BY <1>0, <2>1 DEF WindowType
  <2>2. CASE windows.suppress /\ ~engine.heard /\ leaving = "none" /\ windows' = [windows EXCEPT !.suppress = FALSE]
    <3>1. windows' \in WindowType
      BY <1>0, <2>2, BooleanConstants DEF WindowType
    <3>. QED
      BY <1>0, <2>2, <3>1 DEF WindowType
  <2>3. CASE windows' = [windows EXCEPT !.skip = FALSE]
    <3>1. windows' \in WindowType
      BY <1>0, <2>3, BooleanConstants DEF WindowType
    <3>. QED
      BY <1>0, <2>3, <3>1 DEF WindowType
  <2>. QED
    BY <2>1, <2>2, <2>3 DEF WindowEnds
<1>2. StreamTypes'
  BY <1>0, <1>1 DEF StreamTypes
<1>3. Resumed' /\ SwitchHolds' /\ CutEnds'
  BY <1>0, <1>1 DEF Resumed, Silent, Recalling, SwitchHolds, Away, CutEnds
<1>. QED
  BY <1>0, <1>2, <1>3, ConsumersKept DEF StreamIInv

LEMMA StreamStep ==
  ASSUME StreamIInv, [StreamNext]_streamVars
  PROVE  StreamIInv'
<1>1. CASE \E f \in Fetches : Fetch(f) \/ OggHandler(f)
  BY <1>1, FetchStep, OggHandlerStep
<1>2. CASE Pump
  BY <1>2, ReadsPageStep, WritesStep, PumpPausesStep, BoundaryStep DEF Pump
<1>3. CASE UNCHANGED streamVars
  BY <1>3 DEF streamVars, StreamIInv, StreamTypes, Consumers, Resumed, Silent, Recalling, SwitchHolds, Away, CutEnds
<1>. QED
  BY <1>1, <1>2, <1>3, RecallStep, LoadsContextStep, ResumesStep, NoteSkipStep, SwitchedAwayStep, LeavesStep, ListenerStep,
     HearsStep, PointsStep, WindowEndsStep DEF StreamNext

-----------------------------------------------------------------------------
(***************************************************************************)
(* What the agent plays.                                                   *)
(***************************************************************************)

\* A repeat of all plays each track once a lap and a shuffle none twice; the queue's watcher, its position
\* and the lock of the speaker agree; a timer that was stopped puts nobody to sleep; and of the Spotify
\* engine the newest consumer is the sink, an attached speaker is not left silent, one sent elsewhere stays
\* there, and a skip cuts the track skipped only.
THEOREM PlayingSafe == PlayingSpec => []PlayingInv
<1>. DEFINE Inv == QueueIInv /\ LapIInv /\ SleepIInv /\ StreamIInv
<1>1. PlayingInit => Inv
  BY InitQueue, InitLap, InitSleep, InitStream DEF PlayingInit
<1>2. ASSUME Inv, [PlayingNext]_<<part, queueVars, lapVars, sleepVars, streamVars>> PROVE Inv'
  <2>1. [QueueNext]_queueVars /\ [LapNext]_lapVars /\ [SleepNext]_sleepVars /\ [StreamNext]_streamVars
    BY <1>2 DEF PlayingNext, In
  <2>. QED
    BY <1>2, <2>1, QueueStep, LapStep, SleepStep, StreamStep
<1>3. Inv => PlayingInv
  BY QueueHolds, LapHolds, StreamHolds DEF PlayingInv, SleepIInv
<1>. QED
  BY <1>1, <1>2, <1>3, PTL DEF PlayingSpec

\* What the watcher of the queue knows, in every state.
THEOREM QueueKnown == PlayingSpec => []QueueIInv
<1>1. PlayingInit => QueueIInv
  BY InitQueue
<1>2. ASSUME QueueIInv, [PlayingNext]_<<part, queueVars, lapVars, sleepVars, streamVars>> PROVE QueueIInv'
  <2>1. [QueueNext]_queueVars
    BY <1>2 DEF PlayingNext, In
  <2>. QED
    BY <1>2, <2>1, QueueStep
<1>. QED
  BY <1>1, <1>2, PTL DEF PlayingSpec

\* An advance that takes the lock while the queue plays was decided for the track that is on the speaker,
\* whoever pushed another while the watcher waited.
THEOREM NewTrackSafe == PlayingSpec => NewTrackKept
<1>1. QueueIInv => \A i \in Watchers : AdvanceLocks(i) /\ queueMu' = i /\ deck.source = "queue" => watchers[i].from = deck.push
  BY AdvanceIsOf
<1>. QED
  BY <1>1, QueueKnown, PTL DEF NewTrackKept

\* A track that is seen to play and was not held up is left at its end and not before, whichever net
\* advances it and whatever the speaker reports of its length and position.
THEOREM NoTrackCut == PlayingSpec => NoTrackCutShort
<1>1. QueueIInv => \A i \in Watchers :
        AdvanceLocks(i) /\ queueMu' = i /\ deck.source = "queue" /\ watchers[i].polled = "PLAY" /\ deck.held = "no" => deck.pos = TrackLen
  BY AdvanceIsOf
<1>. QED
  BY <1>1, QueueKnown, PTL DEF NoTrackCutShort

-----------------------------------------------------------------------------
(***************************************************************************)
(* The groups: the inductive invariant.                                    *)
(***************************************************************************)

Modes == {"none", "native", "mirror"}
FormType == [at : {"off", "native", "mirror", "push", "set", "set_stale", "verify", "verify_stale"}, mode : Modes,
             want : SUBSET Followers, left : SUBSET Followers, n : 0..MaxPlays, verified : SUBSET Followers]
UndoType == [at : {"off", "remove", "sweep"}, slaves : SUBSET Followers, left : SUBSET Followers, from : Heard,
             failed : SUBSET Followers]
RoundType == [at : {"off", "read", "push"}, left : SUBSET Followers, who : Followers \cup {"nobody"}, n : 0..MaxPlays]

ZoneTypes ==
  /\ GroupTypeOK /\ zone \in [mode : Modes, slaves : SUBSET Followers]
  /\ form \in FormType /\ undo \in UndoType /\ round \in RoundType /\ again \in [at : {"off", "settle", "push"}, n : 0..MaxPlays]
  /\ enlisted \subseteq Followers

\* What plays a stream of the group names one, and so does whoever is about to push one; a round
\* at rest has no member left.
Streams ==
  /\ master.src = "loop" => master.n > 0
  /\ form.at = "push" => form.n > 0
  /\ round.at # "off" => round.n > 0
  /\ round.at = "off" => round.left = {}
  /\ again.at # "off" => again.n > 0

\* A form that removed members is asked for everyone the firmware still lists.
Removed == form.at \in {"set", "verify"} => firm \subseteq form.want

\* Who enrolled in the zone did so before the form under way, or during it.
Enlisted == joined \subseteq enlisted

\* The member a round is about to push was found idle or on a mirror, and only a person moves
\* it elsewhere.
PushSafe ==
  round.at = "push" => /\ round.who \in Followers
                       /\ round.who \notin touched => member[round.who].src \notin {"own", "standby"}

ZoneIInv == ZoneTypes /\ VerifiedJoined /\ Streams /\ Removed /\ Enlisted /\ PushSafe

-----------------------------------------------------------------------------
(* What plays, and the types. *)

\* What a speaker can be set to play.
LEMMA Sounds ==
  /\ Off \in Heard /\ Asleep \in Heard /\ Own \in Heard
  /\ \A src \in {"loop", "lan"}, n \in 0..MaxPlays : Stream(src, n) \in Heard
  /\ \A p \in Heard : [p EXCEPT !.on = FALSE] \in Heard /\ [p EXCEPT !.on = FALSE].src = p.src /\ [p EXCEPT !.on = FALSE].n = p.n
  /\ \A p \in {Off, Asleep, Own} : p.n = 0 /\ p.src \in {"idle", "standby", "own"}
  /\ Off.src = "idle" /\ Asleep.src = "standby" /\ Own.src = "own"
<1> USE GroupZonesAssumption DEF Heard
<1>1. Off = [src |-> "idle", n |-> 0, on |-> FALSE] /\ Own = [src |-> "own", n |-> 0, on |-> TRUE] BY DEF Off, Own
<1>0. Off \in Heard /\ Own \in Heard BY <1>1
<1>2. Asleep \in Heard /\ Asleep.src = "standby" /\ Asleep.n = 0
  <2>1. Asleep \in Heard BY <1>0 DEF Asleep
  <2>2. Asleep.src = "standby" BY <1>1 DEF Asleep
  <2>3. Asleep.n = Off.n BY <1>1 DEF Asleep
  <2> QED BY <1>1, <2>1, <2>2, <2>3
<1>3. \A src \in {"loop", "lan"}, n \in 0..MaxPlays : Stream(src, n) \in Heard BY DEF Stream
<1>4. ASSUME NEW p \in Heard
      PROVE  [p EXCEPT !.on = FALSE] \in Heard /\ [p EXCEPT !.on = FALSE].src = p.src /\ [p EXCEPT !.on = FALSE].n = p.n
  OBVIOUS
<1>6. Off.n = 0 /\ Own.n = 0 /\ Off.src = "idle" /\ Own.src = "own" BY <1>1
<1> HIDE DEF Heard
<1> QED BY <1>0, <1>2, <1>3, <1>4, <1>6

\* The invariant holds when the run begins.
LEMMA InitZones == ASSUME GroupInit PROVE ZoneIInv
<1> USE GroupZonesAssumption DEF GroupInit
<1>1. ZoneTypes
  <2>1. master \in Heard /\ member \in [Followers -> Heard] /\ master.n = 0 /\ master.src = "standby"
        /\ \A f \in Followers : member[f] = Asleep
    BY Sounds
  <2>2. member \in [Followers -> Heard] /\ \A f \in Followers : member[f].src = "standby" /\ member[f].n = 0
    BY <2>1, Sounds
  <2>8. zone.slaves = {} /\ zone.mode = "none" BY DEF Alone
  <2>9. GroupTypeOK 
    <3>1. firm \cup joined \subseteq Followers OBVIOUS
    <3>2. lastPlay \in 0..MaxPlays OBVIOUS
    <3>3. halted \in BOOLEAN /\ master.src # "lan" BY <2>1
    <3> QED BY <2>1, <2>2, <2>8, <3>1, <3>2, <3>3 DEF GroupTypeOK
  <2>3. zone \in [mode : Modes, slaves : SUBSET Followers] BY DEF Alone, Modes
  <2>4. form \in FormType BY DEF NoForm, FormType, Modes
  <2>5. undo \in UndoType BY Sounds DEF NoUndo, UndoType
  <2>6. round \in RoundType BY DEF NoRound, RoundType
  <2>7. again \in [at : {"off", "settle", "push"}, n : 0..MaxPlays] BY DEF NoResume
  <2> QED BY <2>3, <2>4, <2>5, <2>6, <2>7, <2>9 DEF ZoneTypes
<1>2. Streams BY Sounds DEF Streams, Asleep, Off, NoForm, NoRound, NoResume
<1>3. Removed /\ Enlisted /\ PushSafe /\ VerifiedJoined BY DEF Removed, Enlisted, PushSafe, VerifiedJoined, NoForm, NoRound
<1> QED BY <1>1, <1>2, <1>3 DEF ZoneIInv

\* The sound of the members is well-formed: a stream is named by a number, and nothing else is.
Wellformed(m) == m \in [Followers -> Heard] /\ \A f \in Followers : m[f].src \in {"lan", "loop"} <=> m[f].n > 0

\* A member of the firmware zone takes over what the master plays.
LEMMA Distribution ==
  ASSUME Wellformed(member), NEW p \in Heard, p.src = "loop" => p.n > 0, MasterPlays(p)
  PROVE  Wellformed(member') /\ master' = p
         /\ \A f \in Followers : member'[f].src \in {"own", "standby"} => member'[f] = member[f]
<1>1. \A f \in Followers : member'[f] = IF f \in joined THEN (IF p.src = "loop" THEN p ELSE Off) ELSE member[f]
  BY DEF MasterPlays, Distributed
<1>2. \A f \in Followers : member'[f] \in Heard /\ (member'[f].src \in {"lan", "loop"} <=> member'[f].n > 0)
  BY <1>1, Sounds DEF Wellformed
<1>3. member' = [f \in Followers |-> member'[f]] BY DEF MasterPlays, Distributed
<1>4. member' \in [Followers -> Heard] BY <1>2, <1>3
<1>5. \A f \in Followers : member'[f].src \in {"own", "standby"} => member'[f] = member[f] BY <1>1, Sounds
<1> QED BY <1>2, <1>4, <1>5 DEF Wellformed, MasterPlays

\* One member is set to p.
LEMMA MemberSet ==
  ASSUME Wellformed(member), NEW f \in Followers, NEW p \in Heard, p.src \in {"lan", "loop"} <=> p.n > 0,
         member' = [member EXCEPT ![f] = p]
  PROVE  Wellformed(member')
BY DEF Wellformed

\* Members that leave the zone fall silent.
LEMMA MembersOff ==
  ASSUME Wellformed(member), NEW S, member' = [f \in Followers |-> IF f \in S THEN Off ELSE member[f]]
  PROVE  Wellformed(member')
BY Sounds DEF Wellformed

\* What the speakers can play is well-formed.
Sounding == master \in Heard /\ master.src # "lan" /\ (master.src = "loop" => master.n > 0) /\ Wellformed(member)

\* No step makes a speaker play what it cannot.
LEMMA SoundStep ==
  ASSUME ZoneIInv, [GroupNext]_groupVars
  PROVE  Sounding'
<1>0. /\ Sounding /\ lastPlay \in 0..MaxPlays /\ form \in FormType /\ round \in RoundType /\ again \in [at : {"off", "settle", "push"}, n : 0..MaxPlays]
      /\ MaxPlays \in Nat /\ Streams
  BY GroupZonesAssumption DEF ZoneIInv, ZoneTypes, GroupTypeOK, Sounding, Wellformed, Streams
<1>1. ASSUME NEW p \in Heard, MasterPlays(p), p.src # "lan", p.src = "loop" => p.n > 0 PROVE Sounding'
  BY <1>0, <1>1, Distribution DEF Sounding
<1>2. ASSUME NEW f \in Followers, NEW p \in Heard, p.src \in {"lan", "loop"} <=> p.n > 0, member' = [member EXCEPT ![f] = p],
             UNCHANGED master
      PROVE  Sounding'
  BY <1>0, <1>2, MemberSet DEF Sounding
<1>3. \A src \in {"loop", "lan"}, n \in 0..MaxPlays : Stream(src, n).src = src /\ Stream(src, n).n = n BY DEF Stream
<1>4. \A f \in Followers : member[f] \in Heard /\ (member[f].src \in {"lan", "loop"} <=> member[f].n > 0)
  BY <1>0 DEF Sounding, Wellformed
<1>5. CASE UNCHANGED heard BY <1>0, <1>5 DEF heard, Sounding, Wellformed
<1>6. CASE UserPlays
  <2>1. lastPlay + 1 \in 0..MaxPlays /\ lastPlay + 1 > 0 BY <1>0, <1>6 DEF UserPlays
  <2> QED BY <1>1, <1>3, <1>6, <2>1, Sounds DEF UserPlays
<1>7. CASE UserStops
  <2>1. MasterPlays([master EXCEPT !.on = FALSE]) /\ master \in Heard BY <1>0, <1>7 DEF UserStops, Sounding
  <2>2. [master EXCEPT !.on = FALSE] \in Heard /\ [master EXCEPT !.on = FALSE].src = master.src /\ [master EXCEPT !.on = FALSE].n = master.n
    BY <2>1, Sounds
  <2>3. master.src # "lan" /\ (master.src = "loop" => master.n > 0) BY <1>0 DEF Sounding
  <2> QED BY <1>1, <2>1, <2>2, <2>3
<1>8. CASE MasterElsewhere
  <2>1. PICK p \in {Own, Asleep} : MasterPlays(p) BY <1>8 DEF MasterElsewhere
  <2> QED BY <1>1, <2>1, Sounds
<1>9. ASSUME NEW f \in Followers, MemberActs(f) PROVE Sounding'
  <2>1. PICK p \in {Own, Asleep, Off, [member[f] EXCEPT !.on = FALSE]} : member' = [member EXCEPT ![f] = p]
    BY <1>9 DEF MemberActs
  <2>2. p \in Heard /\ (p.src \in {"lan", "loop"} <=> p.n > 0)
    <3>1. CASE p \in {Own, Asleep, Off} BY <3>1, Sounds
    <3>2. CASE p = [member[f] EXCEPT !.on = FALSE]
      <4>1. p \in Heard /\ p.src = member[f].src /\ p.n = member[f].n BY <1>4, <3>2, Sounds
      <4> QED BY <1>4, <4>1
    <3> QED BY <2>1, <3>1, <3>2
  <2> QED BY <1>2, <1>9, <2>1, <2>2 DEF MemberActs
<1>10. CASE FormPushes
  <2>1. PICK f \in Followers : UNCHANGED member \/ member' = [member EXCEPT ![f] = Stream("lan", form.n)]
    BY <1>0, <1>10 DEF FormPushes, FormType
  <2>2. form.n \in 0..MaxPlays /\ form.n > 0 /\ UNCHANGED master BY <1>0, <1>10 DEF FormPushes, FormType, Streams
  <2> QED BY <1>2, <1>3, <1>5, <2>1, <2>2, Sounds DEF heard
<1>11. CASE FormDrops
  <2>1. master' \in {master, Off} BY <1>11 DEF FormDrops
  <2>2. Wellformed(member')
    <3>1. CASE UNCHANGED member BY <1>0, <3>1 DEF Sounding, Wellformed
    <3>2. CASE member' = [f \in Followers |-> IF f \in Dropped \cap joined THEN Off ELSE member[f]]
      BY <1>0, <3>2, MembersOff DEF Sounding
    <3> QED BY <1>11, <3>1, <3>2 DEF FormDrops
  <2> QED BY <1>0, <2>1, <2>2, Sounds DEF Sounding
<1>12. CASE FormSets
  <2>1. CASE UNCHANGED heard BY <1>5, <2>1
  <2>2. CASE ~UNCHANGED heard
    <3>1. master' \in {master, Off} BY <1>12, <2>2 DEF FormSets
    <3>2. PICK enrol : member' = [f \in Followers |-> IF f \in joined \cup enrol THEN Off ELSE member[f]]
      BY <1>12, <2>2 DEF FormSets
    <3>3. Wellformed(member') BY <1>0, <3>2, MembersOff DEF Sounding
    <3> QED BY <1>0, <3>1, <3>3, Sounds DEF Sounding
  <2> QED BY <2>1, <2>2
<1>13. CASE ResumePushes
  <2>1. UNCHANGED heard \/ MasterPlays(Stream("loop", again.n)) BY <1>13 DEF ResumePushes
  <2>2. again.n \in 0..MaxPlays /\ again.n > 0 BY <1>0, <1>13 DEF ResumePushes, Streams
  <2> QED BY <1>1, <1>3, <1>5, <2>1, <2>2, Sounds
<1>14. ASSUME NEW f \in Followers, RoundPushes(f) PROVE Sounding'
  <2>1. round.n \in 0..MaxPlays /\ round.n > 0 BY <1>0, <1>14 DEF RoundPushes, Streams, RoundType
  <2> QED BY <1>2, <1>3, <1>14, <2>1, Sounds DEF RoundPushes
<1>15. CASE UndoRemoves
  <2>1. PICK gone : member' = [f \in Followers |-> IF f \in gone \cap joined THEN Off ELSE member[f]] BY <1>15 DEF UndoRemoves
  <2>2. Wellformed(member') BY <1>0, <2>1, MembersOff DEF Sounding
  <2> QED BY <1>0, <1>15, <2>2 DEF Sounding, UndoRemoves
<1>16. CASE UndoSweeps
  <2>1. PICK f \in undo.left : member' \in {member, [member EXCEPT ![f].on = FALSE]} BY <1>16 DEF UndoSweeps
  <2>2. f \in Followers BY <2>1 DEF ZoneIInv, ZoneTypes, UndoType
  <2>3. [member EXCEPT ![f].on = FALSE] = [member EXCEPT ![f] = [member[f] EXCEPT !.on = FALSE]] OBVIOUS
  <2>4. [member[f] EXCEPT !.on = FALSE] \in Heard /\ [member[f] EXCEPT !.on = FALSE].src = member[f].src
        /\ [member[f] EXCEPT !.on = FALSE].n = member[f].n
    BY <1>4, <2>2, Sounds
  <2>5. UNCHANGED master BY <1>16 DEF UndoSweeps
  <2> QED BY <1>2, <1>4, <1>5, <2>1, <2>2, <2>3, <2>4, <2>5 DEF heard
<1>17. ASSUME \/ StopAges \/ LateJoin \/ FormStart \/ FormLooks \/ FormVerifies \/ FormAnswers \/ ResumeSettles \/ KickFires \/ RoundStart
              \/ \E f \in Followers : RoundReads(f) \/ RoundMisses(f)
              \/ UndoStart \/ UndoClears \/ UNCHANGED groupVars
       PROVE  UNCHANGED heard
  BY <1>17 DEF StopAges, LateJoin, FormStart, FormLooks, FormVerifies, FormAnswers, ResumeSettles, KickFires, RoundStart, RoundReads,
               RoundMisses, UndoStart, UndoClears, groupVars, heard
<1> QED BY <1>5, <1>6, <1>7, <1>8, <1>9, <1>10, <1>11, <1>12, <1>13, <1>14, <1>15, <1>16, <1>17
        DEF GroupNext, People, Form, Resuming, Round, Undo

-----------------------------------------------------------------------------
(* What the handlers carry. *)

AgainType == [at : {"off", "settle", "push"}, n : 0..MaxPlays]

RoundOK == (round.at # "off" => round.n > 0) /\ (round.at = "off" => round.left = {})

\* The types of what the handlers keep, and the invariant but for the sound of the speakers and
\* the member the round is about to push.
Carried ==
  /\ lastPlay \in 0..MaxPlays /\ halted \in BOOLEAN /\ zone \in [mode : Modes, slaves : SUBSET Followers]
  /\ zone.mode = "none" <=> zone.slaves = {}
  /\ firm \subseteq Followers /\ joined \subseteq enlisted /\ enlisted \subseteq Followers
  /\ form \in FormType /\ form.verified \subseteq enlisted
  /\ form.at = "push" => form.n > 0
  /\ form.at \in {"set", "verify"} => firm \subseteq form.want
  /\ undo \in UndoType
  /\ round \in RoundType /\ RoundOK
  /\ again \in AgainType /\ (again.at # "off" => again.n > 0)

\* The invariant, taken apart.
LEMMA IInvParts == ZoneIInv <=> Carried /\ Sounding /\ PushSafe
<1> USE DEF AgainType, RoundOK
<1>1. ASSUME ZoneIInv PROVE Carried /\ Sounding /\ PushSafe
  <2>1. Carried BY <1>1 DEF ZoneIInv, ZoneTypes, GroupTypeOK, VerifiedJoined, Streams, Removed, Enlisted, Carried
  <2>2. Sounding BY <1>1 DEF ZoneIInv, ZoneTypes, GroupTypeOK, Streams, Sounding, Wellformed
  <2> QED BY <1>1, <2>1, <2>2 DEF ZoneIInv
<1>2. ASSUME Carried, Sounding, PushSafe PROVE ZoneIInv
  <2>1. GroupTypeOK BY <1>2 DEF GroupTypeOK, Carried, Sounding, Wellformed
  <2>2. ZoneTypes BY <1>2, <2>1 DEF ZoneTypes, Carried
  <2>3. VerifiedJoined /\ Streams /\ Removed /\ Enlisted
    BY <1>2 DEF VerifiedJoined, Streams, Removed, Enlisted, Carried, Sounding
  <2> QED BY <1>2, <2>2, <2>3 DEF ZoneIInv
<1> QED BY <1>1, <1>2

\* Every step keeps what the handlers carry.
LEMMA CarriedStep ==
  ASSUME ZoneIInv, [GroupNext]_groupVars
  PROVE  Carried'
<1>0. Carried /\ Sounding /\ MaxPlays \in Nat BY GroupZonesAssumption, IInvParts
<1> USE <1>0 DEF Carried, RoundOK
<1>1. CASE UNCHANGED <<lastPlay, halted, zone, firm, joined, enlisted, form, undo, round, again>>
  BY <1>1
<1>2. ASSUME \/ UserPlays \/ UserStops \/ MasterElsewhere \/ StopAges
      PROVE  /\ lastPlay' \in 0..MaxPlays /\ halted' \in BOOLEAN
             /\ UNCHANGED <<zone, firm, joined, enlisted, form, undo, round, again>>
  <2>1. CASE UserPlays BY <2>1 DEF UserPlays, group
  <2>2. CASE UserStops \/ MasterElsewhere \/ StopAges BY <2>2 DEF UserStops, MasterElsewhere, StopAges, group
  <2> QED BY <1>2, <2>1, <2>2
<1>3. ASSUME (\E f \in Followers : MemberActs(f)) \/ LateJoin
      PROVE  /\ firm' \subseteq firm /\ joined' \subseteq enlisted' /\ enlisted \subseteq enlisted' /\ enlisted' \subseteq Followers
             /\ UNCHANGED <<lastPlay, halted, zone, form, undo, round, again>>
  BY <1>3 DEF MemberActs, LateJoin
<1>4. CASE FormStart
  <2>1. PICK mode \in {"native", "mirror"}, want \in (SUBSET Followers) \ {{}} :
       /\ zone' = [mode |-> mode, slaves |-> want]
       /\ form' = [at |-> mode, mode |-> mode, want |-> want, left |-> want, verified |-> {},
                   n |-> IF mode = "mirror" \/ Busy(master) THEN lastPlay ELSE 0]
    BY <1>4 DEF FormStart
  <2>2. form' \in FormType /\ form'.verified = {} /\ form'.at \in {"native", "mirror"} BY <2>1 DEF FormType, Modes
  <2>3. zone' \in [mode : Modes, slaves : SUBSET Followers] /\ zone'.mode # "none" /\ zone'.slaves # {}
    <3>1. want # {} /\ want \subseteq Followers OBVIOUS
    <3>2. zone'.mode # "none" /\ zone'.slaves = want BY <2>1
    <3>3. zone' \in [mode : Modes, slaves : SUBSET Followers] BY <2>1 DEF Modes
    <3> QED BY <3>1, <3>2, <3>3
  <2> QED BY <1>4, <2>2, <2>3 DEF FormStart
<1>5. CASE FormLooks
  <2>1. form' \in FormType /\ (form'.at = "push" => form'.n > 0) /\ form'.at \notin {"set", "verify"} /\ form'.verified \subseteq enlisted
    BY <1>5 DEF FormLooks, FormType, NoForm, MayMirror, Modes
  <2> QED BY <1>5, <2>1 DEF FormLooks, group
<1>6. CASE FormPushes
  <2>1. form' \in FormType /\ (form'.at = "push" => form'.n > 0) /\ form'.at \notin {"set", "verify"} /\ form'.verified \subseteq enlisted
    BY <1>6 DEF FormPushes, FormType, NoForm, Modes
  <2> QED BY <1>6, <2>1 DEF FormPushes, group
<1>7. CASE FormDrops
  <2>1. /\ form' \in FormType /\ form'.verified = form.verified /\ form'.want = form.want
        /\ form'.at \in {"set", "set_stale"} /\ (form'.at = "set" => firm' = firm \ Dropped)
        /\ firm' \subseteq firm /\ joined' \subseteq joined
    BY <1>7 DEF FormDrops, FormType
  <2> QED BY <1>7, <2>1 DEF FormDrops, Dropped
<1>8. CASE FormSets
  <2>1. CASE form' = NoForm /\ UNCHANGED <<heard, firm, joined, enlisted>>
    BY <1>8, <2>1 DEF FormSets, FormType, NoForm, Modes
  <2>2. ASSUME NEW listed \in SUBSET form.want, NEW enrol \in SUBSET form.want,
               firm' = firm \cup listed, joined' = joined \cup enrol, enlisted' = enlisted \cup enrol,
               form' = [form EXCEPT !.at = IF form.at = "set" THEN "verify" ELSE "verify_stale"]
        PROVE  Carried'
    <3>1. /\ form' \in FormType /\ form'.verified = form.verified /\ form'.want = form.want
          /\ form'.at \in {"verify", "verify_stale"} /\ (form'.at = "verify" => form.at = "set")
      BY <2>2 DEF FormType
    <3>2. form.want \subseteq Followers BY DEF FormType
    <3> QED BY <1>8, <2>2, <3>1, <3>2 DEF FormSets
  <2> QED BY <1>8, <2>1, <2>2 DEF FormSets
<1>9. CASE FormVerifies
  <2>1. PICK f \in form.left : form' = [form EXCEPT !.left = @ \ {f}, !.verified = IF Confirms(f) THEN @ \cup {f} ELSE @]
    BY <1>9 DEF FormVerifies
  <2>2. f \in Followers BY <2>1 DEF FormType
  <2>3. form' \in FormType /\ form'.at = form.at /\ form'.want = form.want BY <2>1, <2>2 DEF FormType
  <2>4. form'.verified \subseteq enlisted BY <2>1 DEF FormType, Confirms
  <2> QED BY <1>9, <2>3, <2>4 DEF FormVerifies, group
<1>10. CASE FormAnswers
  <2>1. form' \in FormType /\ form'.verified = {} /\ form'.at = "off" BY <1>10 DEF FormAnswers, FormType, NoForm, Modes
  <2>2. again' \in AgainType /\ (again'.at # "off" => again'.n > 0)
    <3>1. form.n \in 0..MaxPlays BY DEF FormType
    <3> QED BY <1>10, <3>1 DEF FormAnswers, AgainType
  <2> QED BY <1>10, <2>1, <2>2 DEF FormAnswers, group
<1>11. CASE Resuming
  <2>1. again' \in AgainType /\ (again'.at # "off" => again'.n > 0)
    BY <1>11 DEF Resuming, ResumeSettles, ResumePushes, AgainType, NoResume
  <2> QED BY <1>11, <2>1 DEF Resuming, ResumeSettles, ResumePushes, group
<1>12. ASSUME NEW f \in Followers, round.at # "off", round' = RoundNext(f)
       PROVE  round' \in RoundType /\ RoundOK'
  <2>1. CASE round.left = {f} BY <1>12, <2>1 DEF RoundNext, RoundType, NoRound
  <2>2. CASE round.left # {f}
    <3>1. round' = [round EXCEPT !.at = "read", !.left = @ \ {f}, !.who = "nobody"] BY <1>12, <2>2 DEF RoundNext
    <3>2. round' \in RoundType BY <3>1 DEF RoundType
    <3>3. round'.n = round.n /\ round.at # "off" /\ round'.at = "read" BY <1>12, <3>1 DEF RoundType
    <3> QED BY <3>2, <3>3
  <2> QED BY <2>1, <2>2
<1>13. CASE Round
  <2>1. round' \in RoundType /\ RoundOK'
    <3>1. CASE KickFires BY <3>1 DEF KickFires
    <3>2. CASE RoundStart
      <4>1. round' = [at |-> "read", left |-> zone.slaves, who |-> "nobody", n |-> lastPlay] /\ lastPlay > 0
        BY <3>2 DEF RoundStart, MasterMirrors
      <4> QED BY <4>1 DEF RoundType
    <3>3. ASSUME NEW f \in Followers, RoundReads(f) PROVE round' \in RoundType /\ RoundOK'
      BY <1>12, <3>3 DEF RoundReads, RoundType
    <3>4. ASSUME NEW f \in Followers, RoundPushes(f) PROVE round' \in RoundType /\ RoundOK'
      BY <1>12, <3>4 DEF RoundPushes
    <3>5. ASSUME NEW f \in Followers, RoundMisses(f) PROVE round' \in RoundType /\ RoundOK'
      BY <1>12, <3>5 DEF RoundMisses, RoundType
    <3> QED BY <1>13, <3>1, <3>2, <3>3, <3>4, <3>5 DEF Round
  <2>2. UNCHANGED <<lastPlay, halted, zone, firm, joined, enlisted, form, undo, again>>
    BY <1>13 DEF Round, KickFires, RoundStart, RoundReads, RoundPushes, RoundMisses, group
  <2> QED BY <2>1, <2>2
<1>14. CASE Undo
  <2>1. undo' \in UndoType
    <3>1. CASE UndoStart
      <4>1. master \in Heard BY DEF Sounding
      <4> QED BY <3>1, <4>1, Sounds DEF UndoStart, UndoType, NoUndo
    <3>2. CASE UndoRemoves BY <3>2 DEF UndoRemoves, UndoType
    <3>3. CASE UndoSweeps
      <4>1. PICK f \in undo.left, taken \in BOOLEAN : undo' = [undo EXCEPT !.left = @ \ {f}, !.failed = IF taken THEN @ ELSE @ \cup {f}]
        BY <3>3 DEF UndoSweeps
      <4> QED BY <4>1 DEF UndoType
    <3>4. CASE UndoClears BY <3>4, Sounds DEF UndoClears, UndoType, NoUndo
    <3> QED BY <1>14, <3>1, <3>2, <3>3, <3>4 DEF Undo
  <2>2. zone' \in {zone, Alone} /\ firm' \subseteq firm /\ joined' \subseteq joined
    BY <1>14 DEF Undo, UndoStart, UndoRemoves, UndoSweeps, UndoClears, group
  <2>3. UNCHANGED <<lastPlay, halted, enlisted, form, round, again>>
    BY <1>14 DEF Undo, UndoStart, UndoRemoves, UndoSweeps, UndoClears, group
  <2> QED BY <2>1, <2>2, <2>3 DEF Alone, Modes
<1>15. CASE UNCHANGED groupVars BY <1>1, <1>15 DEF groupVars
<1> QED BY <1>2, <1>3, <1>4, <1>5, <1>6, <1>7, <1>8, <1>9, <1>10, <1>11, <1>13, <1>14, <1>15
        DEF GroupNext, People, Form

-----------------------------------------------------------------------------
(* The member the round is about to push. *)

\* Only a person takes a member to a source of its own or to standby.
LEMMA OnlyPeopleMoveMembers ==
  ASSUME ZoneIInv, [GroupNext]_groupVars, NEW f \in Followers, member'[f].src \in {"own", "standby"}
  PROVE  member'[f].src = member[f].src \/ f \in touched'
<1>0. Carried /\ Sounding /\ Wellformed(member) /\ MaxPlays \in Nat BY GroupZonesAssumption, IInvParts DEF Sounding
<1> DEFINE Kept == member'[f].src = member[f].src \/ f \in touched'
<1>1. ASSUME NEW p \in Heard, MasterPlays(p), p.src = "loop" => p.n > 0 PROVE Kept
  BY <1>0, <1>1, Distribution
<1>2. ASSUME NEW S, member' = [g \in Followers |-> IF g \in S THEN Off ELSE member[g]] PROVE Kept
  BY <1>2, Sounds
<1>3. ASSUME NEW g \in Followers, NEW n, member' = [member EXCEPT ![g] = Stream("lan", n)] PROVE Kept
  BY <1>0, <1>3 DEF Wellformed, Stream
<1>4. CASE UNCHANGED member BY <1>4
<1>5. CASE UserPlays
  <2>1. lastPlay + 1 \in 0..MaxPlays /\ lastPlay + 1 > 0 BY <1>0, <1>5 DEF UserPlays, Carried
  <2>2. Stream("loop", lastPlay + 1).n = lastPlay + 1 BY DEF Stream
  <2> QED BY <1>1, <1>5, <2>1, <2>2, Sounds DEF UserPlays
<1>6. CASE UserStops
  <2>1. MasterPlays([master EXCEPT !.on = FALSE]) /\ master \in Heard /\ master.n > 0 BY <1>0, <1>6 DEF UserStops, Sounding
  <2>2. [master EXCEPT !.on = FALSE] \in Heard /\ [master EXCEPT !.on = FALSE].n = master.n BY <2>1, Sounds
  <2> QED BY <1>1, <2>1, <2>2
<1>7. CASE MasterElsewhere
  <2>1. PICK p \in {Own, Asleep} : MasterPlays(p) BY <1>7 DEF MasterElsewhere
  <2> QED BY <1>1, <2>1, Sounds
<1>8. ASSUME NEW g \in Followers, MemberActs(g) PROVE Kept
  BY <1>0, <1>8 DEF MemberActs, Wellformed
<1>9. CASE FormPushes
  <2>1. PICK g \in Followers : UNCHANGED member \/ member' = [member EXCEPT ![g] = Stream("lan", form.n)]
    BY <1>0, <1>9 DEF FormPushes, FormType, Carried
  <2> QED BY <1>3, <1>4, <2>1
<1>10. CASE FormDrops BY <1>2, <1>4, <1>10 DEF FormDrops
<1>11. CASE FormSets BY <1>2, <1>4, <1>11 DEF FormSets, heard
<1>12. CASE ResumePushes
  <2>1. UNCHANGED heard \/ MasterPlays(Stream("loop", again.n)) BY <1>12 DEF ResumePushes
  <2>2. again.n \in 0..MaxPlays /\ again.n > 0 BY <1>0, <1>12 DEF ResumePushes, Carried, AgainType
  <2>3. Stream("loop", again.n).n = again.n BY DEF Stream
  <2> QED BY <1>1, <1>4, <2>1, <2>2, <2>3, Sounds DEF heard
<1>13. ASSUME NEW g \in Followers, RoundPushes(g) PROVE Kept BY <1>3, <1>13 DEF RoundPushes
<1>14. CASE UndoRemoves BY <1>2, <1>14 DEF UndoRemoves
<1>15. CASE UndoSweeps
  <2>1. PICK g : member' = [member EXCEPT ![g].on = FALSE] \/ UNCHANGED member BY <1>15 DEF UndoSweeps
  <2>2. member[f] \in Heard BY <1>0 DEF Wellformed
  <2>3. CASE member' = [member EXCEPT ![g].on = FALSE]
    <3>1. member'[f] \in {member[f], [member[f] EXCEPT !.on = FALSE]} BY <1>0, <2>3 DEF Wellformed
    <3> QED BY <2>2, <3>1, Sounds
  <2> QED BY <1>4, <2>1, <2>3
<1>16. ASSUME \/ StopAges \/ LateJoin \/ FormStart \/ FormLooks \/ FormVerifies \/ FormAnswers \/ ResumeSettles \/ KickFires \/ RoundStart
              \/ \E g \in Followers : RoundReads(g) \/ RoundMisses(g)
              \/ UndoStart \/ UndoClears \/ UNCHANGED groupVars
       PROVE  UNCHANGED member
  BY <1>16 DEF StopAges, LateJoin, FormStart, FormLooks, FormVerifies, FormAnswers, ResumeSettles, KickFires, RoundStart, RoundReads,
               RoundMisses, UndoStart, UndoClears, groupVars, heard
<1> QED BY <1>4, <1>5, <1>6, <1>7, <1>8, <1>9, <1>10, <1>11, <1>12, <1>13, <1>14, <1>15, <1>16
        DEF GroupNext, People, Form, Resuming, Round, Undo

\* Every step keeps the member the round is about to push where the round found it, or where
\* a person took it.
LEMMA PushSafeStep ==
  ASSUME ZoneIInv, [GroupNext]_groupVars
  PROVE  PushSafe'
<1>0. PushSafe /\ round \in RoundType BY IInvParts DEF Carried
<1>1. SUFFICES ASSUME round'.at = "push"
               PROVE  round'.who \in Followers /\ (round'.who \notin touched' => member'[round'.who].src \notin {"own", "standby"})
  BY DEF PushSafe
<1>2. ASSUME NEW f \in Followers, round' = RoundNext(f) PROVE FALSE
  <2>1. round' = NoRound \/ round' = [round EXCEPT !.at = "read", !.left = @ \ {f}, !.who = "nobody"] BY <1>2 DEF RoundNext
  <2>2. round' # NoRound BY <1>1 DEF NoRound
  <2>3. round'.at = "read" BY <1>0, <2>1, <2>2 DEF RoundType
  <2> QED BY <1>1, <2>3
<1>3. ASSUME NEW f \in Followers, RoundReads(f)
      PROVE  round'.who \in Followers /\ (round'.who \notin touched' => member'[round'.who].src \notin {"own", "standby"})
  <2>1. Repairs(member[f]) /\ round' = [round EXCEPT !.at = "push", !.who = f] BY <1>2, <1>3 DEF RoundReads
  <2>2. round'.who = f BY <1>0, <2>1 DEF RoundType
  <2>3. member[f].src \in {"lan", "idle"} /\ UNCHANGED member BY <1>3, <2>1 DEF Repairs, RoundReads, heard
  <2> QED BY <2>2, <2>3
<1>4. CASE UNCHANGED round /\ touched \subseteq touched'
  <2>1. round.who \in Followers /\ (round.who \notin touched => member[round.who].src \notin {"own", "standby"})
    BY <1>0, <1>1, <1>4 DEF PushSafe
  <2> QED BY <1>4, <2>1, OnlyPeopleMoveMembers
<1>5. ASSUME NEW f \in Followers, RoundPushes(f) \/ RoundMisses(f) PROVE FALSE
  BY <1>2, <1>5 DEF RoundPushes, RoundMisses
<1>6. ASSUME RoundStart PROVE FALSE BY <1>1, <1>6 DEF RoundStart
<1>7. ASSUME People \/ Form \/ Resuming \/ Undo \/ KickFires \/ UNCHANGED groupVars
      PROVE  UNCHANGED round /\ touched \subseteq touched'
  <2>1. CASE People
    BY <2>1 DEF People, UserPlays, UserStops, StopAges, MasterElsewhere, MemberActs, LateJoin
  <2>2. CASE Form
    BY <2>2 DEF Form, FormStart, FormLooks, FormPushes, FormDrops, FormSets, FormVerifies, FormAnswers
  <2>3. CASE Resuming \/ Undo \/ KickFires \/ UNCHANGED groupVars
    BY <2>3 DEF Resuming, ResumeSettles, ResumePushes, Undo, UndoStart, UndoRemoves, UndoSweeps, UndoClears, KickFires, groupVars
  <2> QED BY <1>7, <2>1, <2>2, <2>3
<1> QED BY <1>3, <1>4, <1>5, <1>6, <1>7 DEF GroupNext, Round

-----------------------------------------------------------------------------
(* The theorems. *)

\* The strengthened invariant holds in every state of every behaviour.
THEOREM ZonesInductive == GroupSpec => []ZoneIInv
<1>1. ASSUME ZoneIInv, [GroupNext]_groupVars PROVE ZoneIInv'
  <2>1. Carried' /\ Sounding' /\ PushSafe' BY <1>1, CarriedStep, SoundStep, PushSafeStep
  <2> USE DEF AgainType, RoundOK
  <2>2. GroupTypeOK' BY <2>1 DEF GroupTypeOK, Carried, Sounding, Wellformed
  <2>3. ZoneTypes' BY <2>1, <2>2 DEF ZoneTypes, Carried
  <2>4. VerifiedJoined' /\ Streams' /\ Removed' /\ Enlisted'
    BY <2>1 DEF VerifiedJoined, Streams, Removed, Enlisted, Carried, Sounding
  <2> QED BY <2>1, <2>3, <2>4 DEF ZoneIInv
<1> QED BY <1>1, InitZones, PTL DEF GroupSpec

\* Whoever the form reports as verified has joined since it began, and a form that could
\* remove members leaves none registered that it was not asked for; for any number of speakers,
\* and whatever people do at them meanwhile.
THEOREM GroupHolds == GroupSpec => []GroupInv
<1>1. ZoneIInv => GroupInv BY DEF ZoneIInv, ZoneTypes, Removed, GroupInv, DroppedStayOut
<1> QED BY <1>1, ZonesInductive, PTL

\* reconcileZoneOnce pushes a member it read as idle or on a mirror, and no step of anybody
\* but a person at that member takes it elsewhere between the read and the push.
THEOREM RoundLeaves == GroupSpec => RoundLeavesOthers
<1>1. ASSUME ZoneIInv, NEW f \in Followers, RoundPushes(f), f \notin touched PROVE member[f].src \notin {"own", "standby"}
  BY <1>1 DEF ZoneIInv, PushSafe, RoundPushes
<1>2. ZoneIInv => \A f \in Followers : RoundPushes(f) /\ f \notin touched => member[f].src \notin {"own", "standby"}
  BY <1>1
<1> QED BY <1>2, ZonesInductive, PTL DEF RoundLeavesOthers

\* resumeAfterZoneForm brings back the play the form found, and only while it is the last one.
THEOREM ResumeNewest == GroupSpec => ResumeIsNewest
<1>1. ASSUME ResumePushes, master' # master PROVE master'.n = lastPlay
  <2>1. ~Overtaken /\ MasterPlays(Stream("loop", again.n)) BY <1>1 DEF ResumePushes, heard
  <2> QED BY <2>1 DEF Overtaken, MasterPlays, Stream
<1>2. [ResumePushes /\ master' # master => master'.n = lastPlay]_groupVars BY <1>1
<1> QED BY <1>2, PTL DEF ResumeIsNewest
=============================================================================
