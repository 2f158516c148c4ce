------------------------------ MODULE QueueOrder ------------------------------
(***************************************************************************)
(* The order of the play queue (internal/webui/queue.go): the index, order, *)
(* shuffle and repeat rules of playQueue, whose methods all run under its  *)
(* own mutex.  A queue is a record of the struct's fields; `items' is the  *)
(* number of tracks, for the tracks are only ever named by their index.    *)
(* The random number generator is a choice.                                *)
(***************************************************************************)
EXTENDS Naturals, Sequences

Repeats == {"off", "all", "one"}
Emptied == [items |-> 0, order |-> <<>>, pos |-> 1, repeat |-> "off", shuffle |-> FALSE, active |-> FALSE]

(***************************************************************************)
(* The operators of playQueue.  Positions count from 1 here, from 0 in the *)
(* code.                                                                   *)
(***************************************************************************)
Identity(n) == [i \in 1..n |-> i]
Shuffles(n) == {f \in [1..n -> 1..n] : \A i, j \in 1..n : f[i] = f[j] => i = j}

\* buildOrder: the identity, or a shuffle with `first' in front.
BuildOrders_NoSwap(n, shuffle, first) ==
  IF shuffle THEN {[f \in 1..n |-> IF f = 1 THEN first ELSE f]} ELSE {Identity(n)}
BuildOrders(n, shuffle, first) ==
  IF shuffle THEN {f \in Shuffles(n) : f[1] = first} ELSE {Identity(n)}

\* load with a start: 0 stands for a negative one, "no track was chosen".
Loads(n, start, shuffle, rep) ==
  UNION {{[items |-> n, order |-> o, pos |-> IF shuffle THEN 1 ELSE s, repeat |-> rep,
           shuffle |-> shuffle, active |-> TRUE] : o \in BuildOrders(n, shuffle, s)} :
         s \in IF start = 0 /\ shuffle THEN 1..n
               ELSE IF start \in 1..n THEN {start} ELSE {1}}

Current(q) == IF q.active /\ q.pos \in DOMAIN q.order THEN q.order[q.pos] ELSE 0

Wraps_Lossy(q) == {[q EXCEPT !.pos = IF q.items > 1 THEN 2 ELSE 1]}
\* A wrapped lap: reshuffled and rotated off its first track, or from the front again.
Wraps(q) ==
  IF ~q.shuffle THEN {[q EXCEPT !.pos = 1]}
  ELSE {[q EXCEPT !.order = IF q.items > 1 THEN Append(Tail(o), Head(o)) ELSE o, !.pos = 1] :
        o \in BuildOrders(q.items, TRUE, q.order[1])}

StepForward_OffByOne(q, wrap) ==
  IF q.pos <= Len(q.order) THEN {[q EXCEPT !.pos = @ + 1]} ELSE {[q EXCEPT !.active = FALSE, !.pos = Len(q.order)]}
StepForward(q, wrap) ==
  IF q.pos < Len(q.order) THEN {[q EXCEPT !.pos = @ + 1]}
  ELSE IF wrap THEN Wraps(q)
  ELSE {[q EXCEPT !.active = FALSE, !.pos = Len(q.order)]}

Nexts(q) == IF q.active THEN StepForward(q, q.repeat = "all") ELSE {q}
AdvanceNaturals(q) == IF q.active /\ q.repeat = "one" THEN {q} ELSE Nexts(q)
Prev(q) == IF ~q.active THEN q
           ELSE [q EXCEPT !.pos = IF q.pos > 1 THEN @ - 1
                                  ELSE IF q.repeat = "all" THEN Len(q.order) ELSE 1]

SetShuffles(q, on) ==
  IF q.shuffle = on \/ q.items = 0 THEN {[q EXCEPT !.shuffle = on]}
  ELSE LET cur == IF Current(q) # 0 THEN Current(q) ELSE 1
       IN {[q EXCEPT !.shuffle = on, !.order = o, !.pos = IF on THEN 1 ELSE cur] :
           o \in BuildOrders(q.items, on, cur)}

Cleared(q) == [q EXCEPT !.items = 0, !.order = <<>>, !.pos = 1, !.active = FALSE]
=============================================================================
