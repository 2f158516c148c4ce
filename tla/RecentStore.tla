----------------------------- MODULE RecentStore -----------------------------
(***************************************************************************)
(* The ring of recently played cards (internal/recent/recent.go and the    *)
(* handlers of playback.go that fill it): additions fold into the newest   *)
(* row or append one, a debounced flush writes the ring to NAND, a delete  *)
(* flushes at once.  Flush marshals under the mutex and writes without it, *)
(* so two flushes may be under way, one of the timer and one of a delete   *)
(* or of the shutdown.  A row is named by its card, its track and the time *)
(* it was written at.                                                      *)
(***************************************************************************)
EXTENDS Naturals, Sequences

CONSTANTS Cards, Titles,      \* cards and track titles; "" is a row without a title
          MaxEntries,         \* recent.go's cap
          MaxStamps           \* bound on the changes made

ASSUME RecentAssumption == MaxEntries \in Nat \ {0} /\ MaxStamps \in Nat

VARIABLES
  ring,        \* Store.data, oldest first
  dirty,       \* Store.dirty
  flushTimer,  \* Store.timer is pending
  flushes,     \* per flusher: where it is and what it marshalled
  onNand,      \* recent.json
  stamp,       \* changes made so far, which stamp the rows
  overlap,     \* history: two flushes were under way at once
  undone,      \* history: a write failed and nothing was added since
  cut          \* history: a card was removed from the middle of the ring

recentVars == <<ring, dirty, flushTimer, flushes, onNand, stamp, overlap, undone, cut>>

Flushers == {"timer", "handler"}
NoFlush == [pc |-> "idle", text |-> <<>>]

RecentInit ==
  /\ ring = <<>> /\ dirty = FALSE /\ flushTimer = FALSE /\ onNand = <<>> /\ stamp = 0
  /\ flushes = [f \in Flushers |-> NoFlush] /\ overlap = FALSE /\ undone = FALSE /\ cut = FALSE

-----------------------------------------------------------------------------
(***************************************************************************)
(* The ring.                                                               *)
(***************************************************************************)
Capped_OffByOne(rows) == IF Len(rows) > MaxEntries + 1 THEN Tail(rows) ELSE rows
Capped(rows) == IF Len(rows) > MaxEntries THEN SubSeq(rows, Len(rows) - MaxEntries + 1, Len(rows)) ELSE rows

\* Add: the newest row takes the addition unless both have titles and they differ.
Folds_ByTitle(last, card, title) == last.card = card /\ title = last.title
Folds(last, card, title) == last.card = card /\ (last.title = "" \/ title = "" \/ title = last.title)
Refreshed(last, title, ts) == [last EXCEPT !.ts = ts, !.title = IF title # "" THEN title ELSE @]
Added(rows, card, title, ts) ==
  IF rows # <<>> /\ Folds(rows[Len(rows)], card, title)
  THEN [rows EXCEPT ![Len(rows)] = Refreshed(@, title, ts)]
  ELSE Capped(Append(rows, [card |-> card, title |-> title, ts |-> ts]))

\* DeleteCardAt: the run of rows of one card around the row of that time.
Run(rows, i) == {k \in DOMAIN rows : \A m \in DOMAIN rows :
                   (m >= k /\ m <= i) \/ (m >= i /\ m <= k) => rows[m].card = rows[i].card}
WithoutRun(rows, i) ==
  LET kept == DOMAIN rows \ Run(rows, i)
      lo == CHOOSE k \in Run(rows, i) : \A m \in Run(rows, i) : k <= m
      hi == CHOOSE k \in Run(rows, i) : \A m \in Run(rows, i) : k >= m
  IN SubSeq(rows, 1, lo - 1) \o SubSeq(rows, hi + 1, Len(rows))

\* markDirtyLocked: one timer at a time.
MarkDirty_WhenClean == dirty' = TRUE /\ flushTimer' = (flushTimer \/ ~dirty)
MarkDirty == dirty' = TRUE /\ flushTimer' = TRUE

Stamped == stamp < MaxStamps /\ stamp' = stamp + 1

Add(card, title) ==
  /\ Stamped
  /\ ring' = Added(ring, card, title, stamp + 1) /\ MarkDirty /\ undone' = FALSE
  /\ UNCHANGED <<flushes, onNand, overlap, cut>>

\* A delete of handleRecent: the ring changes, then the handler flushes.
Delete ==
  /\ Stamped /\ flushes["handler"].pc = "idle" /\ ring # <<>>
  /\ \/ ring' = <<>>
     \/ \E i \in DOMAIN ring : ring' = WithoutRun(ring, i)
  /\ MarkDirty /\ undone' = FALSE /\ cut' = TRUE
  /\ flushes' = [flushes EXCEPT !["handler"].pc = "flush"]
  /\ UNCHANGED <<onNand, overlap>>

-----------------------------------------------------------------------------
(***************************************************************************)
(* Flush.                                                                  *)
(***************************************************************************)
\* The debounce timer: its callback forgets the timer first and flushes after.
TimerFires ==
  /\ flushTimer /\ flushes["timer"].pc = "idle"
  /\ flushTimer' = FALSE /\ flushes' = [flushes EXCEPT !["timer"].pc = "flush"]
  /\ UNCHANGED <<ring, dirty, onNand, stamp, overlap, undone, cut>>

\* Under the mutex: a clean ring needs no write; a dirty one is marshalled and called clean.
FlushMarshal(f) ==
  /\ flushes[f].pc = "flush"
  /\ IF dirty THEN /\ flushes' = [flushes EXCEPT ![f] = [pc |-> "write", text |-> ring]]
                   /\ dirty' = FALSE
                   /\ overlap' = (overlap \/ \E g \in Flushers : flushes[g].pc = "write")
     ELSE flushes' = [flushes EXCEPT ![f] = NoFlush] /\ UNCHANGED <<dirty, overlap>>
  /\ UNCHANGED <<ring, flushTimer, onNand, stamp, undone, cut>>

\* Without it: the write lands whole, or fails and leaves the ring dirty for the next Add.
FlushWrite_FailsClean(f) ==
  /\ flushes[f].pc = "write" /\ flushes' = [flushes EXCEPT ![f] = NoFlush]
  /\ onNand' \in {flushes[f].text, onNand}
  /\ UNCHANGED <<ring, dirty, flushTimer, stamp, overlap, undone, cut>>
FlushWrite(f) ==
  /\ flushes[f].pc = "write" /\ flushes' = [flushes EXCEPT ![f] = NoFlush]
  /\ \/ onNand' = flushes[f].text /\ UNCHANGED <<dirty, undone>>
     \/ dirty' = TRUE /\ undone' = TRUE /\ UNCHANGED onNand
  /\ UNCHANGED <<ring, flushTimer, stamp, overlap, cut>>

\* A power cut between any two steps; the agent starts from the file (Load).
RecentReboot ==
  /\ Stamped
  /\ ring' = Capped(onNand) /\ dirty' = FALSE /\ flushTimer' = FALSE
  /\ flushes' = [f \in Flushers |-> NoFlush] /\ overlap' = FALSE /\ undone' = FALSE
  /\ UNCHANGED <<onNand, cut>>

RecentNext ==
  \/ \E card \in Cards, title \in Titles \cup {""} : Add(card, title)
  \/ Delete \/ TimerFires \/ RecentReboot
  \/ \E f \in Flushers : FlushMarshal(f) \/ FlushWrite(f)

-----------------------------------------------------------------------------
RecentTypeOK ==
  /\ Len(ring) <= MaxEntries /\ Len(onNand) <= MaxEntries
  /\ \A i \in DOMAIN ring : ring[i].card \in Cards /\ ring[i].title \in Titles \cup {""}
  /\ dirty \in BOOLEAN /\ flushTimer \in BOOLEAN /\ stamp \in 0..MaxStamps

\* As long as nothing was cut out of the ring, no two neighbouring rows tell the same play twice:
\* a card's start is filled in by its first title, and a title repeated is one row (recent.go:123-169).
NoPlayTwice ==
  ~cut => \A i \in 1..(Len(ring) - 1) : ring[i].card = ring[i + 1].card =>
            ring[i].title # "" /\ ring[i + 1].title # "" /\ ring[i].title # ring[i + 1].title

\* A change is never forgotten: a dirty ring has a flush coming, of the timer or of a handler,
\* whatever the additions and the flushes under way do between the steps of the timer's
\* callback; a write that failed waits for the next addition (recent.go:173-184, 290-299).
DirtyIsScheduled == dirty => flushTimer \/ undone \/ \E f \in Flushers : flushes[f].pc = "flush"

\* Once every flush is done and no two of them were under way together, the file holds the ring
\* as it is: nothing added between the marshalling and the write is called clean
\* (recent.go:274-299).  Two flushes at once may land in either order.
LoneFlushLands ==
  ~dirty /\ ~overlap /\ (\A f \in Flushers : flushes[f].pc # "write") => onNand = ring

\* What holds of the ring and its flushes together.
RecentInv == RecentTypeOK /\ NoPlayTwice /\ DirtyIsScheduled /\ LoneFlushLands
=============================================================================
