------------------------------ MODULE App_proofs ------------------------------
(***************************************************************************)
(* Proofs about the desktop app, for any presses, speakers, addresses,     *)
(* scans, rooms and bounds.  The three parts of MCApp share nothing, and   *)
(* each has an inductive invariant of its own: what a flow of an update    *)
(* may rely on where it is; what the list shows against what the app       *)
(* remembers, and what may still tell of a speaker that was removed; and   *)
(* what an installation has left behind at each of its stages.             *)
(***************************************************************************)
EXTENDS MCApp, WellFoundedInduction, TLAPS

-----------------------------------------------------------------------------
(***************************************************************************)
(* The updates.                                                            *)
(***************************************************************************)

Places == {"idle", "asking", "reading", "claim", "stage", "preflight", "post", "ssh", "poll", "settling",
           "spotify", "ensure", "check", "honest", "telling"}
FlowRecords ==
  [at : Places, kind : Kinds, pre : {"unknown", "old", "new"}, try : Nat, n : Nat,
   why : {"none", "silent", "refused"}, dropped : BOOLEAN, taken : BOOLEAN,
   told : {"nothing", "done", "partial", "timeout", "failed"}]
Speakers ==
  [run : {"old", "new"}, disk : {"old", "new"}, engine : {"none", "old", "new"}, up : BOOLEAN,
   room : {"wide", "tight", "full"}, capable : BOOLEAN, unsure : BOOLEAN]

\* Where nothing of the flow has reached the flash yet.
Before == {"idle", "asking", "reading", "claim", "stage", "preflight", "post", "ssh"}

\* What a flow may rely on where it is, of the speaker `s`.
FlowFacts(s, f) ==
  /\ f.at \in {"spotify", "ensure", "check", "honest"} => s.run = "new"
  /\ f.taken => s.disk = "new"
  /\ f.at \in Before \/ f.kind = "engine" => ~f.taken
  /\ f.kind = "engine" => f.at \in {"ensure", "check"}
  /\ f.told # "nothing" => f.at = "telling"
WritesAt(f) == f.at \in {"stage", "preflight", "post", "ssh"}

SpeakerOK == speaker \in Speakers /\ (speaker.run = "new" => speaker.disk = "new")
FlowsOK == flows \in [Presses -> FlowRecords] /\ \A p \in Presses : FlowFacts(speaker, flows[p])
RecordOK == intent \in BOOLEAN /\ reached \in BOOLEAN /\ looking \in BOOLEAN /\ OwedOnRecord /\ (looking => reached)
WriterOK == writer \in Presses \cup {"none"} /\ \A p \in Presses : WritesAt(flows[p]) <=> writer = p

FleetIInv == SpeakerOK /\ FlowsOK /\ RecordOK /\ WriterOK

\* The step of VerdictTrue, of one press.
Verdict(p) ==
  flows'[p].told # "nothing" /\ flows[p].told = "nothing" =>
       /\ flows'[p].told = "done" => speaker.run = "new" /\ (speaker.up => speaker.engine # "none")
       /\ flows'[p].told = "partial" => speaker.run = "new"
       /\ flows'[p].told = "failed" => ~flows[p].taken

\* A speaker never goes back, in what it runs or in what it will boot.
Onward(s, t) ==
  /\ t \in Speakers /\ (t.run = "new" => t.disk = "new")
  /\ s.run = "new" => t.run = "new"
  /\ s.disk = "new" => t.disk = "new"

\* A step of one flow keeps the invariant, and is no false verdict, if the flow's new record and the
\* speaker agree.
LEMMA OneFlow ==
  ASSUME FleetIInv, NEW p \in Presses, NEW f \in FlowRecords, flows' = [flows EXCEPT ![p] = f],
         Onward(speaker, speaker'), FlowFacts(speaker', f), RecordOK',
         \/ writer' = writer /\ (WritesAt(f) <=> WritesAt(flows[p]))
         \/ writer' = "none" /\ WritesAt(flows[p]) /\ ~WritesAt(f)
         \/ writer = "none" /\ writer' = p /\ WritesAt(f),
         f.told # "nothing" /\ flows[p].told = "nothing" =>
           /\ f.told = "done" => speaker.run = "new" /\ (speaker.up => speaker.engine # "none")
           /\ f.told = "partial" => speaker.run = "new"
           /\ f.told = "failed" => ~flows[p].taken
  PROVE  FleetIInv' /\ \A q \in Presses : Verdict(q)
<1>. USE FleetAssumption DEF FleetIInv
<1>0. flows' \in [Presses -> FlowRecords] /\ flows'[p] = f /\ \A q \in Presses \ {p} : flows'[q] = flows[q]
  BY DEF FlowsOK
<1>1. SpeakerOK'
  BY DEF SpeakerOK, Onward
<1>2. \A q \in Presses : FlowFacts(speaker, flows[q]) => q = p \/ FlowFacts(speaker', flows'[q])
  <2>. SUFFICES ASSUME NEW q \in Presses, FlowFacts(speaker, flows[q]), q # p PROVE FlowFacts(speaker', flows'[q])
    OBVIOUS
  <2>1. flows'[q] = flows[q]
    BY <1>0
  <2>. QED
    BY <2>1 DEF FlowFacts, Onward
<1>3. FlowsOK'
  BY <1>0, <1>2 DEF FlowsOK
<1>4. WriterOK'
  <2>1. writer' \in Presses \cup {"none"}
    BY DEF WriterOK
  <2>2. ASSUME NEW q \in Presses PROVE WritesAt(flows'[q]) <=> writer' = q
    BY <1>0 DEF WriterOK
  <2>. QED
    BY <2>1, <2>2 DEF WriterOK
<1>5. ASSUME NEW q \in Presses PROVE Verdict(q)
  BY <1>0 DEF Verdict
<1>. QED
  BY <1>1, <1>3, <1>4, <1>5

\* So does a step of nobody's flow, if the speaker does not go back and the record of what is owed still
\* holds.
LEMMA NoFlow ==
  ASSUME FleetIInv, flows' = flows, writer' = writer, Onward(speaker, speaker'), RecordOK'
  PROVE  FleetIInv' /\ \A q \in Presses : Verdict(q)
<1>. USE DEF FleetIInv
<1>1. SpeakerOK'
  BY DEF SpeakerOK, Onward
<1>2. \A q \in Presses : FlowFacts(speaker', flows[q])
  BY DEF FlowsOK, FlowFacts, Onward
<1>3. FlowsOK'
  BY <1>2 DEF FlowsOK
<1>4. WriterOK'
  BY DEF WriterOK
<1>5. ASSUME NEW q \in Presses PROVE Verdict(q)
  BY DEF Verdict
<1>. QED
  BY <1>1, <1>3, <1>4, <1>5

\* Only the flow of p moves, to `at`, with what it has told.
Advanced(p, at, told) ==
  /\ flows'[p] \in FlowRecords /\ flows' = [flows EXCEPT ![p] = flows'[p]]
  /\ flows'[p].at = at /\ flows'[p].told = told
Keeps(p) == flows'[p].taken = flows[p].taken /\ flows'[p].kind = flows[p].kind

\* GoOn changes only where the flow is.
LEMMA GoesOnTo ==
  ASSUME FlowsOK, NEW p \in Presses, NEW at \in Places, GoOn(p, at)
  PROVE  Advanced(p, at, flows[p].told) /\ Keeps(p)
BY DEF FlowsOK, FlowRecords, GoOn, Advanced, Keeps, Places

\* Turn changes only where the flow is and how often it has tried.
LEMMA TurnsTo ==
  ASSUME FlowsOK, NEW p \in Presses, NEW at \in Places, NEW n \in Nat, Turn(p, at, n)
  PROVE  Advanced(p, at, flows[p].told) /\ Keeps(p)
<1>1. [flows[p] EXCEPT !.at = at, !.n = n] \in FlowRecords
  BY DEF FlowsOK, FlowRecords
<1>2. flows' = [flows EXCEPT ![p] = [flows[p] EXCEPT !.at = at, !.n = n]]
  BY DEF Turn, FlowsOK
<1>. QED
  BY <1>1, <1>2 DEF FlowsOK, FlowRecords, Advanced, Keeps

\* Tell leaves a verdict and nothing else of the flow.
LEMMA Tells ==
  ASSUME FlowsOK, NEW p \in Presses, NEW told \in {"nothing", "done", "partial", "timeout", "failed"}, Tell(p, told)
  PROVE  Advanced(p, "telling", told) /\ ~flows'[p].taken /\ flows'[p].kind = "single"
<1>1. [Idle EXCEPT !.at = "telling", !.told = told] \in FlowRecords
  BY DEF Idle, FlowRecords, Places, Kinds
<1>. QED
  BY <1>1 DEF FlowsOK, Tell, Advanced, Idle

\* A flow that stops has told nothing.
LEMMA Stops ==
  ASSUME FlowsOK, NEW p \in Presses, flows' = [flows EXCEPT ![p] = Idle]
  PROVE  Advanced(p, "idle", "nothing") /\ ~flows'[p].taken /\ flows'[p].kind = "single"
<1>1. Idle \in FlowRecords
  BY DEF Idle, FlowRecords, Places, Kinds
<1>. QED
  BY <1>1 DEF FlowsOK, Advanced, Idle

\* A step of one flow, in terms of where it goes.
LEMMA FlowStep ==
  ASSUME FleetIInv, NEW p \in Presses, NEW at \in Places, NEW told, Advanced(p, at, told),
         Onward(speaker, speaker'), RecordOK',
         at \in {"spotify", "ensure", "check", "honest"} => speaker'.run = "new",
         flows'[p].taken => speaker'.disk = "new",
         at \in Before \/ flows'[p].kind = "engine" => ~flows'[p].taken,
         flows'[p].kind = "engine" => at \in {"ensure", "check"},
         told # "nothing" => at = "telling",
         \/ writer' = writer /\ (at \in {"stage", "preflight", "post", "ssh"} <=> WritesAt(flows[p]))
         \/ writer' = "none" /\ WritesAt(flows[p]) /\ at \notin {"stage", "preflight", "post", "ssh"}
         \/ writer = "none" /\ writer' = p /\ at \in {"stage", "preflight", "post", "ssh"},
         told # "nothing" /\ flows[p].told = "nothing" =>
           /\ told = "done" => speaker.run = "new" /\ (speaker.up => speaker.engine # "none")
           /\ told = "partial" => speaker.run = "new"
           /\ told = "failed" => ~flows[p].taken
  PROVE  FleetIInv' /\ \A q \in Presses : Verdict(q)
<1>1. FlowFacts(speaker', flows'[p])
  BY DEF FlowFacts, Advanced
<1>2. WritesAt(flows'[p]) <=> at \in {"stage", "preflight", "post", "ssh"}
  BY DEF WritesAt, Advanced
<1>. QED
  BY <1>1, <1>2, OneFlow DEF Advanced

\* What is told of a press where it is.
LEMMA Here ==
  ASSUME FleetIInv, NEW p \in Presses
  PROVE  /\ flows[p] \in FlowRecords /\ FlowFacts(speaker, flows[p]) /\ (WritesAt(flows[p]) <=> writer = p)
         /\ p # "none"
BY FleetAssumption DEF FleetIInv, FlowsOK, WriterOK

\* A speaker that does not change does not go back.
LEMMA SameSpeaker == ASSUME FleetIInv, speaker' = speaker PROVE Onward(speaker, speaker')
BY DEF FleetIInv, SpeakerOK, Onward

\* The record of what the app owes holds as long as nothing of it changes.
LEMMA SameRecord == ASSUME FleetIInv, intent' = intent, reached' = reached, looking' = looking PROVE RecordOK'
BY DEF FleetIInv, RecordOK, OwedOnRecord

\* ClearIntent may be called once the target was reached.
LEMMA Cleared == ASSUME FleetIInv, ClearIntent, looking' = looking, reached \/ AtTarget(speaker) PROVE RecordOK'
<1>1. intent' = FALSE /\ reached' = TRUE
  BY DEF ClearIntent
<1>. QED
  BY <1>1 DEF FleetIInv, RecordOK, OwedOnRecord

\* A press starts a flow that has written nothing.
LEMMA PressStep ==
  ASSUME FleetIInv, NEW p \in Presses, Press(p)
  PROVE  FleetIInv' /\ \A q \in Presses : Verdict(q)
<1>. USE DEF FleetIInv
<1>0. flows[p] \in FlowRecords /\ FlowFacts(speaker, flows[p]) /\ (WritesAt(flows[p]) <=> writer = p) /\ p # "none"
  BY Here
<1>s. Onward(speaker, speaker')
  BY SameSpeaker DEF Press
<1>r. RecordOK'
  BY SameRecord DEF Press, AppUnchanged
<1>1. PICK k \in {"single", "batch"} : flows' = [flows EXCEPT ![p].at = "asking", ![p].kind = k]
  BY DEF Press
<1>2. Advanced(p, "asking", flows[p].told) /\ flows'[p].taken = flows[p].taken /\ flows'[p].kind = k
  BY <1>1, <1>0 DEF FlowsOK, FlowRecords, Advanced, Places, Kinds
<1>. QED
  BY <1>0, <1>2, <1>s, <1>r, FlowStep DEF Press, In_, FlowFacts, Before, WritesAt, Places

\* A confirmation puts the intent on record before the flow reads the speaker.
LEMMA ConfirmStep ==
  ASSUME FleetIInv, NEW p \in Presses, Confirm(p)
  PROVE  FleetIInv' /\ \A q \in Presses : Verdict(q)
<1>. USE DEF FleetIInv
<1>0. flows[p] \in FlowRecords /\ FlowFacts(speaker, flows[p]) /\ (WritesAt(flows[p]) <=> writer = p) /\ p # "none"
  BY Here
<1>s. Onward(speaker, speaker')
  BY SameSpeaker DEF Confirm
<1>1. CASE GoOn(p, "reading")
  <2>1. Advanced(p, "reading", flows[p].told) /\ Keeps(p)
    BY <1>1, GoesOnTo DEF Places
  <2>2. RecordOK'
    BY DEF Confirm, RecordOK, OwedOnRecord
  <2>. QED
    BY <1>0, <2>1, <2>2, <1>s, FlowStep DEF Confirm, In_, FlowFacts, Before, WritesAt, Places, Keeps
<1>2. CASE speaker.run = "new" /\ flows' = [flows EXCEPT ![p].at = "ensure", ![p].kind = "engine"]
  <2>1. Advanced(p, "ensure", flows[p].told) /\ flows'[p].taken = flows[p].taken /\ flows'[p].kind = "engine"
    BY <1>2, <1>0 DEF FlowsOK, FlowRecords, Advanced, Places, Kinds
  <2>2. RecordOK'
    BY DEF Confirm, RecordOK, OwedOnRecord
  <2>. QED
    BY <1>0, <1>2, <2>1, <2>2, <1>s, FlowStep DEF Confirm, In_, FlowFacts, Before, WritesAt, Places
<1>. QED
  BY <1>1, <1>2 DEF Confirm

\* A refusal ends a flow that has written nothing.
LEMMA CancelStep ==
  ASSUME FleetIInv, NEW p \in Presses, Cancel(p)
  PROVE  FleetIInv' /\ \A q \in Presses : Verdict(q)
<1>. USE DEF FleetIInv
<1>0. flows[p] \in FlowRecords /\ FlowFacts(speaker, flows[p]) /\ (WritesAt(flows[p]) <=> writer = p) /\ p # "none"
  BY Here
<1>s. Onward(speaker, speaker')
  BY SameSpeaker DEF Cancel
<1>r. RecordOK'
  BY SameRecord DEF Cancel, AppUnchanged
<1>1. Advanced(p, "idle", "nothing") /\ ~flows'[p].taken /\ flows'[p].kind = "single"
  BY Stops DEF Cancel
<1>. QED
  BY <1>0, <1>1, <1>s, <1>r, FlowStep DEF Cancel, In_, AppUnchanged, Before, WritesAt, Places

\* A flow that has told its verdict is forgotten.
LEMMA FinishStep ==
  ASSUME FleetIInv, NEW p \in Presses, Finish(p)
  PROVE  FleetIInv' /\ \A q \in Presses : Verdict(q)
<1>. USE DEF FleetIInv
<1>0. flows[p] \in FlowRecords /\ FlowFacts(speaker, flows[p]) /\ (WritesAt(flows[p]) <=> writer = p) /\ p # "none"
  BY Here
<1>s. Onward(speaker, speaker')
  BY SameSpeaker DEF Finish
<1>r. RecordOK'
  BY SameRecord DEF Finish, AppUnchanged
<1>1. Advanced(p, "idle", "nothing") /\ ~flows'[p].taken /\ flows'[p].kind = "single"
  BY Stops DEF Finish
<1>. QED
  BY <1>0, <1>1, <1>s, <1>r, FlowStep DEF Finish, In_, Before, WritesAt, Places

\* Reading the version writes nothing; a second try starts here again.
LEMMA ReadBeforeStep ==
  ASSUME FleetIInv, NEW p \in Presses, ReadBefore(p)
  PROVE  FleetIInv' /\ \A q \in Presses : Verdict(q)
<1>. USE DEF FleetIInv
<1>0. flows[p] \in FlowRecords /\ FlowFacts(speaker, flows[p]) /\ (WritesAt(flows[p]) <=> writer = p) /\ p # "none"
  BY Here
<1>s. Onward(speaker, speaker')
  BY SameSpeaker DEF ReadBefore
<1>r. RecordOK'
  BY SameRecord DEF ReadBefore, AppUnchanged
<1>1. (IF speaker.up THEN speaker.run ELSE "unknown") \in {"unknown", "old", "new"}
  BY DEF SpeakerOK, Speakers
<1>2. Advanced(p, "claim", flows[p].told) /\ Keeps(p)
  <2>. DEFINE pre == IF speaker.up THEN speaker.run ELSE "unknown"
  <2>1. flows' = [flows EXCEPT ![p].at = "claim", ![p].n = 1, ![p].dropped = FALSE, ![p].pre = pre] /\ pre \in {"unknown", "old", "new"}
    BY <1>1 DEF ReadBefore
  <2>. HIDE DEF pre
  <2>. QED
    BY <2>1, <1>0 DEF FlowsOK, FlowRecords, Advanced, Keeps, Places
<1>. QED
  BY <1>0, <1>2, <1>s, <1>r, FlowStep DEF ReadBefore, In_, AppUnchanged, FlowFacts, Before, WritesAt, Places,
      Keeps

\* The claim makes this flow the only writer, or waits.
LEMMA ClaimStep ==
  ASSUME FleetIInv, NEW p \in Presses, Claim(p)
  PROVE  FleetIInv' /\ \A q \in Presses : Verdict(q)
<1>. USE DEF FleetIInv
<1>0. flows[p] \in FlowRecords /\ FlowFacts(speaker, flows[p]) /\ (WritesAt(flows[p]) <=> writer = p) /\ p # "none"
  BY Here
<1>s. Onward(speaker, speaker')
  BY SameSpeaker DEF Claim
<1>r. RecordOK'
  BY SameRecord DEF Claim, AppUnchanged
<1>1. CASE writer = "none" /\ writer' = p /\ GoOn(p, "stage")
  <2>1. Advanced(p, "stage", flows[p].told) /\ Keeps(p)
    BY <1>1, GoesOnTo DEF Places
  <2>. QED
    BY <1>0, <1>1, <2>1, <1>s, <1>r, FlowStep DEF Claim, In_, FlowFacts, Before, WritesAt, Places, Keeps
<1>2. CASE writer' = writer /\ Tell(p, "failed")
  <2>1. Advanced(p, "telling", "failed") /\ ~flows'[p].taken /\ flows'[p].kind = "single"
    BY <1>2, Tells
  <2>. QED
    BY <1>0, <1>2, <2>1, <1>s, <1>r, FlowStep DEF Claim, In_, FlowFacts, Before, WritesAt, Places
<1>. QED
  BY <1>1, <1>2 DEF Claim

\* Staging is a step of the only writer.
LEMMA StageStep ==
  ASSUME FleetIInv, NEW p \in Presses, Stage(p)
  PROVE  FleetIInv' /\ \A q \in Presses : Verdict(q)
<1>. USE DEF FleetIInv
<1>0. flows[p] \in FlowRecords /\ FlowFacts(speaker, flows[p]) /\ (WritesAt(flows[p]) <=> writer = p) /\ p # "none"
  BY Here
<1>r. RecordOK'
  BY SameRecord DEF Stage, AppUnchanged
<1>1. Onward(speaker, speaker')
  BY DEF Stage, SpeakerOK, Speakers, Onward
<1>2. Advanced(p, "preflight", flows[p].told) /\ Keeps(p)
  BY GoesOnTo DEF Stage, Places
<1>. QED
  BY <1>0, <1>1, <1>2, <1>r, FlowStep DEF Stage, In_, AppUnchanged, FlowFacts, Before, WritesAt, Places, Keeps

\* The preflight leads to the upload or to SSH, and writes nothing.
LEMMA PreflightStep ==
  ASSUME FleetIInv, NEW p \in Presses, Preflight(p)
  PROVE  FleetIInv' /\ \A q \in Presses : Verdict(q)
<1>. USE DEF FleetIInv
<1>0. flows[p] \in FlowRecords /\ FlowFacts(speaker, flows[p]) /\ (WritesAt(flows[p]) <=> writer = p) /\ p # "none"
  BY Here
<1>s. Onward(speaker, speaker')
  BY SameSpeaker DEF Preflight
<1>r. RecordOK'
  BY SameRecord DEF Preflight, AppUnchanged
<1>1. CASE GoOn(p, "post")
  <2>1. Advanced(p, "post", flows[p].told) /\ Keeps(p)
    BY <1>1, GoesOnTo DEF Places
  <2>. QED
    BY <1>0, <2>1, <1>s, <1>r, FlowStep DEF Preflight, In_, AppUnchanged, FlowFacts, Before, WritesAt, Places,
        Keeps
<1>2. CASE \E w \in {"silent", "refused"} : flows' = [flows EXCEPT ![p].at = "ssh", ![p].why = w]
  <2>0. PICK w \in {"silent", "refused"} : flows' = [flows EXCEPT ![p].at = "ssh", ![p].why = w]
    BY <1>2
  <2>1. Advanced(p, "ssh", flows[p].told) /\ Keeps(p)
    BY <1>0, <2>0 DEF FlowsOK, FlowRecords, Advanced, Keeps, Places
  <2>. QED
    BY <1>0, <2>1, <1>s, <1>r, FlowStep DEF Preflight, In_, AppUnchanged, FlowFacts, Before, WritesAt, Places,
        Keeps
<1>. QED
  BY <1>1, <1>2 DEF Preflight

\* Making room, going down and landing an upload take a speaker no step back.
LEMMA Room == ASSUME SpeakerOK
  PROVE  /\ Onward(speaker, MakesRoom(speaker)) /\ Onward(speaker, Down(MakesRoom(speaker))) /\ Onward(speaker, Down(speaker))
         /\ Onward(speaker, [MakesRoom(speaker) EXCEPT !.disk = "new"])
         /\ \A s \in Lands(speaker) : Onward(speaker, s) /\ s.disk = "new"
BY DEF SpeakerOK, Speakers, Onward, MakesRoom, Down, Lands

\* An upload that is taken is on the disk, whatever its reply says.
LEMMA PostStep ==
  ASSUME FleetIInv, NEW p \in Presses, Post(p)
  PROVE  FleetIInv' /\ \A q \in Presses : Verdict(q)
<1>. USE DEF FleetIInv
<1>0. flows[p] \in FlowRecords /\ FlowFacts(speaker, flows[p]) /\ (WritesAt(flows[p]) <=> writer = p) /\ p # "none"
  BY Here
<1>r. RecordOK'
  BY SameRecord DEF Post, AppUnchanged
<1>1. CASE speaker' \in Lands(speaker) /\ Release /\ flows' = [flows EXCEPT ![p].at = "poll", ![p].taken = TRUE]
  <2>1. Advanced(p, "poll", flows[p].told) /\ flows'[p].taken /\ flows'[p].kind = flows[p].kind
    BY <1>0, <1>1 DEF FlowsOK, FlowRecords, Advanced, Places
  <2>2. Onward(speaker, speaker') /\ speaker'.disk = "new"
    BY <1>1, Room
  <2>. QED
    BY <1>0, <1>1, <2>1, <2>2, <1>r, FlowStep DEF Post, In_, Release, FlowFacts, Before, WritesAt, Places
<1>2. CASE speaker' = Down(MakesRoom(speaker)) /\ Release /\ GoOn(p, "poll")
  <2>1. Advanced(p, "poll", flows[p].told) /\ Keeps(p)
    BY <1>2, GoesOnTo DEF Places
  <2>2. Onward(speaker, speaker')
    BY <1>2, Room, SameSpeaker
  <2>. QED
    BY <1>0, <1>2, <2>1, <2>2, <1>r, FlowStep DEF Post, Release, In_, AppUnchanged, FlowFacts, Before, WritesAt,
        Places, Keeps
<1>3. CASE speaker' \in {speaker, MakesRoom(speaker)} /\ writer' = writer /\ Turn(p, "post", flows[p].n + 1)
  <2>1. Advanced(p, "post", flows[p].told) /\ Keeps(p)
    <3>1. flows[p].n + 1 \in Nat
      BY <1>0 DEF FlowRecords
    <3>. QED
      BY <1>3, <3>1, TurnsTo DEF Places
  <2>2. Onward(speaker, speaker')
    BY <1>3, Room, SameSpeaker
  <2>. QED
    BY <1>0, <1>3, <2>1, <2>2, <1>r, FlowStep DEF Post, In_, AppUnchanged, FlowFacts, Before, WritesAt, Places,
        Keeps
<1>4. CASE writer' = writer /\ Onward(speaker, speaker') /\ \E w \in {"silent", "refused"} : flows' = [flows EXCEPT ![p].at = "ssh", ![p].why = w]
  <2>0. PICK w \in {"silent", "refused"} : flows' = [flows EXCEPT ![p].at = "ssh", ![p].why = w]
    BY <1>4
  <2>1. Advanced(p, "ssh", flows[p].told) /\ Keeps(p)
    BY <1>0, <2>0 DEF FlowsOK, FlowRecords, Advanced, Keeps, Places
  <2>. QED
    BY <1>0, <1>4, <2>1, <1>r, FlowStep DEF Post, In_, FlowFacts, Before, WritesAt, Places, Keeps
<1>5. CASE flows' = [flows EXCEPT ![p].at = "ssh", ![p].why = "refused"] /\ UNCHANGED <<speaker, writer>>
  BY <1>5, <1>4, SameSpeaker
<1>6. CASE /\ flows' = [flows EXCEPT ![p].at = "ssh", ![p].why = "silent"] /\ UNCHANGED writer
           /\ speaker' \in {speaker, IF speaker.up THEN MakesRoom(speaker) ELSE speaker}
  <2>1. Onward(speaker, speaker')
    BY <1>6, SameSpeaker, Room
  <2>. QED
    BY <1>6, <2>1, <1>4
<1>. QED
  BY <1>1, <1>2, <1>3, <1>5, <1>6 DEF Post

\* The fallback by SSH gives the claim back, and fails only where no upload was taken.
LEMMA ViaSSHStep ==
  ASSUME FleetIInv, NEW p \in Presses, ViaSSH(p)
  PROVE  FleetIInv' /\ \A q \in Presses : Verdict(q)
<1>. USE DEF FleetIInv
<1>0. flows[p] \in FlowRecords /\ FlowFacts(speaker, flows[p]) /\ (WritesAt(flows[p]) <=> writer = p) /\ p # "none"
  BY Here
<1>r. RecordOK'
  BY SameRecord DEF ViaSSH, AppUnchanged
<1>1. Onward(speaker, speaker')
  <2>1. CASE \E s \in Lands(speaker), e \in {"none", "old", "new"} : speaker' = [s EXCEPT !.engine = e]
    <3>1. PICK s \in Lands(speaker), e \in {"none", "old", "new"} : speaker' = [s EXCEPT !.engine = e]
      BY <2>1
    <3>2. Onward(speaker, s)
      BY Room
    <3>. QED
      BY <3>1, <3>2 DEF Onward, Speakers
  <2>2. CASE \E m \in {speaker, MakesRoom(speaker)} : speaker' \in {m, Down(m), [MakesRoom(speaker) EXCEPT !.disk = "new"]}
    BY <2>2, Room, SameSpeaker
  <2>. QED
    BY <2>1, <2>2 DEF ViaSSH
<1>2. CASE GoOn(p, "poll")
  <2>1. Advanced(p, "poll", flows[p].told) /\ Keeps(p)
    BY <1>2, GoesOnTo DEF Places
  <2>. QED
    BY <1>0, <1>1, <2>1, <1>r, FlowStep DEF ViaSSH, In_, Release, FlowFacts, Before, WritesAt, Places, Keeps
<1>3. CASE Tell(p, "failed")
  <2>1. Advanced(p, "telling", "failed") /\ ~flows'[p].taken /\ flows'[p].kind = "single"
    BY <1>3, Tells
  <2>. QED
    BY <1>0, <1>1, <2>1, <1>r, FlowStep DEF ViaSSH, In_, Release, FlowFacts, Before, WritesAt, Places
<1>. QED
  BY <1>2, <1>3 DEF ViaSSH

\* The poll goes on to the engine only with the new version running.
LEMMA PollMatchesStep ==
  ASSUME FleetIInv, NEW p \in Presses, PollMatches(p)
  PROVE  FleetIInv' /\ \A q \in Presses : Verdict(q)
<1>. USE DEF FleetIInv
<1>0. flows[p] \in FlowRecords /\ FlowFacts(speaker, flows[p]) /\ (WritesAt(flows[p]) <=> writer = p) /\ p # "none"
  BY Here
<1>s. Onward(speaker, speaker')
  BY SameSpeaker DEF PollMatches
<1>r. RecordOK'
  BY SameRecord DEF PollMatches, AppUnchanged
<1>1. CASE Turn(p, "spotify", 1)
  <2>1. Advanced(p, "spotify", flows[p].told) /\ Keeps(p)
    BY <1>1, TurnsTo DEF Places
  <2>. QED
    BY <1>0, <1>1, <1>s, <2>1, <1>r, FlowStep DEF PollMatches, Updated, In_, AppUnchanged, FlowFacts, Before,
        WritesAt, Places, Keeps
<1>2. CASE GoOn(p, "settling")
  <2>1. Advanced(p, "settling", flows[p].told) /\ Keeps(p)
    BY <1>2, GoesOnTo DEF Places
  <2>. QED
    BY <1>0, <1>2, <1>s, <2>1, <1>r, FlowStep DEF PollMatches, In_, AppUnchanged, FlowFacts, Before, WritesAt,
        Places, Keeps
<1>. QED
  BY <1>1, <1>2 DEF PollMatches

\* A flow that has settled goes on with the new version running, or polls again.
LEMMA SettledStep ==
  ASSUME FleetIInv, NEW p \in Presses, Settled(p)
  PROVE  FleetIInv' /\ \A q \in Presses : Verdict(q)
<1>. USE DEF FleetIInv
<1>0. flows[p] \in FlowRecords /\ FlowFacts(speaker, flows[p]) /\ (WritesAt(flows[p]) <=> writer = p) /\ p # "none"
  BY Here
<1>s. Onward(speaker, speaker')
  BY SameSpeaker DEF Settled
<1>r. RecordOK'
  BY SameRecord DEF Settled, AppUnchanged
<1>1. CASE Updated(speaker) /\ Turn(p, "spotify", 1)
  <2>1. Advanced(p, "spotify", flows[p].told) /\ Keeps(p)
    BY <1>1, TurnsTo DEF Places
  <2>. QED
    BY <1>0, <1>1, <1>s, <2>1, <1>r, FlowStep DEF Settled, Updated, In_, AppUnchanged, FlowFacts, Before,
        WritesAt, Places, Keeps
<1>2. CASE flows' = [flows EXCEPT ![p].at = "poll", ![p].dropped = ~speaker.up]
  <2>0. (~speaker.up) \in BOOLEAN
    BY DEF SpeakerOK, Speakers
  <2>1. Advanced(p, "poll", flows[p].told) /\ Keeps(p)
    BY <1>0, <1>2, <2>0 DEF FlowsOK, FlowRecords, Advanced, Keeps, Places
  <2>. QED
    BY <1>0, <2>1, <1>s, <1>r, FlowStep DEF Settled, In_, AppUnchanged, FlowFacts, Before, WritesAt, Places,
        Keeps
<1>. QED
  BY <1>1, <1>2 DEF Settled

\* A poll that ends without a match tells of what was taken as a timeout, never as a failure.
LEMMA PollEndsStep ==
  ASSUME FleetIInv, NEW p \in Presses, PollEnds(p)
  PROVE  FleetIInv' /\ \A q \in Presses : Verdict(q)
<1>. USE DEF FleetIInv
<1>0. flows[p] \in FlowRecords /\ FlowFacts(speaker, flows[p]) /\ (WritesAt(flows[p]) <=> writer = p) /\ p # "none"
  BY Here
<1>s. Onward(speaker, speaker')
  BY SameSpeaker DEF PollEnds
<1>r. RecordOK'
  BY SameRecord DEF PollEnds, AppUnchanged
<1>1. CASE Updated(speaker) /\ Turn(p, "spotify", 1)
  <2>1. Advanced(p, "spotify", flows[p].told) /\ Keeps(p)
    BY <1>1, TurnsTo DEF Places
  <2>. QED
    BY <1>0, <1>1, <1>s, <2>1, <1>r, FlowStep DEF PollEnds, Updated, In_, AppUnchanged, FlowFacts, Before,
        WritesAt, Places, Keeps
<1>2. CASE Tell(p, "timeout")
  <2>1. Advanced(p, "telling", "timeout") /\ ~flows'[p].taken /\ flows'[p].kind = "single"
    BY <1>2, Tells
  <2>. QED
    BY <1>0, <1>2, <1>s, <2>1, <1>r, FlowStep DEF PollEnds, In_, AppUnchanged, FlowFacts, Before, WritesAt,
        Places
<1>3. CASE MayRetry(p) /\ flows' = [flows EXCEPT ![p].at = "reading", ![p].try = 2]
  <2>1. Advanced(p, "reading", flows[p].told) /\ Keeps(p)
    BY <1>0, <1>3 DEF FlowsOK, FlowRecords, Advanced, Keeps, Places
  <2>2. ~flows[p].taken
    BY <1>0, <1>3 DEF MayRetry, FlowFacts
  <2>. QED
    BY <1>0, <2>1, <2>2, <1>s, <1>r, FlowStep DEF PollEnds, AppUnchanged, FlowFacts, Before, WritesAt, Places,
        Keeps
<1>. QED
  BY <1>1, <1>2, <1>3 DEF PollEnds

\* A pass of the engine runs on the new version.
LEMMA SpotifyPassStep ==
  ASSUME FleetIInv, NEW p \in Presses, SpotifyPass(p)
  PROVE  FleetIInv' /\ \A q \in Presses : Verdict(q)
<1>. USE DEF FleetIInv
<1>0. flows[p] \in FlowRecords /\ FlowFacts(speaker, flows[p]) /\ (WritesAt(flows[p]) <=> writer = p) /\ p # "none"
  BY Here
<1>s. Onward(speaker, speaker')
  BY SameSpeaker DEF SpotifyPass
<1>1. CASE ReachedTarget(speaker, flows[p].pre) /\ GoOn(p, "honest") /\ ClearIntent
  <2>1. Advanced(p, "honest", flows[p].told) /\ Keeps(p)
    BY <1>1, GoesOnTo DEF Places
  <2>0. AtTarget(speaker)
    BY <1>0, <1>1 DEF SpotifyPass, In_, FlowFacts, ReachedTarget, AtTarget
  <2>r. RecordOK'
    BY <1>1, <2>0, Cleared DEF SpotifyPass
  <2>. QED
    BY <1>0, <1>1, <1>s, <2>1, <2>r, FlowStep DEF SpotifyPass, In_, AppUnchanged, FlowFacts, Before, WritesAt,
        Places, Keeps
<1>2. CASE ReachedTarget(speaker, flows[p].pre) /\ Tell(p, "done") /\ ClearIntent
  <2>1. Advanced(p, "telling", "done") /\ ~flows'[p].taken /\ flows'[p].kind = "single"
    BY <1>2, Tells
  <2>0. AtTarget(speaker)
    BY <1>0, <1>2 DEF SpotifyPass, In_, FlowFacts, ReachedTarget, AtTarget
  <2>r. RecordOK'
    BY <1>2, <2>0, Cleared DEF SpotifyPass
  <2>. QED
    BY <1>0, <1>2, <1>s, <2>1, <2>r, FlowStep DEF SpotifyPass, ReachedTarget, In_, AppUnchanged, FlowFacts,
        Before, WritesAt, Places
<1>3. CASE GoOn(p, "ensure") /\ UNCHANGED <<intent, reached>>
  <2>1. Advanced(p, "ensure", flows[p].told) /\ Keeps(p)
    BY <1>3, GoesOnTo DEF Places
  <2>r. RecordOK'
    BY <1>3, SameRecord DEF SpotifyPass
  <2>. QED
    BY <1>0, <1>3, <1>s, <2>1, <2>r, FlowStep DEF SpotifyPass, In_, AppUnchanged, FlowFacts, Before, WritesAt,
        Places, Keeps
<1>4. CASE Tell(p, "partial") /\ UNCHANGED <<intent, reached>>
  <2>1. Advanced(p, "telling", "partial") /\ ~flows'[p].taken /\ flows'[p].kind = "single"
    BY <1>4, Tells
  <2>r. RecordOK'
    BY <1>4, SameRecord DEF SpotifyPass
  <2>. QED
    BY <1>0, <1>4, <1>s, <2>1, <2>r, FlowStep DEF SpotifyPass, In_, AppUnchanged, FlowFacts, Before, WritesAt,
        Places
<1>. QED
  BY <1>1, <1>2, <1>3, <1>4 DEF SpotifyPass, Done

\* Delivering the engine takes a speaker no step back.
LEMMA Delivery == ASSUME SpeakerOK PROVE Onward(speaker, Delivered(speaker))
BY DEF SpeakerOK, Speakers, Onward, Delivered, Down

\* Ensuring the engine keeps what the flow relies on.
LEMMA EnsureStep ==
  ASSUME FleetIInv, NEW p \in Presses, Ensure(p)
  PROVE  FleetIInv' /\ \A q \in Presses : Verdict(q)
<1>. USE DEF FleetIInv
<1>0. flows[p] \in FlowRecords /\ FlowFacts(speaker, flows[p]) /\ (WritesAt(flows[p]) <=> writer = p) /\ p # "none"
  BY Here
<1>r. RecordOK'
  BY SameRecord DEF Ensure, AppUnchanged
<1>s. Onward(speaker, speaker')
  BY SameSpeaker, Delivery, Room DEF Ensure
<1>1. CASE GoOn(p, "check")
  <2>1. Advanced(p, "check", flows[p].told) /\ Keeps(p)
    BY <1>1, GoesOnTo DEF Places
  <2>. QED
    BY <1>0, <1>1, <1>s, <2>1, <1>r, FlowStep DEF Ensure, Onward, In_, AppUnchanged, FlowFacts, Before, WritesAt,
        Places, Keeps
<1>2. CASE speaker.up /\ Tell(p, IF flows[p].kind = "engine" THEN "failed" ELSE "partial")
  <2>1. Advanced(p, "telling", IF flows[p].kind = "engine" THEN "failed" ELSE "partial") /\ ~flows'[p].taken /\ flows'[p].kind = "single"
    BY <1>2, Tells
  <2>. QED
    BY <1>0, <1>2, <1>s, <2>1, <1>r, FlowStep DEF Ensure, In_, AppUnchanged, FlowFacts, Before, WritesAt, Places
<1>3. CASE flows[p].kind = "engine" /\ Tell(p, "failed")
  <2>1. Advanced(p, "telling", "failed") /\ ~flows'[p].taken /\ flows'[p].kind = "single"
    BY <1>3, Tells
  <2>. QED
    BY <1>0, <1>3, <1>s, <2>1, <1>r, FlowStep DEF Ensure, In_, AppUnchanged, FlowFacts, Before, WritesAt, Places
<1>4. CASE flows[p].kind # "engine" /\ Turn(p, "spotify", flows[p].n + 1)
  <2>1. Advanced(p, "spotify", flows[p].told) /\ Keeps(p)
    <3>1. flows[p].n + 1 \in Nat
      BY <1>0 DEF FlowRecords
    <3>. QED
      BY <1>4, <3>1, TurnsTo DEF Places
  <2>. QED
    BY <1>0, <1>4, <1>s, <2>1, <1>r, FlowStep DEF Ensure, Onward, In_, AppUnchanged, FlowFacts, Before, WritesAt,
        Places, Keeps
<1>. QED
  BY <1>1, <1>2, <1>3, <1>4 DEF Ensure

\* The check of the engine tells "done" or "partial" of a speaker that runs the new version.
LEMMA CheckEngineStep ==
  ASSUME FleetIInv, NEW p \in Presses, CheckEngine(p)
  PROVE  FleetIInv' /\ \A q \in Presses : Verdict(q)
<1>. USE DEF FleetIInv
<1>0. flows[p] \in FlowRecords /\ FlowFacts(speaker, flows[p]) /\ (WritesAt(flows[p]) <=> writer = p) /\ p # "none"
  BY Here
<1>s. Onward(speaker, speaker')
  BY SameSpeaker DEF CheckEngine
<1>1. CASE Tell(p, "partial") /\ UNCHANGED <<intent, reached>>
  <2>1. Advanced(p, "telling", "partial") /\ ~flows'[p].taken /\ flows'[p].kind = "single"
    BY <1>1, Tells
  <2>r. RecordOK'
    BY <1>1, SameRecord DEF CheckEngine
  <2>. QED
    BY <1>0, <1>1, <1>s, <2>1, <2>r, FlowStep DEF CheckEngine, In_, AppUnchanged, FlowFacts, Before, WritesAt,
        Places
<1>2. CASE flows[p].kind = "engine" /\ ~(speaker.up /\ speaker.engine = "none") /\ Tell(p, "done") /\ intent' = FALSE /\ reached' = (speaker.run = "new")
  <2>1. Advanced(p, "telling", "done") /\ ~flows'[p].taken /\ flows'[p].kind = "single"
    BY <1>2, Tells
  <2>0. speaker.run = "new"
    BY <1>0 DEF CheckEngine, In_, FlowFacts
  <2>r. RecordOK'
    BY <1>2, <2>0 DEF CheckEngine, RecordOK, OwedOnRecord
  <2>. QED
    BY <1>0, <1>2, <1>s, <2>1, <2>r, <2>0, FlowStep DEF CheckEngine, In_, AppUnchanged, FlowFacts, Before,
        WritesAt, Places
<1>3. CASE speaker.up /\ speaker.engine # "none" /\ flows[p].kind # "engine" /\ GoOn(p, "honest") /\ ClearIntent
  <2>1. Advanced(p, "honest", flows[p].told) /\ Keeps(p)
    BY <1>3, GoesOnTo DEF Places
  <2>0. AtTarget(speaker)
    BY <1>0, <1>3 DEF CheckEngine, In_, FlowFacts, ReachedTarget, AtTarget
  <2>r. RecordOK'
    BY <1>3, <2>0, Cleared DEF CheckEngine
  <2>. QED
    BY <1>0, <1>3, <1>s, <2>1, <2>r, FlowStep DEF CheckEngine, In_, AppUnchanged, FlowFacts, Before, WritesAt,
        Places, Keeps
<1>4. CASE speaker.up /\ speaker.engine # "none" /\ Tell(p, "done") /\ ClearIntent
  <2>1. Advanced(p, "telling", "done") /\ ~flows'[p].taken /\ flows'[p].kind = "single"
    BY <1>4, Tells
  <2>0. AtTarget(speaker)
    BY <1>0, <1>4 DEF CheckEngine, In_, FlowFacts, ReachedTarget, AtTarget
  <2>r. RecordOK'
    BY <1>4, <2>0, Cleared DEF CheckEngine
  <2>. QED
    BY <1>0, <1>4, <1>s, <2>1, <2>r, FlowStep DEF CheckEngine, In_, AppUnchanged, FlowFacts, Before, WritesAt,
        Places
<1>5. CASE flows[p].kind # "engine" /\ Turn(p, "spotify", flows[p].n + 1) /\ UNCHANGED <<intent, reached>>
  <2>1. Advanced(p, "spotify", flows[p].told) /\ Keeps(p)
    <3>1. flows[p].n + 1 \in Nat
      BY <1>0 DEF FlowRecords
    <3>. QED
      BY <1>5, <3>1, TurnsTo DEF Places
  <2>r. RecordOK'
    BY <1>5, SameRecord DEF CheckEngine
  <2>. QED
    BY <1>0, <1>5, <1>s, <2>1, <2>r, FlowStep DEF CheckEngine, In_, AppUnchanged, FlowFacts, Before, WritesAt,
        Places, Keeps
<1>. QED
  BY <1>1, <1>2, <1>3, <1>4, <1>5 DEF CheckEngine, Done

\* The honest verdict asks the speaker once more.
LEMMA HonestStep ==
  ASSUME FleetIInv, NEW p \in Presses, Honest(p)
  PROVE  FleetIInv' /\ \A q \in Presses : Verdict(q)
<1>. USE DEF FleetIInv
<1>0. flows[p] \in FlowRecords /\ FlowFacts(speaker, flows[p]) /\ (WritesAt(flows[p]) <=> writer = p) /\ p # "none"
  BY Here
<1>s. Onward(speaker, speaker')
  BY SameSpeaker DEF Honest
<1>r. RecordOK'
  BY SameRecord DEF Honest, AppUnchanged
<1>1. CASE speaker.up /\ speaker.engine = "none" /\ Tell(p, "partial")
  <2>1. Advanced(p, "telling", "partial") /\ ~flows'[p].taken /\ flows'[p].kind = "single"
    BY <1>1, Tells
  <2>. QED
    BY <1>0, <1>1, <1>s, <2>1, <1>r, FlowStep DEF Honest, In_, AppUnchanged, FlowFacts, Before, WritesAt, Places
<1>2. CASE ~(speaker.up /\ speaker.engine = "none") /\ Tell(p, "done")
  <2>1. Advanced(p, "telling", "done") /\ ~flows'[p].taken /\ flows'[p].kind = "single"
    BY <1>2, Tells
  <2>. QED
    BY <1>0, <1>2, <1>s, <2>1, <1>r, FlowStep DEF Honest, In_, AppUnchanged, FlowFacts, Before, WritesAt, Places
<1>. QED
  BY <1>1, <1>2 DEF Honest

\* A speaker that comes up runs what is on its disk.
LEMMA ComesUpStep ==
  ASSUME FleetIInv, ComesUp
  PROVE  FleetIInv' /\ \A q \in Presses : Verdict(q)
<1>. USE DEF FleetIInv
<1>1. Onward(speaker, speaker')
  <2>1. PICK r \in {speaker.disk, speaker.run} : speaker' = [speaker EXCEPT !.up = TRUE, !.run = r]
    BY DEF ComesUp
  <2>. QED
    BY <2>1 DEF SpeakerOK, Speakers, Onward
<1>2. RecordOK'
  BY SameRecord DEF ComesUp, AppUnchanged
<1>. QED
  BY <1>1, <1>2, NoFlow DEF ComesUp, AppUnchanged

\* A speaker that reboots by itself goes down and keeps its disk.
LEMMA RebootsItselfStep ==
  ASSUME FleetIInv, RebootsItself
  PROVE  FleetIInv' /\ \A q \in Presses : Verdict(q)
<1>. USE DEF FleetIInv
<1>1. Onward(speaker, speaker')
  <2>1. PICK e \in {speaker.engine, "none"} : speaker' = Down([speaker EXCEPT !.engine = e])
    BY DEF RebootsItself
  <2>. QED
    BY <2>1 DEF SpeakerOK, Speakers, Onward, Down
<1>2. RecordOK'
  BY SameRecord DEF RebootsItself, AppUnchanged
<1>. QED
  BY <1>1, <1>2, NoFlow DEF RebootsItself, AppUnchanged

\* An engine that installs itself changes nothing a flow relies on.
LEMMA InstallEngineStep ==
  ASSUME FleetIInv, InstallEngine
  PROVE  FleetIInv' /\ \A q \in Presses : Verdict(q)
<1>. USE DEF FleetIInv
<1>1. Onward(speaker, speaker')
  BY Delivery DEF InstallEngine
<1>2. RecordOK'
  BY SameRecord DEF InstallEngine, AppUnchanged
<1>. QED
  BY <1>1, <1>2, NoFlow DEF InstallEngine, AppUnchanged

\* The supervisor looks with the target reached.
LEMMA SuperviseStep ==
  ASSUME FleetIInv, Supervise
  PROVE  FleetIInv' /\ \A q \in Presses : Verdict(q)
<1>. USE DEF FleetIInv
<1>1. Onward(speaker, speaker')
  BY SameSpeaker DEF Supervise, AppUnchanged
<1>2. RecordOK'
  BY DEF Supervise, RecordOK, OwedOnRecord
<1>. QED
  BY <1>1, <1>2, NoFlow DEF Supervise, AppUnchanged

\* So it clears the intent with the target reached.
LEMMA SupervisorClearsStep ==
  ASSUME FleetIInv, SupervisorClears
  PROVE  FleetIInv' /\ \A q \in Presses : Verdict(q)
<1>. USE DEF FleetIInv
<1>1. Onward(speaker, speaker')
  BY SameSpeaker DEF SupervisorClears, AppUnchanged
<1>2. RecordOK'
  BY DEF SupervisorClears, RecordOK, OwedOnRecord
<1>. QED
  BY <1>1, <1>2, NoFlow DEF SupervisorClears, AppUnchanged

\* A launch of the app changes no flow, and finds the record as it was left.
LEMMA OpenWindowStep ==
  ASSUME FleetIInv, OpenWindow
  PROVE  FleetIInv' /\ \A q \in Presses : Verdict(q)
<1>. USE DEF FleetIInv
<1>1. Onward(speaker, speaker')
  BY SameSpeaker DEF OpenWindow, AppUnchanged
<1>2. RecordOK'
  BY SameRecord DEF OpenWindow, AppUnchanged
<1>. QED
  BY <1>1, <1>2, NoFlow DEF OpenWindow, AppUnchanged

\* A close of the window ends every flow and its claim; the record of what is owed stays.
LEMMA CloseWindowStep ==
  ASSUME FleetIInv, CloseWindow
  PROVE  FleetIInv' /\ \A q \in Presses : Verdict(q)
<1>. USE DEF FleetIInv
<1>1. Idle \in FlowRecords /\ FlowFacts(speaker, Idle) /\ ~WritesAt(Idle) /\ Idle.told = "nothing"
  BY DEF Idle, FlowRecords, Places, Kinds, FlowFacts, Before, WritesAt
<1>2. flows' = [q \in Presses |-> Idle] /\ speaker' = speaker /\ writer' = "none"
  BY DEF CloseWindow, Release
<1>3. SpeakerOK'
  BY <1>2 DEF SpeakerOK
<1>4. FlowsOK'
  BY <1>1, <1>2 DEF FlowsOK
<1>5. RecordOK'
  BY DEF CloseWindow, RecordOK, OwedOnRecord
<1>6. WriterOK'
  BY <1>1, <1>2, FleetAssumption DEF WriterOK
<1>7. ASSUME NEW q \in Presses PROVE Verdict(q)
  BY <1>1, <1>2 DEF Verdict
<1>. QED
  BY <1>3, <1>4, <1>5, <1>6, <1>7

\* Every step of the updates keeps the invariant and tells no false verdict.
LEMMA FleetStays ==
  ASSUME FleetIInv, [FleetNext]_fleetVars
  PROVE  FleetIInv' /\ \A q \in Presses : Verdict(q)
<1>1. CASE \E p \in Presses : Press(p) \/ Flow(p)
  BY <1>1, PressStep, ConfirmStep, CancelStep, FinishStep, ReadBeforeStep, ClaimStep, StageStep, PreflightStep,
      PostStep, ViaSSHStep, PollMatchesStep, SettledStep, PollEndsStep, SpotifyPassStep, EnsureStep,
      CheckEngineStep, HonestStep DEF Flow
<1>2. CASE UNCHANGED fleetVars
  <2>1. speaker' = speaker /\ flows' = flows /\ writer' = writer /\ intent' = intent /\ reached' = reached /\ looking' = looking
    BY <1>2 DEF fleetVars
  <2>. QED
    BY <2>1, NoFlow, SameSpeaker, SameRecord
<1>. QED
  BY <1>1, <1>2, ComesUpStep, RebootsItselfStep, InstallEngineStep, SuperviseStep, SupervisorClearsStep,
     CloseWindowStep, OpenWindowStep DEF FleetNext

\* The invariant of the updates holds initially.
LEMMA FleetStarts == FleetInit => FleetIInv
<1>. SUFFICES ASSUME FleetInit PROVE FleetIInv
  OBVIOUS
<1>1. Idle \in FlowRecords /\ FlowFacts(speaker, Idle) /\ ~WritesAt(Idle)
  BY DEF Idle, FlowRecords, Places, Kinds, FlowFacts, Before, WritesAt
<1>2. SpeakerOK
  BY FleetAssumption DEF FleetInit, SpeakerOK, Speakers
<1>3. FlowsOK
  BY <1>1 DEF FleetInit, FlowsOK
<1>4. RecordOK
  BY DEF FleetInit, RecordOK, OwedOnRecord
<1>5. WriterOK
  BY <1>1, FleetAssumption DEF FleetInit, WriterOK
<1>. QED
  BY <1>2, <1>3, <1>4, <1>5 DEF FleetIInv

\* The invariant of the updates implies the one the run checks.
LEMMA FleetHolds == FleetIInv => FleetInv
BY DEF FleetIInv, SpeakerOK, FlowsOK, RecordOK, WriterOK, FlowRecords, Speakers, WritesAt,
       FleetInv, FleetTypeOK, OwedOnRecord, OneWriter, Writing

-----------------------------------------------------------------------------
(***************************************************************************)
(* The list of speakers.                                                   *)
(***************************************************************************)

Kinds3 == {"none", "str", "stock"}
Ids == Devices \cup {"?"}
AnyTile == [kind : Kinds3, id : Ids]
HostOrNone == Hosts \cup {Nowhere}

DiscTypes ==
  /\ net \in [Devices -> [at : HostOrNone, sw : {"str", "stock"}, agent : BOOLEAN]]
  /\ cache \in [Hosts -> [kind : Kinds3, id : Ids, miss : {"none", "missed", "gone"}]]
  /\ known \in [Devices -> HostOrNone] /\ removing \in HostOrNone
  /\ scans \in [Scans -> [pc : {"idle", "found", "merged"}, found : [Hosts -> Tiles], shown : [Hosts -> AnyTile]]]
  /\ refresh \in [pc : {"idle", "probed"}, seen : [Hosts -> AnyTile], presence : SUBSET Hosts, offline : SUBSET Hosts]

\* Every address has been of one speaker only.
Leases ==
  /\ \A d \in Devices : net[d].at # Nowhere => <<net[d].at, d>> \in had
  /\ \A d \in Devices : net[d].agent => net[d].sw = "str" /\ net[d].at # Nowhere
  /\ \A h \in Hosts : \A d, e \in Devices : <<h, d>> \in had /\ <<h, e>> \in had => d = e
  /\ had \subseteq Hosts \X Devices /\ echoes \subseteq had

\* A tile of an address tells of nobody but the speaker that has had it.
Of(h, t) == (Present(t) => \E d \in Devices : <<h, d>> \in had) /\ (t.id # "?" => Present(t) /\ <<h, t.id>> \in had)
TracesOwned ==
  /\ \A h \in Hosts : /\ Of(h, cache[h]) /\ Of(h, refresh.seen[h])
                      /\ \A s \in Scans : Of(h, scans[s].found[h]) /\ Of(h, scans[s].shown[h])
  /\ \A h \in pins : h \in Hosts /\ \E d \in Devices : <<h, d>> \in had
  /\ \A d \in Devices : known[d] # Nowhere => <<known[d], d>> \in had
  /\ removing # Nowhere => \E d \in Devices : <<removing, d>> \in had

OneAtATime ==
  /\ removing # Nowhere => refresh.pc = "idle"
  /\ \A s \in Scans : scans[s].pc # "idle" =>
       removing = Nowhere /\ refresh.pc = "idle" /\ \A t \in Scans : t # s => scans[t].pc = "idle"

\* Between its merge and its last phase the memory of the app is what a scan will show.
ShownIsCached ==
  \A s \in Scans : scans[s].pc = "merged" => \A h \in Hosts :
    /\ TileOf(cache[h]) = scans[s].shown[h]
    /\ scans[s].found[h].id # "?" => scans[s].shown[h].id = scans[s].found[h].id
    /\ scans[s].found[h].kind = "str" => scans[s].shown[h].kind = "str"

Silent(d) == net[d].sw = "stock" /\ (\A h \in Hosts : <<h, d>> \notin echoes)
\* Nothing anywhere makes the speaker one with STR.
Rid(d) ==
  /\ known[d] = Nowhere
  /\ \A h \in Hosts : <<h, d>> \in had =>
       /\ cache[h].kind # "str" /\ h \notin pins
       /\ \A s \in Scans : scans[s].pc = "found" => scans[s].found[h].kind # "str"
       /\ refresh.pc = "probed" => refresh.seen[h].kind # "str"
\* What does is at the address it is being removed from, and will be dropped with it.
Leaving(d) ==
  /\ known[d] \in {Nowhere, removing} \/ cache[removing].id = d
  /\ \A h \in Hosts : <<h, d>> \in had => h \notin pins /\ (h # removing => ~Present(cache[h]))
Removals ==
  \A d \in forgotten : d \in Devices /\ Silent(d) /\ (IF <<removing, d>> \in had THEN Leaving(d) ELSE Rid(d))

ListIInv == DiscTypes /\ OneAtATime /\ ShownIsCached
RemovalInv == Leases /\ TracesOwned /\ Removals

(* The tiles. *)

\* A merge shows an address as Pinned does, or relabelled, and remembers what it shows.
LEMMA MergeShape ==
  ASSUME DiscTypes, NEW seen \in [Hosts -> AnyTile], NEW presence, NEW h \in Hosts
  PROVE  LET m == Merged(seen, presence)
             shown == Pinned(seen)
         IN  /\ m.out[h] = (IF h \in Relabelled(shown, Remember(shown, presence)) THEN Str(shown[h].id) ELSE shown[h])
             /\ m.cache[h].kind = m.out[h].kind /\ m.cache[h].id = m.out[h].id
             /\ m.cache[h].miss \in {"none", "missed", "gone"}
BY DEF Merged, DiscTypes

\* Pinned shows the memory of an address that is kept and the sighting otherwise, and an address under
\* an update as STR.
LEMMA ShownShape ==
  ASSUME DiscTypes, NEW seen \in [Hosts -> AnyTile], NEW h \in Hosts
  PROVE  LET fresh == Fresh(seen)
             s == IF Kept(h, fresh) THEN TileOf(cache[h]) ELSE fresh[h]
         IN  Pinned(seen)[h] = (IF h \in pins THEN Str(s.id) ELSE s)
BY DEF Pinned

\* An address that is sighted keeps its kind as STR and its identity once they are known.
LEMMA FreshShape ==
  ASSUME DiscTypes, NEW seen \in [Hosts -> AnyTile], NEW h \in Hosts
  PROVE  /\ Fresh(seen)[h] \in AnyTile
         /\ Present(seen[h]) => /\ Fresh(seen)[h].kind = (IF cache[h].kind = "str" THEN "str" ELSE seen[h].kind)
                                /\ Fresh(seen)[h].id = (IF seen[h].id = "?" THEN cache[h].id ELSE seen[h].id)
         /\ ~Present(seen[h]) => Fresh(seen)[h] = NoTile
         /\ Present(Fresh(seen)[h]) <=> Present(seen[h])
BY DEF Fresh, MergeBoxInfo, DiscTypes, AnyTile, Present, NoTile, Kinds3, Ids

\* The same of Pinned, by the fields of a tile.
LEMMA TilesShown ==
  ASSUME DiscTypes, NEW seen \in [Hosts -> AnyTile], NEW h \in Hosts
  PROVE  /\ Pinned(seen)[h] \in AnyTile
         /\ Pinned(seen)[h].id = (IF Kept(h, Fresh(seen)) THEN cache[h].id ELSE Fresh(seen)[h].id)
         /\ h \notin pins => Pinned(seen)[h].kind = (IF Kept(h, Fresh(seen)) THEN cache[h].kind ELSE Fresh(seen)[h].kind)
         /\ h \in pins => Pinned(seen)[h].kind = "str"
<1>1. Fresh(seen)[h] \in AnyTile
  BY FreshShape
<1>2. TileOf(cache[h]) \in AnyTile /\ TileOf(cache[h]).id = cache[h].id /\ TileOf(cache[h]).kind = cache[h].kind
  BY DEF TileOf, DiscTypes, AnyTile
<1>. DEFINE s == IF Kept(h, Fresh(seen)) THEN TileOf(cache[h]) ELSE Fresh(seen)[h]
<1>3. s \in AnyTile /\ s.id = (IF Kept(h, Fresh(seen)) THEN cache[h].id ELSE Fresh(seen)[h].id)
      /\ s.kind = (IF Kept(h, Fresh(seen)) THEN cache[h].kind ELSE Fresh(seen)[h].kind)
  BY <1>1, <1>2
<1>4. Pinned(seen)[h] = (IF h \in pins THEN Str(s.id) ELSE s)
  BY ShownShape
<1>. HIDE DEF s
<1>5. s.id \in Ids
  BY <1>3 DEF AnyTile
<1>6. Str(s.id) \in AnyTile /\ Str(s.id).id = s.id /\ Str(s.id).kind = "str"
  BY <1>5 DEF Str, AnyTile, Kinds3
<1>. QED
  BY <1>3, <1>4, <1>6

\* The same of the tile a merge shows: relabelling changes only "stock" to "str".
LEMMA TilesOut ==
  ASSUME DiscTypes, NEW seen \in [Hosts -> AnyTile], NEW presence, NEW h \in Hosts
  PROVE  LET m == Merged(seen, presence)
         IN  /\ m.out[h] \in AnyTile /\ m.out[h].id = Pinned(seen)[h].id
             /\ m.out[h].kind = Pinned(seen)[h].kind \/ (Pinned(seen)[h].kind = "stock" /\ m.out[h].kind = "str")
             /\ TileOf(m.cache[h]) = m.out[h]
<1>1. Pinned(seen)[h] \in AnyTile
  BY TilesShown
<1>. DEFINE m == Merged(seen, presence)
           tile == Pinned(seen)[h]
<1>2. m.out[h] = tile \/ (tile.kind = "stock" /\ m.out[h] = Str(tile.id))
  BY MergeShape DEF Relabelled
<1>3. m.cache[h].kind = m.out[h].kind /\ m.cache[h].id = m.out[h].id
  BY MergeShape
<1>. HIDE DEF m, tile
<1>4. Str(tile.id) \in AnyTile /\ Str(tile.id).id = tile.id /\ Str(tile.id).kind = "str"
  BY <1>1 DEF Str, AnyTile, Kinds3, tile
<1>5. m.out[h] \in AnyTile
  BY <1>1, <1>2, <1>4 DEF tile
<1>6. TileOf(m.cache[h]) = m.out[h]
  BY <1>3, <1>5 DEF TileOf, AnyTile
<1>. QED
  BY <1>2, <1>4, <1>5, <1>6 DEF tile, m

\* The memory of identities changes only to an address that shows the speaker as STR.
LEMMA Remembers ==
  ASSUME DiscTypes, NEW shown \in [Hosts -> AnyTile], NEW presence, NEW d \in Devices
  PROVE  LET r == Remember(shown, presence)[d]
         IN  /\ r \in HostOrNone
             /\ r = known[d] \/ (r \in Hosts /\ shown[r] = Str(d))
<1>1. Remember(shown, presence)[d] = (IF Confirmed(shown, presence, d) # {} THEN CHOOSE h \in Confirmed(shown, presence, d) : TRUE ELSE known[d])
  BY DEF Remember
<1>2. ASSUME NEW h \in Confirmed(shown, presence, d) PROVE h \in Hosts /\ shown[h] = Str(d)
  BY DEF Confirmed
<1>. QED
  BY <1>1, <1>2 DEF DiscTypes, HostOrNone

\* And so does the memory after a merge; a speaker that nothing shows as STR is neither remembered nor
\* relabelled.
LEMMA KnownOut ==
  ASSUME DiscTypes, NEW seen \in [Hosts -> AnyTile], NEW presence, NEW d \in Devices
  PROVE  LET k == Merged(seen, presence).known[d]
         IN  /\ k \in HostOrNone
             /\ k = known[d] \/ (k \in Hosts /\ Pinned(seen)[k].id = d /\ Present(Pinned(seen)[k]))
             /\ known[d] = Nowhere /\ (\A h \in Hosts : Pinned(seen)[h] # Str(d)) =>
                  /\ k = Nowhere
                  /\ \A h \in Hosts : Pinned(seen)[h].id = d => Merged(seen, presence).out[h].kind = Pinned(seen)[h].kind
<1>. DEFINE shown == Pinned(seen)
           memory == Remember(shown, presence)
           again == Relabelled(shown, memory)
           k == Merged(seen, presence).known[d]
<1>1. shown \in [Hosts -> AnyTile]
  <2>1. \A h \in Hosts : shown[h] \in AnyTile
    BY TilesShown
  <2>2. shown = [h \in Hosts |-> shown[h]]
    BY DEF Pinned
  <2>. QED
    BY <2>1, <2>2
<1>2. k = (IF \E h \in again : shown[h].id = d THEN CHOOSE h \in again : shown[h].id = d ELSE memory[d])
  BY DEF Merged
<1>3. ASSUME NEW h \in again, shown[h].id = d
      PROVE  h \in Hosts /\ shown[h].kind = "stock" /\ memory[d] # Nowhere
  BY <1>3 DEF Relabelled
<1>4. memory[d] \in HostOrNone /\ (memory[d] = known[d] \/ (memory[d] \in Hosts /\ shown[memory[d]] = Str(d)))
  BY <1>1, Remembers
<1>5. \A h \in Hosts : h \notin again => Merged(seen, presence).out[h] = shown[h]
  BY MergeShape
<1>. HIDE DEF again, memory, shown, k
<1>6. CASE \E h \in again : shown[h].id = d
  <2>1. k \in again /\ shown[k].id = d
    BY <1>2, <1>6
  <2>2. k \in Hosts /\ shown[k].kind = "stock" /\ memory[d] # Nowhere
    BY <1>3, <2>1
  <2>3. ~(known[d] = Nowhere /\ \A h \in Hosts : shown[h] # Str(d))
    BY <1>4, <2>2
  <2>. QED
    BY <2>1, <2>2, <2>3 DEF shown, k, HostOrNone, Present
<1>7. CASE ~\E h \in again : shown[h].id = d
  <2>1. k = memory[d]
    BY <1>2, <1>7
  <2>2. memory[d] # known[d] => shown[memory[d]].id = d /\ Present(shown[memory[d]])
    BY <1>4 DEF Str, Present
  <2>3. known[d] = Nowhere /\ (\A h \in Hosts : shown[h] # Str(d)) => memory[d] = Nowhere
    BY <1>4
  <2>4. \A h \in Hosts : shown[h].id = d => Merged(seen, presence).out[h] = shown[h]
    BY <1>5, <1>7
  <2>. QED
    BY <1>4, <2>1, <2>2, <2>3, <2>4 DEF shown, k
<1>. QED
  BY <1>6, <1>7

\* A merge drops an address only after a day of silence, or for another address of its speaker.
LEMMA MergeSights ==
  ASSUME DiscTypes, NEW seen \in [Hosts -> AnyTile], NEW presence, NEW h \in Hosts,
         Present(cache[h]), ~Present(Merged(seen, presence).cache[h])
  PROVE  \/ cache[h].miss = "gone"
         \/ cache[h].id # "?" /\ \E g \in Hosts : Merged(seen, presence).cache[g].id = cache[h].id
<1>. DEFINE fresh == Fresh(seen)
           m == Merged(seen, presence)
<1>1. ~Present(m.out[h]) /\ \A g \in Hosts : m.cache[g].id = m.out[g].id
  BY MergeShape DEF Present
<1>2. ~Present(Pinned(seen)[h])
  BY <1>1, TilesOut DEF Present
<1>3. h \notin pins /\ ~Present(fresh[h]) /\ ~Kept(h, fresh)
  BY <1>2, TilesShown DEF Kept, Present
<1>4. CASE Moved(h, fresh)
  <2>1. PICK g \in Hosts : fresh[g].id = cache[h].id /\ cache[h].id # "?"
    BY <1>4 DEF Moved
  <2>2. Present(fresh[g])
    BY <2>1, FreshShape DEF NoTile
  <2>3. m.out[g].id = fresh[g].id
    BY <2>2, TilesShown, TilesOut DEF Kept
  <2>. QED
    BY <1>1, <2>1, <2>3
<1>. QED
  BY <1>3, <1>4 DEF Kept

(* The list. *)

ListGoal == ListIInv' /\ SightedStays /\ ScanShowsAll

\* What happens to a speaker, and what only the clock does, leaves the tiles and the phases alone.
LEMMA ListQuiet ==
  ASSUME ListIInv, DiscTypes', scans' = scans, refresh' = refresh, removing' = removing,
         \A h \in Hosts : TileOf(cache'[h]) = TileOf(cache[h])
  PROVE  ListGoal
<1>1. OneAtATime'
  BY DEF ListIInv, OneAtATime
<1>2. ShownIsCached'
  BY DEF ListIInv, ShownIsCached
<1>3. SightedStays
  BY DEF SightedStays, Present, TileOf
<1>4. ScanShowsAll
  BY DEF ScanShowsAll
<1>. QED
  BY <1>1, <1>2, <1>3, <1>4 DEF ListIInv, ListGoal

\* Without races a scan, a refresh or an addition starts alone.
LEMMA FreeToStart == ASSUME ~Races, MayStart PROVE removing = Nowhere /\ refresh.pc = "idle" /\ \A s \in Scans : scans[s].pc = "idle"
BY DEF MayStart, Busy

\* Sightings are tiles, and only a tile that is present has an identity.
LEMMA TilesAre ==
  /\ Tiles \subseteq AnyTile
  /\ \A t \in Tiles : t.id # "?" => Present(t)
  /\ NoTile \in Tiles /\ [Hosts -> Tiles] \subseteq [Hosts -> AnyTile]
<1>1. Tiles \subseteq AnyTile
  BY DEF Tiles, AnyTile, NoTile, Kinds3, Ids
<1>2. \A t \in Tiles : t.id # "?" => Present(t)
  BY DEF Tiles, NoTile, Present
<1>3. NoTile \in Tiles
  BY DEF Tiles
<1>4. [Hosts -> Tiles] \subseteq [Hosts -> AnyTile]
  BY <1>1
<1>. QED
  BY <1>1, <1>2, <1>3, <1>4

\* A scan starts with what it has found.
LEMMA ListScan ==
  ASSUME ListIInv, ~Races, NEW s \in Scans, NEW found \in [Hosts -> Tiles], ScanFinds(s, found)
  PROVE  ListGoal
<1>1. /\ scans' = [scans EXCEPT ![s] = [pc |-> "found", found |-> found, shown |-> Nothing]]
      /\ UNCHANGED <<net, cache, known, refresh, removing>> /\ scans[s].pc = "idle"
  BY DEF ScanFinds
<1>2. removing = Nowhere /\ refresh.pc = "idle" /\ \A t \in Scans : scans[t].pc = "idle"
  BY FreeToStart DEF ScanFinds
<1>3. Nothing \in [Hosts -> AnyTile]
  BY DEF Tiles, AnyTile, NoTile, Nothing, Kinds3, Ids
<1>4. DiscTypes'
  BY <1>1, <1>3 DEF ListIInv, DiscTypes
<1>5. OneAtATime' /\ ShownIsCached'
  BY <1>1, <1>2 DEF ListIInv, DiscTypes, OneAtATime, ShownIsCached
<1>6. SightedStays
  BY <1>1 DEF SightedStays
<1>7. ScanShowsAll
  BY <1>1, <1>2 DEF ScanShowsAll
<1>. QED
  BY <1>4, <1>5, <1>6, <1>7 DEF ListIInv, ListGoal

\* What the merge of a scan shows is what it found, where it found a name or an agent.
LEMMA FoundShown ==
  ASSUME DiscTypes, NEW seen \in [Hosts -> AnyTile], NEW presence, NEW h \in Hosts
  PROVE  /\ Present(seen[h]) /\ seen[h].id # "?" => Merged(seen, presence).out[h].id = seen[h].id
         /\ seen[h].kind = "str" => Merged(seen, presence).out[h].kind = "str"
<1>. DEFINE m == Merged(seen, presence)
<1>1. ASSUME Present(seen[h]) PROVE ~Kept(h, Fresh(seen)) /\ Present(Fresh(seen)[h])
  BY <1>1, FreshShape DEF Kept
<1>2. ASSUME Present(seen[h]), seen[h].id # "?" PROVE m.out[h].id = seen[h].id
  BY <1>1, <1>2, FreshShape, TilesShown, TilesOut
<1>3. ASSUME seen[h].kind = "str" PROVE m.out[h].kind = "str"
  <2>1. Present(seen[h])
    BY <1>3 DEF Present
  <2>2. Fresh(seen)[h].kind = "str"
    BY <1>3, <2>1, FreshShape
  <2>3. Pinned(seen)[h].kind = "str"
    BY <1>1, <2>1, <2>2, TilesShown
  <2>. QED
    BY <2>3, TilesOut
<1>. QED
  BY <1>2, <1>3

\* A merge makes tiles, entries and addresses.
LEMMA MergeTypes ==
  ASSUME DiscTypes, NEW seen \in [Hosts -> AnyTile], NEW presence
  PROVE  /\ Merged(seen, presence).out \in [Hosts -> AnyTile]
         /\ Merged(seen, presence).known \in [Devices -> HostOrNone]
         /\ Merged(seen, presence).cache \in [Hosts -> [kind : Kinds3, id : Ids, miss : {"none", "missed", "gone"}]]
<1>. DEFINE m == Merged(seen, presence)
<1>1. /\ m.out = [h \in Hosts |-> m.out[h]] /\ m.known = [d \in Devices |-> m.known[d]]
      /\ m.cache = [h \in Hosts |-> [kind |-> m.cache[h].kind, id |-> m.cache[h].id, miss |-> m.cache[h].miss]]
  BY DEF Merged
<1>2. \A h \in Hosts : m.out[h] \in AnyTile
  BY TilesOut
<1>3. \A d \in Devices : m.known[d] \in HostOrNone
  BY KnownOut
<1>4. \A h \in Hosts : m.cache[h].kind = m.out[h].kind /\ m.cache[h].id = m.out[h].id /\ m.cache[h].miss \in {"none", "missed", "gone"}
  BY MergeShape
<1>. HIDE DEF m
<1>5. m.out \in [Hosts -> AnyTile] /\ m.known \in [Devices -> HostOrNone]
  BY <1>1, <1>2, <1>3
<1>6. \A h \in Hosts : m.cache[h].kind \in Kinds3 /\ m.cache[h].id \in Ids
  BY <1>2, <1>4 DEF AnyTile
<1>7. m.cache \in [Hosts -> [kind : Kinds3, id : Ids, miss : {"none", "missed", "gone"}]]
  BY <1>1, <1>4, <1>6
<1>. QED
  BY <1>5, <1>7 DEF m

\* The merge of a scan shows what it found, and keeps what was sighted.
LEMMA ListMergeScan ==
  ASSUME ListIInv, NEW s \in Scans, MergeScan(s)
  PROVE  ListGoal
<1>. DEFINE m == Merged(scans[s].found, {})
<1>1. /\ scans[s].pc = "found" /\ cache' = m.cache /\ known' = m.known
      /\ scans' = [scans EXCEPT ![s].pc = "merged", ![s].shown = m.out]
      /\ UNCHANGED <<net, refresh, removing>>
  BY DEF MergeScan
<1>0. DiscTypes /\ scans[s].found \in [Hosts -> Tiles]
  BY DEF ListIInv, DiscTypes
<1>2. DiscTypes /\ scans[s].found \in [Hosts -> AnyTile]
  BY <1>0, TilesAre
<1>3. /\ m.out \in [Hosts -> AnyTile] /\ known' \in [Devices -> HostOrNone]
      /\ cache' \in [Hosts -> [kind : Kinds3, id : Ids, miss : {"none", "missed", "gone"}]]
  BY <1>1, <1>2, MergeTypes
<1>4. \A h \in Hosts : TileOf(m.cache[h]) = m.out[h]
  BY <1>2, TilesOut
<1>5. \A h \in Hosts : /\ scans[s].found[h].id # "?" => m.out[h].id = scans[s].found[h].id
                       /\ scans[s].found[h].kind = "str" => m.out[h].kind = "str"
  BY <1>0, <1>2, FoundShown, TilesAre
<1>6. SightedStays
  BY <1>1, <1>2, MergeSights DEF SightedStays
<1>. HIDE DEF m
<1>7. DiscTypes'
  <2>. DEFINE Phase == [pc : {"idle", "found", "merged"}, found : [Hosts -> Tiles], shown : [Hosts -> AnyTile]]
             moved == [scans EXCEPT ![s].pc = "merged"]
  <2>1. scans \in [Scans -> Phase]
    BY <1>0 DEF DiscTypes
  <2>2. moved \in [Scans -> Phase]
    BY <2>1
  <2>3. [moved EXCEPT ![s].shown = m.out] \in [Scans -> Phase]
    BY <1>3, <2>2, ZenonT(60)
  <2>4. scans' = [moved EXCEPT ![s].shown = m.out]
    BY <1>1
  <2>5. scans' \in [Scans -> Phase]
    BY <2>3, <2>4
  <2>. QED
    BY <1>0, <1>1, <1>3, <2>5 DEF DiscTypes
<1>8. OneAtATime'
  BY <1>0, <1>1, <1>2 DEF ListIInv, OneAtATime, DiscTypes
<1>9. ShownIsCached'
  <2>. SUFFICES ASSUME NEW t \in Scans, scans'[t].pc = "merged", NEW h \in Hosts
                PROVE  /\ TileOf(cache'[h]) = scans'[t].shown[h]
                       /\ scans'[t].found[h].id # "?" => scans'[t].shown[h].id = scans'[t].found[h].id
                       /\ scans'[t].found[h].kind = "str" => scans'[t].shown[h].kind = "str"
    BY DEF ShownIsCached
  <2>1. t = s
    BY <1>1, <1>2 DEF ListIInv, OneAtATime, DiscTypes
  <2>2. scans'[s].shown = m.out /\ scans'[s].found = scans[s].found
    BY <1>1, <1>2 DEF DiscTypes
  <2>. QED
    BY <1>1, <1>4, <1>5, <2>1, <2>2
<1>10. ScanShowsAll
  BY <1>1, <1>2 DEF ScanShowsAll, DiscTypes
<1>. QED
  BY <1>6, <1>7, <1>8, <1>9, <1>10 DEF ListIInv, ListGoal

\* Of the addresses that show one speaker one stays: no other beats it.
LEMMA LeastHost ==
  ASSUME NEW T, T \subseteq Nat, T # {}
  PROVE  \E x \in T : \A y \in T : x <= y
<1>. DEFINE R == {p \in Nat \X Nat : p[1] < p[2]}
<1>1. IsWellFoundedOn(R, Nat)
  BY NatLessThanWellFounded DEF OpToRel
<1>2. ASSUME NEW x \in T, NEW y \in T, ~ (<<y, x>> \in R) PROVE x <= y
  BY <1>2
<1>. HIDE DEF R
<1>3. \E x \in T : \A y \in T : ~ (<<y, x>> \in R)
  BY <1>1, WFMin
<1>. QED
  BY <1>2, <1>3

\* The score of an address is at most three.
LEMMA ScoreRange == ASSUME NEW shown, NEW h PROVE Score(h, shown) \in 0 .. 3
BY DEF Score

\* Of the addresses that show one speaker, dedupe leaves one.
LEMMA OneStays ==
  ASSUME NEW shown \in [Hosts -> AnyTile], NEW h \in Hosts, shown[h].id # "?"
  PROVE  \E g \in Hosts : shown[g].id = shown[h].id /\ g \notin Losers(shown)
<1>. DEFINE Same == {g \in Hosts : shown[g].id = shown[h].id}
           Scored(n) == {g \in Same : Score(g, shown) = n}
<1>1. Same \subseteq Nat /\ h \in Same
  BY DiscoveryAssumption
<1>2. \A g \in Same : Score(g, shown) \in 0 .. 3
  BY ScoreRange
<1>3. \E n \in 0 .. 3 : Scored(n) # {} /\ \A g \in Same : Score(g, shown) <= n
  <2>1. CASE Scored(3) # {}
    BY <1>2, <2>1
  <2>2. CASE Scored(3) = {} /\ Scored(2) # {}
    BY <1>2, <2>2
  <2>3. CASE Scored(3) = {} /\ Scored(2) = {} /\ Scored(1) # {}
    BY <1>2, <2>3
  <2>4. CASE Scored(3) = {} /\ Scored(2) = {} /\ Scored(1) = {}
    BY <1>1, <1>2, <2>4
  <2>. QED
    BY <2>1, <2>2, <2>3, <2>4
<1>4. PICK n \in 0 .. 3 : Scored(n) # {} /\ \A g \in Same : Score(g, shown) <= n
  BY <1>3
<1>5. PICK g \in Scored(n) : \A k \in Scored(n) : g <= k
  BY <1>1, <1>4, LeastHost
<1>6. \A k \in Hosts : shown[k].id = shown[g].id => ~Beats(k, g, shown)
  BY <1>1, <1>2, <1>4, <1>5 DEF Beats
<1>7. g \notin Losers(shown)
  BY <1>6 DEF Losers, Twins
<1>. QED
  BY <1>5, <1>7

\* The list a scan ends with shows each speaker once, where it is.
LEMMA ListDedupe ==
  ASSUME ListIInv, NEW s \in Scans, Dedupe(s)
  PROVE  ListGoal
<1>. DEFINE shown == scans[s].shown
           found == scans[s].found
           gone == Losers(scans[s].shown)
<1>1. /\ scans[s].pc = "merged" /\ scans' = [scans EXCEPT ![s] = Resting]
      /\ list' = [h \in Hosts |-> IF h \in gone THEN NoTile ELSE shown[h]]
      /\ cache' = [h \in Hosts |-> IF h \in gone THEN NoEntry ELSE cache[h]]
      /\ UNCHANGED <<net, known, refresh, removing>>
  BY DEF Dedupe
<1>2. DiscTypes /\ shown \in [Hosts -> AnyTile] /\ found \in [Hosts -> Tiles]
  BY DEF ListIInv, DiscTypes
<1>3. \A h \in Hosts : /\ TileOf(cache[h]) = shown[h]
                       /\ found[h].id # "?" => shown[h].id = found[h].id
                       /\ found[h].kind = "str" => shown[h].kind = "str"
  BY <1>1 DEF ListIInv, ShownIsCached
<1>4. Resting \in [pc : {"idle", "found", "merged"}, found : [Hosts -> Tiles], shown : [Hosts -> AnyTile]] /\ Resting.pc = "idle"
  BY TilesAre DEF Resting, Nothing
<1>5. NoEntry \in [kind : Kinds3, id : Ids, miss : {"none", "missed", "gone"}]
  BY DEF NoEntry, Kinds3, Ids
<1>6. ASSUME NEW h \in Hosts PROVE cache[h].id = shown[h].id
  <2>1. TileOf(cache[h]).id = cache[h].id
    BY DEF TileOf
  <2>. QED
    BY <1>3, <2>1
<1>. HIDE DEF shown, found, gone
<1>7. DiscTypes'
  BY <1>1, <1>2, <1>4, <1>5 DEF DiscTypes
<1>8. OneAtATime' /\ ShownIsCached'
  BY <1>1, <1>2, <1>4 DEF ListIInv, OneAtATime, ShownIsCached, DiscTypes
<1>9. SightedStays
  <2>. SUFFICES ASSUME NEW h \in Hosts, Present(cache[h]), ~Present(cache'[h])
                PROVE  cache[h].id # "?" /\ \E g \in Hosts : cache'[g].id = cache[h].id
    BY DEF SightedStays
  <2>1. h \in gone
    BY <1>1
  <2>2. shown[h].id # "?"
    BY <2>1 DEF gone, shown, Losers, Twins
  <2>3. PICK g \in Hosts : shown[g].id = shown[h].id /\ g \notin gone
    BY <1>2, <2>2, OneStays DEF gone, shown
  <2>. QED
    BY <1>1, <1>6, <2>2, <2>3
<1>10. ScanShowsAll
  <2>. SUFFICES ASSUME NEW t \in Scans, scans[t].pc = "merged", scans'[t].pc = "idle", FoundAll(scans[t].found),
                       NEW d \in Devices, net[d].at # Nowhere
                PROVE  /\ \A h \in Hosts : list'[h].id = d <=> h = net[d].at
                       /\ net[d].agent => list'[net[d].at].kind = "str"
    BY DEF ScanShowsAll
  <2>1. t = s
    BY <1>1, <1>2 DEF DiscTypes
  <2>2. FoundAll(found)
    BY <2>1 DEF found
  <2>. DEFINE a == net[d].at
  <2>3. a \in Hosts /\ d # "?"
    BY <1>2, DiscoveryAssumption DEF DiscTypes, HostOrNone
  <2>4. found[a].id = d /\ (net[d].agent => found[a].kind = "str")
    BY <2>2 DEF FoundAll
  <2>5. shown[a].id = d /\ (net[d].agent => shown[a].kind = "str")
    BY <1>3, <2>3, <2>4
  <2>6. At(a) # {}
    BY DEF At
  <2>7. ASSUME NEW h \in Hosts, h # a, shown[h].id = d PROVE At(h) = {}
    <3>1. SUFFICES ASSUME NEW e \in Devices, net[e].at = h PROVE FALSE
      BY DEF At
    <3>2. net[e].at # Nowhere /\ e # "?"
      BY <3>1, DiscoveryAssumption DEF Nowhere
    <3>3. found[h].id = e
      BY <2>2, <3>1, <3>2 DEF FoundAll
    <3>4. e # d
      BY <2>7, <3>1
    <3>. QED
      BY <1>3, <2>7, <3>2, <3>3, <3>4
  <2>8. ASSUME NEW h \in Hosts, h # a, shown[h].id = d PROVE Beats(a, h, shown) /\ ~Beats(h, a, shown)
    <3>1. Score(a, shown) \in {2, 3} /\ Score(h, shown) \in {0, 1}
      BY <2>6, <2>7, <2>8 DEF Score
    <3>. QED
      BY <3>1 DEF Beats
  <2>9. a \notin gone
    BY <2>5, <2>8 DEF gone, shown, Losers, Twins
  <2>10. ASSUME NEW h \in Hosts, h # a, shown[h].id = d PROVE h \in gone
    BY <2>3, <2>5, <2>8, <2>10 DEF gone, shown, Losers, Twins
  <2>11. NoTile.id # d
    BY <2>3 DEF NoTile
  <2>. HIDE DEF a
  <2>12. \A h \in Hosts : list'[h].id = d <=> h = a
    BY <1>1, <2>3, <2>5, <2>9, <2>10, <2>11
  <2>13. net[d].agent => list'[a].kind = "str"
    BY <1>1, <2>3, <2>5, <2>9
  <2>. QED
    BY <2>12, <2>13 DEF a
<1>. QED
  BY <1>7, <1>8, <1>9, <1>10 DEF ListIInv, ListGoal

\* What may be sighted at an address comes of a speaker there or of an old announcement.
LEMMA SightingsAre ==
  ASSUME NEW h \in Hosts, NEW t \in Sightings(h)
  PROVE  /\ t \in Tiles
         /\ Present(t) => At(h) # {} \/ \E e \in Devices : <<h, e>> \in echoes
         /\ t.id # "?" => t.id \in At(h) \/ <<h, t.id>> \in echoes
         /\ t.kind = "str" => Agents(h) # {} \/ \E e \in Devices : <<h, e>> \in echoes
         /\ t # NoTile => Present(t)
<1>1. CASE t = NoTile
  BY <1>1 DEF Tiles, NoTile, Present
<1>2. ASSUME NEW i \in At(h) \cup (IF At(h) = {} THEN {} ELSE {"?"}), t = Stock(i)
      PROVE  t \in Tiles /\ t.id = i /\ t.kind = "stock" /\ At(h) # {} /\ i \in At(h) \cup {"?"}
  BY <1>2 DEF Tiles, Stock, At
<1>3. ASSUME NEW i \in Agents(h) \cup (IF Agents(h) = {} THEN {} ELSE {"?"}), t = Str(i)
      PROVE  t \in Tiles /\ t.id = i /\ t.kind = "str" /\ Agents(h) # {} /\ At(h) # {} /\ i \in At(h) \cup {"?"}
  BY <1>3 DEF Tiles, Str, Agents, At
<1>4. ASSUME NEW d \in {e \in Devices : <<h, e>> \in echoes}, t = Str(d)
      PROVE  t \in Tiles /\ t.id = d /\ t.kind = "str" /\ <<h, d>> \in echoes /\ d \in Devices
  BY <1>4 DEF Tiles, Str
<1>5. \/ t = NoTile
      \/ \E i \in At(h) \cup (IF At(h) = {} THEN {} ELSE {"?"}) : t = Stock(i)
      \/ \E i \in Agents(h) \cup (IF Agents(h) = {} THEN {} ELSE {"?"}) : t = Str(i)
      \/ \E d \in {e \in Devices : <<h, e>> \in echoes} : t = Str(d)
  BY DEF Sightings
<1>. QED
  BY <1>1, <1>2, <1>3, <1>4, <1>5 DEF Present

\* What a refresh sees is what the app remembers, or an agent that is there.
LEMMA RefreshSees ==
  ASSUME DiscTypes, RefreshProbes
  PROVE  /\ refresh' \in [pc : {"idle", "probed"}, seen : [Hosts -> AnyTile], presence : SUBSET Hosts, offline : SUBSET Hosts]
         /\ \A h \in Hosts : \/ refresh'.seen[h] = NoTile
                             \/ refresh'.seen[h] = TileOf(cache[h]) /\ Present(cache[h])
                             \/ \E i \in Agents(h) \cup {"?"} : refresh'.seen[h] = Str(i) /\ Agents(h) # {}
<1>. DEFINE cached == {h \in Hosts : Present(cache[h])}
           probed(stock, agent, nameless) ==
             [pc |-> "probed", presence |-> stock, offline |-> cached \ (stock \cup agent),
              seen |-> [h \in Hosts |-> IF h \in agent
                                        THEN Str(IF h \in nameless THEN "?" ELSE CHOOSE d \in Agents(h) : TRUE)
                                        ELSE IF h \in cached THEN TileOf(cache[h]) ELSE NoTile]]
<1>0. \E stock \in SUBSET {h \in cached : At(h) # {}} : \E agent \in SUBSET {h \in cached \ stock : Agents(h) # {}} :
        \E nameless \in SUBSET agent : refresh' = probed(stock, agent, nameless)
  BY DEF RefreshProbes
<1>a. PICK stock \in SUBSET {h \in cached : At(h) # {}} : \E agent \in SUBSET {h \in cached \ stock : Agents(h) # {}} :
        \E nameless \in SUBSET agent : refresh' = probed(stock, agent, nameless)
  BY <1>0
<1>b. PICK agent \in SUBSET {h \in cached \ stock : Agents(h) # {}} :
        \E nameless \in SUBSET agent : refresh' = probed(stock, agent, nameless)
  BY <1>a
<1>1. PICK nameless \in SUBSET agent : refresh' = probed(stock, agent, nameless)
  BY <1>b
<1>. DEFINE name(h) == IF h \in nameless THEN "?" ELSE CHOOSE d \in Agents(h) : TRUE
<1>2. ASSUME NEW h \in agent PROVE Agents(h) # {} /\ name(h) \in Agents(h) \cup {"?"}
  BY <1>1
<1>3. refresh'.seen = [h \in Hosts |-> IF h \in agent THEN Str(name(h)) ELSE IF h \in cached THEN TileOf(cache[h]) ELSE NoTile]
  BY <1>1
<1>4. refresh' = [pc |-> "probed", presence |-> stock, offline |-> cached \ (stock \cup agent), seen |-> refresh'.seen]
  BY <1>1
<1>5. stock \subseteq Hosts /\ agent \subseteq Hosts /\ cached \subseteq Hosts /\ \A h \in cached : Present(cache[h])
  BY <1>1
<1>. HIDE DEF name, cached
<1>6. ASSUME NEW h \in Hosts
      PROVE  \/ refresh'.seen[h] = NoTile
             \/ refresh'.seen[h] = TileOf(cache[h]) /\ Present(cache[h])
             \/ \E i \in Agents(h) \cup {"?"} : refresh'.seen[h] = Str(i) /\ Agents(h) # {}
  BY <1>2, <1>3, <1>5
<1>7. \A h \in Hosts : Agents(h) \subseteq Devices
  BY DEF Agents, At
<1>8. \A h \in Hosts : TileOf(cache[h]) \in AnyTile
  BY DEF DiscTypes, TileOf, AnyTile
<1>9. \A i \in Ids : Str(i) \in AnyTile
  BY DEF Str, AnyTile, Kinds3
<1>10. \A h \in Hosts : refresh'.seen[h] \in AnyTile
  BY <1>6, <1>7, <1>8, <1>9, TilesAre DEF Ids
<1>11. refresh'.seen \in [Hosts -> AnyTile]
  BY <1>3, <1>10
<1>12. refresh' \in [pc : {"idle", "probed"}, seen : [Hosts -> AnyTile], presence : SUBSET Hosts, offline : SUBSET Hosts]
  BY <1>4, <1>5, <1>11
<1>. QED
  BY <1>6, <1>12

\* A refresh starts alone.
LEMMA ListRefreshProbes ==
  ASSUME ListIInv, ~Races, RefreshProbes
  PROVE  ListGoal
<1>1. removing = Nowhere /\ refresh.pc = "idle" /\ \A t \in Scans : scans[t].pc = "idle"
  BY FreeToStart DEF RefreshProbes
<1>2. UNCHANGED <<net, cache, known, scans, removing>>
  BY DEF RefreshProbes
<1>3. refresh' \in [pc : {"idle", "probed"}, seen : [Hosts -> AnyTile], presence : SUBSET Hosts, offline : SUBSET Hosts]
  BY RefreshSees DEF ListIInv
<1>4. DiscTypes'
  BY <1>2, <1>3 DEF ListIInv, DiscTypes
<1>5. OneAtATime' /\ ShownIsCached'
  BY <1>1, <1>2 DEF OneAtATime, ShownIsCached
<1>6. SightedStays /\ ScanShowsAll
  BY <1>2 DEF SightedStays, ScanShowsAll
<1>. QED
  BY <1>4, <1>5, <1>6 DEF ListIInv, ListGoal

\* The merge of a refresh keeps what was sighted.
LEMMA ListMergeRefresh ==
  ASSUME ListIInv, MergeRefresh
  PROVE  ListGoal
<1>. DEFINE live == [h \in Hosts |-> IF h \in refresh.offline THEN NoTile ELSE refresh.seen[h]]
           m == Merged(live, refresh.presence)
<1>1. /\ refresh.pc = "probed" /\ cache' = m.cache /\ known' = m.known
      /\ refresh' = [pc |-> "idle", seen |-> Nothing, presence |-> {}, offline |-> {}]
      /\ UNCHANGED <<net, scans, removing>>
  BY DEF MergeRefresh
<1>2. DiscTypes /\ live \in [Hosts -> AnyTile]
  BY TilesAre DEF ListIInv, DiscTypes
<1>3. /\ known' \in [Devices -> HostOrNone]
      /\ cache' \in [Hosts -> [kind : Kinds3, id : Ids, miss : {"none", "missed", "gone"}]]
  BY <1>1, <1>2, MergeTypes
<1>. HIDE DEF live
<1>4. SightedStays
  BY <1>1, <1>2, MergeSights DEF SightedStays
<1>. HIDE DEF m
<1>5. refresh' \in [pc : {"idle", "probed"}, seen : [Hosts -> AnyTile], presence : SUBSET Hosts, offline : SUBSET Hosts]
  BY <1>1, TilesAre DEF Nothing
<1>6. DiscTypes'
  BY <1>1, <1>2, <1>3, <1>5 DEF DiscTypes
<1>7. \A t \in Scans : scans[t].pc = "idle"
  BY <1>1 DEF ListIInv, OneAtATime
<1>8. OneAtATime' /\ ShownIsCached' /\ ScanShowsAll
  BY <1>1, <1>7 DEF OneAtATime, ShownIsCached, ScanShowsAll
<1>. QED
  BY <1>4, <1>6, <1>8 DEF ListIInv, ListGoal

\* An address added by hand shows a speaker.
LEMMA ListAddByIP ==
  ASSUME ListIInv, ~Races, NEW h \in Hosts, AddByIP(h)
  PROVE  ListGoal
<1>1. removing = Nowhere /\ refresh.pc = "idle" /\ \A t \in Scans : scans[t].pc = "idle"
  BY FreeToStart DEF AddByIP
<1>2. PICK t \in Sightings(h) \ ({NoTile} \cup {Str(d) : d \in Devices \ Agents(h)} \cup {Stock("?")}) :
        cache' = [cache EXCEPT ![h] = [kind |-> t.kind, id |-> t.id, miss |-> "none"]]
  BY DEF AddByIP
<1>3. t \in AnyTile /\ Present(t)
  BY <1>2, SightingsAre, TilesAre
<1>4. UNCHANGED <<net, known, scans, refresh, removing>>
  BY DEF AddByIP
<1>5. /\ cache' \in [Hosts -> [kind : Kinds3, id : Ids, miss : {"none", "missed", "gone"}]]
      /\ \A g \in Hosts : g # h => cache'[g] = cache[g]
      /\ cache'[h].kind = t.kind
  BY <1>2, <1>3 DEF ListIInv, DiscTypes, AnyTile
<1>6. DiscTypes'
  BY <1>4, <1>5 DEF ListIInv, DiscTypes
<1>7. OneAtATime' /\ ShownIsCached' /\ ScanShowsAll
  BY <1>1, <1>4 DEF OneAtATime, ShownIsCached, ScanShowsAll
<1>8. SightedStays
  BY <1>3, <1>5 DEF SightedStays, Present
<1>. QED
  BY <1>6, <1>7, <1>8 DEF ListIInv, ListGoal

NetType == [Devices -> [at : HostOrNone, sw : {"str", "stock"}, agent : BOOLEAN]]

\* The speaker d is what the arguments say, every other one what it was.
NetIs(n, d, at, sw, agent) ==
  /\ n \in NetType /\ n[d].at = at /\ n[d].sw = sw /\ n[d].agent = agent
  /\ \A e \in Devices : e # d => n[e] = net[e]

\* What a step makes of one speaker.
LEMMA NetForms ==
  ASSUME net \in NetType, NEW d \in Devices
  PROVE  /\ NetIs([net EXCEPT ![d].sw = "stock", ![d].agent = FALSE], d, net[d].at, "stock", FALSE)
         /\ NetIs([net EXCEPT ![d].sw = "str"], d, net[d].at, "str", net[d].agent)
         /\ NetIs([net EXCEPT ![d].agent = FALSE], d, net[d].at, net[d].sw, FALSE)
         /\ NetIs([net EXCEPT ![d].agent = TRUE], d, net[d].at, net[d].sw, TRUE)
         /\ \A h \in HostOrNone : NetIs([net EXCEPT ![d].at = h, ![d].agent = FALSE], d, h, net[d].sw, FALSE)
<1>1. net[d] \in [at : HostOrNone, sw : {"str", "stock"}, agent : BOOLEAN]
  BY DEF NetType
<1>2. NetIs([net EXCEPT ![d].sw = "stock", ![d].agent = FALSE], d, net[d].at, "stock", FALSE)
  <2>. DEFINE n == [net EXCEPT ![d].sw = "stock", ![d].agent = FALSE]
  <2>1. n \in NetType
    BY <1>1 DEF NetType
  <2>2. n[d].at = net[d].at /\ n[d].sw = "stock" /\ n[d].agent = FALSE /\ \A e \in Devices : e # d => n[e] = net[e]
    BY <1>1 DEF NetType
  <2>. QED
    BY <2>1, <2>2 DEF NetIs
<1>3. NetIs([net EXCEPT ![d].sw = "str"], d, net[d].at, "str", net[d].agent)
  <2>. DEFINE n == [net EXCEPT ![d].sw = "str"]
  <2>1. n \in NetType
    BY <1>1 DEF NetType
  <2>2. n[d].at = net[d].at /\ n[d].sw = "str" /\ n[d].agent = net[d].agent /\ \A e \in Devices : e # d => n[e] = net[e]
    BY <1>1 DEF NetType
  <2>. QED
    BY <2>1, <2>2 DEF NetIs
<1>4. NetIs([net EXCEPT ![d].agent = FALSE], d, net[d].at, net[d].sw, FALSE)
  <2>. DEFINE n == [net EXCEPT ![d].agent = FALSE]
  <2>1. n \in NetType
    BY <1>1 DEF NetType
  <2>2. n[d].at = net[d].at /\ n[d].sw = net[d].sw /\ n[d].agent = FALSE /\ \A e \in Devices : e # d => n[e] = net[e]
    BY <1>1 DEF NetType
  <2>. QED
    BY <2>1, <2>2 DEF NetIs
<1>5. NetIs([net EXCEPT ![d].agent = TRUE], d, net[d].at, net[d].sw, TRUE)
  <2>. DEFINE n == [net EXCEPT ![d].agent = TRUE]
  <2>1. n \in NetType
    BY <1>1 DEF NetType
  <2>2. n[d].at = net[d].at /\ n[d].sw = net[d].sw /\ n[d].agent = TRUE /\ \A e \in Devices : e # d => n[e] = net[e]
    BY <1>1 DEF NetType
  <2>. QED
    BY <2>1, <2>2 DEF NetIs
<1>6. ASSUME NEW h \in HostOrNone
      PROVE  NetIs([net EXCEPT ![d].at = h, ![d].agent = FALSE], d, h, net[d].sw, FALSE)
  <2>. DEFINE n == [net EXCEPT ![d].at = h, ![d].agent = FALSE]
  <2>1. n \in NetType
    BY <1>1 DEF NetType
  <2>2. n[d].at = h /\ n[d].sw = net[d].sw /\ n[d].agent = FALSE /\ \A e \in Devices : e # d => n[e] = net[e]
    BY <1>1 DEF NetType
  <2>. QED
    BY <2>1, <2>2 DEF NetIs
<1>. QED
  BY <1>2, <1>3, <1>4, <1>5, <1>6

\* A removal starts alone and leaves the list alone.
LEMMA ListUninstall ==
  ASSUME ListIInv, ~Races, NEW d \in Devices, Uninstall(d)
  PROVE  ListGoal
<1>1. removing = Nowhere /\ refresh.pc = "idle" /\ \A t \in Scans : scans[t].pc = "idle"
  BY DEF Uninstall, Busy
<1>2. /\ net' = [net EXCEPT ![d].sw = "stock", ![d].agent = FALSE] /\ removing' = net[d].at
      /\ UNCHANGED <<cache, known, scans, refresh>>
  BY DEF Uninstall
<1>3. net' \in NetType
  <2>1. net \in NetType
    BY DEF ListIInv, DiscTypes, NetType
  <2>. QED
    BY <1>2, <2>1, NetForms DEF NetIs
<1>4. DiscTypes'
  BY <1>2, <1>3 DEF ListIInv, DiscTypes, NetType
<1>5. OneAtATime' /\ ShownIsCached' /\ ScanShowsAll /\ SightedStays
  BY <1>1, <1>2 DEF OneAtATime, ShownIsCached, ScanShowsAll, SightedStays
<1>. QED
  BY <1>4, <1>5 DEF ListIInv, ListGoal

\* A removal drops no address but its own.
LEMMA ListForget ==
  ASSUME ListIInv, Forget
  PROVE  ListGoal
<1>1. /\ removing # Nowhere /\ removing' = Nowhere /\ cache' = [cache EXCEPT ![removing] = NoEntry]
      /\ known' = [d \in Devices |-> IF cache[removing].id = d \/ known[d] = removing THEN Nowhere ELSE known[d]]
      /\ UNCHANGED <<net, scans, refresh>>
  BY DEF Forget
<1>2. refresh.pc = "idle" /\ \A t \in Scans : scans[t].pc = "idle"
  BY <1>1 DEF ListIInv, OneAtATime
<1>3. NoEntry \in [kind : Kinds3, id : Ids, miss : {"none", "missed", "gone"}]
  BY DEF NoEntry, Kinds3, Ids
<1>4. DiscTypes'
  BY <1>1, <1>3 DEF ListIInv, DiscTypes, HostOrNone
<1>5. SightedStays
  BY <1>1 DEF SightedStays, ListIInv, DiscTypes
<1>6. OneAtATime' /\ ShownIsCached' /\ ScanShowsAll
  BY <1>1, <1>2 DEF OneAtATime, ShownIsCached, ScanShowsAll
<1>. QED
  BY <1>4, <1>5, <1>6 DEF ListIInv, ListGoal


\* What happens to a speaker where it is, or a move, leaves the list alone.
LEMMA ListNet ==
  ASSUME ListIInv, NEW d \in Devices,
         \/ Update(d) \/ Reverts(d) \/ Installed(d) \/ AgentUp(d)
         \/ \E h \in Hosts \cup {Nowhere} : Moves(d, h)
  PROVE  ListGoal
<1>1. net \in NetType
  BY DEF ListIInv, DiscTypes, NetType
<1>2. net' \in NetType
  <2>1. CASE Update(d)
    BY <1>1, <2>1, NetForms DEF NetIs, Update
  <2>2. CASE Reverts(d)
    BY <1>1, <2>2, NetForms DEF NetIs, Reverts
  <2>3. CASE Installed(d)
    BY <1>1, <2>3, NetForms DEF NetIs, Installed
  <2>4. CASE AgentUp(d)
    BY <1>1, <2>4, NetForms DEF NetIs, AgentUp
  <2>5. CASE \E h \in Hosts \cup {Nowhere} : Moves(d, h)
    <3>1. PICK h \in HostOrNone : Moves(d, h)
      BY <2>5 DEF HostOrNone
    <3>2. net' = [net EXCEPT ![d].at = h, ![d].agent = FALSE]
      BY <3>1 DEF Moves
    <3>. QED
      BY <1>1, <3>1, <3>2, NetForms DEF NetIs
  <2>. QED
    BY <2>1, <2>2, <2>3, <2>4, <2>5
<1>3. UNCHANGED <<cache, known, scans, refresh, removing>>
  BY DEF Update, Reverts, Installed, AgentUp, Moves
<1>4. DiscTypes'
  BY <1>2, <1>3 DEF ListIInv, DiscTypes, NetType
<1>. QED
  BY <1>3, <1>4, ListQuiet

\* What only the clock does drops no address.
LEMMA ListClock ==
  ASSUME ListIInv,
         \/ \E h \in Hosts : MissAges(h) \/ PinEnds(h)
         \/ \E d \in Devices : MemoryEnds(d)
         \/ \E e \in echoes : EchoEnds(e)
  PROVE  ListGoal
<1>1. CASE \E h \in Hosts : MissAges(h)
  <2>1. PICK h \in Hosts : MissAges(h)
    BY <1>1
  <2>2. /\ cache' = [cache EXCEPT ![h].miss = "gone"] /\ UNCHANGED <<net, known, scans, refresh, removing>>
    BY <2>1 DEF MissAges
  <2>3. cache' \in [Hosts -> [kind : Kinds3, id : Ids, miss : {"none", "missed", "gone"}]]
    BY <2>2, SMTT(30) DEF ListIInv, DiscTypes
  <2>4. \A g \in Hosts : cache'[g].kind = cache[g].kind /\ cache'[g].id = cache[g].id
    BY <2>2 DEF ListIInv, DiscTypes
  <2>5. \A g \in Hosts : TileOf(cache'[g]) = TileOf(cache[g])
    BY <2>4 DEF TileOf
  <2>6. DiscTypes'
    BY <2>2, <2>3 DEF ListIInv, DiscTypes
  <2>. QED
    BY <2>2, <2>5, <2>6, ListQuiet
<1>2. CASE (\E h \in Hosts : PinEnds(h)) \/ \E e \in echoes : EchoEnds(e)
  <2>1. UNCHANGED <<net, cache, known, scans, refresh, removing>>
    BY <1>2 DEF PinEnds, EchoEnds
  <2>2. DiscTypes'
    BY <2>1 DEF ListIInv, DiscTypes
  <2>. QED
    BY <2>1, <2>2, ListQuiet
<1>3. CASE \E d \in Devices : MemoryEnds(d)
  <2>1. UNCHANGED <<net, cache, scans, refresh, removing>> /\ known' \in [Devices -> HostOrNone]
    BY <1>3 DEF MemoryEnds, ListIInv, DiscTypes, HostOrNone
  <2>2. DiscTypes'
    BY <2>1 DEF ListIInv, DiscTypes
  <2>. QED
    BY <2>1, <2>2, ListQuiet
<1>. QED
  BY <1>1, <1>2, <1>3

\* Without races every step keeps the invariant of the list and the property of its steps.
LEMMA ListStays == ~Races /\ ListIInv /\ [DiscNext]_discVars => ListGoal
<1>. SUFFICES ASSUME ~Races, ListIInv, [DiscNext]_discVars PROVE ListGoal
  OBVIOUS
<1>1. CASE \E s \in Scans : Scan(s) \/ MergeScan(s) \/ Dedupe(s)
  BY <1>1, ListScan, ListMergeScan, ListDedupe DEF Scan
<1>2. CASE RefreshProbes \/ MergeRefresh \/ Forget
  BY <1>2, ListRefreshProbes, ListMergeRefresh, ListForget
<1>3. CASE \E h \in Hosts : AddByIP(h) \/ MissAges(h) \/ PinEnds(h)
  BY <1>3, ListAddByIP, ListClock
<1>4. CASE \E d \in Devices : Update(d) \/ Uninstall(d) \/ Reverts(d) \/ Installed(d) \/ AgentUp(d) \/ MemoryEnds(d)
  BY <1>4, ListUninstall, ListNet, ListClock
<1>5. CASE \E d \in Devices, h \in Hosts \cup {Nowhere} : Moves(d, h)
  BY <1>5, ListNet
<1>6. CASE \E e \in echoes : EchoEnds(e)
  BY <1>6, ListClock
<1>7. CASE UNCHANGED discVars
  <2>1. UNCHANGED <<net, cache, known, scans, refresh, removing>>
    BY <1>7 DEF discVars
  <2>2. DiscTypes'
    BY <2>1 DEF ListIInv, DiscTypes
  <2>. QED
    BY <2>1, <2>2, ListQuiet
<1>. QED
  BY <1>1, <1>2, <1>3, <1>4, <1>5, <1>6, <1>7 DEF DiscNext

\* The invariant of the list holds initially.
LEMMA ListStarts == DiscInit => ListIInv
<1>. SUFFICES ASSUME DiscInit PROVE ListIInv
  OBVIOUS
<1>1. Nothing \in [Hosts -> Tiles] /\ Nothing \in [Hosts -> AnyTile]
  BY TilesAre DEF Nothing
<1>2. Resting \in [pc : {"idle", "found", "merged"}, found : [Hosts -> Tiles], shown : [Hosts -> AnyTile]] /\ Resting.pc = "idle"
  BY <1>1 DEF Resting
<1>3. NoEntry \in [kind : Kinds3, id : Ids, miss : {"none", "missed", "gone"}]
  BY DEF NoEntry, Kinds3, Ids
<1>4. net \in NetType
  BY DEF DiscInit, NetType, HostOrNone
<1>5. refresh \in [pc : {"idle", "probed"}, seen : [Hosts -> AnyTile], presence : SUBSET Hosts, offline : SUBSET Hosts] /\ refresh.pc = "idle"
  BY <1>1 DEF DiscInit
<1>6. DiscTypes
  BY <1>2, <1>3, <1>4, <1>5 DEF DiscInit, DiscTypes, NetType, HostOrNone
<1>7. OneAtATime /\ ShownIsCached
  BY <1>2, <1>5 DEF DiscInit, OneAtATime, ShownIsCached
<1>. QED
  BY <1>6, <1>7 DEF ListIInv


(* What has been removed. *)

\* Of is a matter of the kind and the identity of a tile.
LEMMA OfTile ==
  ASSUME NEW h, NEW t, NEW u, t.kind = u.kind, t.id = u.id, Of(h, t)
  PROVE  Of(h, u)
BY DEF Of, Present

\* An address without a tile tells of nobody.
LEMMA NoTileOf == ASSUME NEW h PROVE Of(h, NoTile)
BY DEF Of, NoTile, Present

\* A merge of tiles that tell of the owners of their addresses makes such tiles, and such a memory.
LEMMA PinnedOwned ==
  ASSUME DiscTypes, RemovalInv, NEW seen \in [Hosts -> AnyTile], NEW h \in Hosts, Of(h, seen[h])
  PROVE  Of(h, Pinned(seen)[h])
<1>. DEFINE fresh == Fresh(seen)
           tile == Pinned(seen)[h]
<1>1. Of(h, cache[h]) /\ (h \in pins => \E d \in Devices : <<h, d>> \in had)
  BY DEF RemovalInv, TracesOwned
<1>2. Of(h, fresh[h])
  <2>1. CASE Present(seen[h])
    <3>1. fresh[h].id # "?" => fresh[h].id = seen[h].id \/ fresh[h].id = cache[h].id
      BY <2>1, FreshShape
    <3>2. Present(fresh[h])
      BY <2>1, FreshShape
    <3>. QED
      BY <1>1, <2>1, <3>1, <3>2 DEF Of
  <2>2. CASE ~Present(seen[h])
    BY <2>2, FreshShape, NoTileOf
  <2>. QED
    BY <2>1, <2>2
<1>3. tile.id = (IF Kept(h, fresh) THEN cache[h].id ELSE fresh[h].id)
  BY TilesShown
<1>4. h \notin pins => tile.kind = (IF Kept(h, fresh) THEN cache[h].kind ELSE fresh[h].kind)
  BY TilesShown
<1>5. h \in pins => tile.kind = "str"
  BY TilesShown
<1>. HIDE DEF tile, fresh
<1>6. CASE h \notin pins
  BY <1>1, <1>2, <1>3, <1>4, <1>6 DEF Of, Present, tile
<1>7. CASE h \in pins
  <2>1. Present(tile)
    BY <1>5, <1>7 DEF Present
  <2>2. tile.id # "?" => <<h, tile.id>> \in had
    BY <1>1, <1>2, <1>3 DEF Of
  <2>. QED
    BY <1>1, <1>7, <2>1, <2>2 DEF Of, tile
<1>. QED
  BY <1>6, <1>7

\* And so does a merge of such tiles, in what it shows, what it remembers and the memory of identities.
LEMMA MergeOwned ==
  ASSUME DiscTypes, RemovalInv, NEW seen \in [Hosts -> AnyTile], NEW presence, \A h \in Hosts : Of(h, seen[h])
  PROVE  /\ \A h \in Hosts : Of(h, Merged(seen, presence).out[h]) /\ Of(h, Merged(seen, presence).cache[h])
         /\ \A d \in Devices : Merged(seen, presence).known[d] # Nowhere => <<Merged(seen, presence).known[d], d>> \in had
<1>. DEFINE m == Merged(seen, presence)
<1>1. \A h \in Hosts : Of(h, Pinned(seen)[h])
  BY PinnedOwned
<1>2. ASSUME NEW h \in Hosts PROVE Of(h, m.out[h]) /\ Of(h, m.cache[h])
  <2>1. /\ m.out[h].id = Pinned(seen)[h].id
        /\ m.out[h].kind = Pinned(seen)[h].kind \/ (Pinned(seen)[h].kind = "stock" /\ m.out[h].kind = "str")
        /\ m.cache[h].kind = m.out[h].kind /\ m.cache[h].id = m.out[h].id
    BY TilesOut, MergeShape
  <2>. HIDE DEF m
  <2>2. Of(h, m.out[h])
    BY <1>1, <2>1 DEF Of, Present
  <2>. QED
    BY <2>1, <2>2, OfTile
<1>3. ASSUME NEW d \in Devices, m.known[d] # Nowhere PROVE <<m.known[d], d>> \in had
  <2>1. m.known[d] = known[d] \/ (m.known[d] \in Hosts /\ Pinned(seen)[m.known[d]].id = d)
    BY KnownOut
  <2>2. known[d] # Nowhere => <<known[d], d>> \in had
    BY DEF RemovalInv, TracesOwned
  <2>3. d # "?"
    BY DiscoveryAssumption
  <2>. QED
    BY <1>1, <1>3, <2>1, <2>2, <2>3 DEF Of
<1>. QED
  BY <1>2, <1>3

\* Nor does it bring back a speaker that nothing tells of any more.
LEMMA MergeRid ==
  ASSUME DiscTypes, RemovalInv, NEW seen \in [Hosts -> AnyTile], NEW presence, \A h \in Hosts : Of(h, seen[h]),
         NEW d \in Devices, known[d] = Nowhere,
         \A h \in Hosts : <<h, d>> \in had => cache[h].kind # "str" /\ h \notin pins /\ seen[h].kind # "str"
  PROVE  /\ Merged(seen, presence).known[d] = Nowhere
         /\ \A h \in Hosts : <<h, d>> \in had => Merged(seen, presence).cache[h].kind # "str"
<1>. DEFINE m == Merged(seen, presence)
           tile(h) == Pinned(seen)[h]
<1>1. \A h \in Hosts : Of(h, tile(h))
  BY PinnedOwned
<1>2. ASSUME NEW h \in Hosts, <<h, d>> \in had PROVE tile(h).kind # "str"
  <2>1. Fresh(seen)[h].kind # "str"
    BY <1>2, FreshShape DEF NoTile
  <2>. QED
    BY <1>2, <2>1, TilesShown
<1>3. d # "?"
  BY DiscoveryAssumption
<1>4. ASSUME NEW h \in Hosts PROVE tile(h) # Str(d)
  <2>1. tile(h) = Str(d) => tile(h).kind = "str" /\ tile(h).id = d
    BY DEF Str
  <2>. HIDE DEF tile
  <2>. QED
    BY <1>1, <1>2, <1>3, <2>1 DEF Of
<1>5. m.known[d] = Nowhere /\ \A h \in Hosts : tile(h).id = d => m.out[h].kind = tile(h).kind
  BY <1>4, KnownOut
<1>6. ASSUME NEW h \in Hosts, <<h, d>> \in had PROVE m.cache[h].kind # "str"
  <2>1. m.cache[h].kind = m.out[h].kind
    BY MergeShape
  <2>2. tile(h).id # "?" => tile(h).id = d
    <3>1. tile(h) \in AnyTile
      BY TilesShown
    <3>2. tile(h).id # "?" => tile(h).id \in Devices
      BY <3>1 DEF AnyTile, Ids
    <3>. QED
      BY <1>1, <1>6, <3>2 DEF Of, RemovalInv, Leases
  <2>3. tile(h).id = "?" => m.out[h] = tile(h)
    BY MergeShape DEF Relabelled
  <2>. HIDE DEF m, tile
  <2>. QED
    BY <1>2, <1>5, <1>6, <2>1, <2>2, <2>3
<1>. QED
  BY <1>5, <1>6

\* With no removal under way, nothing tells of a speaker that has been removed.
LEMMA AllRid ==
  ASSUME DiscTypes, RemovalInv, removing = Nowhere, NEW d \in forgotten
  PROVE  d \in Devices /\ Silent(d) /\ Rid(d)
<1>1. <<Nowhere, d>> \notin had
  BY DiscoveryAssumption DEF RemovalInv, Leases, Nowhere
<1>. QED
  BY <1>1 DEF RemovalInv, Removals

\* Where it has been nothing answers as an agent, and nothing is announced.
LEMMA SilentThere ==
  ASSUME DiscTypes, RemovalInv, NEW d \in Devices, Silent(d), NEW h \in Hosts, <<h, d>> \in had
  PROVE  Agents(h) = {} /\ \A e \in Devices : <<h, e>> \notin echoes
<1>1. ASSUME NEW e \in Agents(h) PROVE FALSE
  <2>1. e \in Devices /\ net[e].at = h /\ net[e].agent
    BY DEF Agents, At
  <2>2. <<h, e>> \in had /\ net[e].sw = "str"
    BY <2>1, DiscoveryAssumption DEF RemovalInv, Leases, Nowhere
  <2>3. e = d
    BY <2>1, <2>2 DEF RemovalInv, Leases
  <2>. QED
    BY <2>2, <2>3 DEF Silent
<1>2. ASSUME NEW e \in Devices, <<h, e>> \in echoes PROVE FALSE
  <2>1. <<h, e>> \in had
    BY <1>2 DEF RemovalInv, Leases
  <2>2. e = d
    BY <2>1 DEF RemovalInv, Leases
  <2>. QED
    BY <1>2, <2>2 DEF Silent
<1>. QED
  BY <1>1, <1>2

\* A speaker that is at an address has had it.
LEMMA ThereHad ==
  ASSUME RemovalInv, NEW h \in Hosts, NEW d \in At(h)
  PROVE  d \in Devices /\ <<h, d>> \in had
BY DiscoveryAssumption DEF RemovalInv, Leases, At, Nowhere

\* A sighting tells of the owner of its address, and not of STR where a removed speaker has been.
LEMMA SightingsOwned ==
  ASSUME DiscTypes, RemovalInv, NEW h \in Hosts, NEW t \in Sightings(h)
  PROVE  /\ Of(h, t)
         /\ \A d \in Devices : Silent(d) /\ <<h, d>> \in had => t.kind # "str"
<1>1. /\ Present(t) => At(h) # {} \/ \E e \in Devices : <<h, e>> \in echoes
      /\ t.id # "?" => t.id \in At(h) \/ <<h, t.id>> \in echoes
      /\ t.kind = "str" => Agents(h) # {} \/ \E e \in Devices : <<h, e>> \in echoes
      /\ t # NoTile => Present(t)
  BY SightingsAre
<1>2. \A d \in At(h) : d \in Devices /\ <<h, d>> \in had
  BY ThereHad
<1>3. echoes \subseteq had
  BY DEF RemovalInv, Leases
<1>4. t.id # "?" => Present(t)
  BY <1>1 DEF NoTile
<1>5. Of(h, t)
  BY <1>1, <1>2, <1>3, <1>4 DEF Of
<1>. QED
  BY <1>1, <1>5, SilentThere


\* A scan finds nothing of a speaker that was removed.
LEMMA RidScan ==
  ASSUME ListIInv, RemovalInv, ~Races, NEW s \in Scans, NEW found \in [Hosts -> Tiles], ScanFinds(s, found)
  PROVE  RemovalInv'
<1>1. /\ scans' = [scans EXCEPT ![s] = [pc |-> "found", found |-> found, shown |-> Nothing]]
      /\ UNCHANGED <<net, had, echoes, cache, pins, known, refresh, removing, forgotten>>
      /\ \A h \in Hosts : found[h] \in Sightings(h)
  BY DEF ScanFinds
<1>2. removing = Nowhere
  BY FreeToStart DEF ScanFinds
<1>3. DiscTypes
  BY DEF ListIInv
<1>4. \A h \in Hosts : Of(h, found[h]) /\ \A d \in Devices : Silent(d) /\ <<h, d>> \in had => found[h].kind # "str"
  BY <1>1, <1>3, SightingsOwned
<1>5. /\ scans'[s].found = found /\ scans'[s].shown = Nothing
      /\ \A x \in Scans : x # s => scans'[x] = scans[x]
  BY <1>1, <1>3 DEF DiscTypes
<1>6. \A h \in Hosts : Of(h, Nothing[h])
  BY NoTileOf DEF Nothing
<1>7. Leases'
  BY <1>1 DEF RemovalInv, Leases
<1>8. \A h \in Hosts, x \in Scans : Of(h, scans'[x].found[h]) /\ Of(h, scans'[x].shown[h])
  BY <1>4, <1>5, <1>6 DEF RemovalInv, TracesOwned
<1>9. TracesOwned'
  BY <1>1, <1>8 DEF RemovalInv, TracesOwned, Of
<1>10. ASSUME NEW d \in forgotten PROVE d \in Devices /\ Silent(d) /\ Rid(d)'
  <2>1. d \in Devices /\ Silent(d) /\ Rid(d)
    BY <1>2, <1>3, AllRid
  <2>2. \A h \in Hosts, x \in Scans : <<h, d>> \in had /\ scans'[x].pc = "found" => scans'[x].found[h].kind # "str"
    BY <1>4, <1>5, <2>1 DEF Rid
  <2>. QED
    BY <1>1, <2>1, <2>2 DEF Rid
<1>11. Removals'
  <2>1. \A d : <<removing, d>> \notin had
    BY <1>2, DiscoveryAssumption DEF RemovalInv, Leases, Nowhere
  <2>. QED
    BY <1>1, <1>10, <2>1 DEF Removals, Silent
<1>. QED
  BY <1>7, <1>9, <1>11 DEF RemovalInv


\* The merge of a scan remembers nothing of it.
LEMMA RidMergeScan ==
  ASSUME ListIInv, RemovalInv, NEW s \in Scans, MergeScan(s)
  PROVE  RemovalInv'
<1>. DEFINE seen == scans[s].found
           m == Merged(seen, {})
<1>1. /\ scans[s].pc = "found" /\ cache' = m.cache /\ known' = m.known
      /\ scans' = [scans EXCEPT ![s].pc = "merged", ![s].shown = m.out]
      /\ UNCHANGED <<net, had, echoes, pins, refresh, removing, forgotten>>
  BY DEF MergeScan
<1>2. DiscTypes /\ seen \in [Hosts -> AnyTile]
  BY TilesAre DEF ListIInv, DiscTypes
<1>3. \A h \in Hosts : Of(h, seen[h])
  BY DEF RemovalInv, TracesOwned
<1>4. /\ \A h \in Hosts : Of(h, m.out[h]) /\ Of(h, m.cache[h])
      /\ \A d \in Devices : m.known[d] # Nowhere => <<m.known[d], d>> \in had
  BY <1>2, <1>3, MergeOwned
<1>5. removing = Nowhere /\ refresh.pc = "idle" /\ \A t \in Scans : t # s => scans[t].pc = "idle"
  BY <1>1 DEF ListIInv, OneAtATime
<1>6. ASSUME NEW d \in forgotten
      PROVE  /\ d \in Devices /\ Silent(d) /\ Rid(d) /\ m.known[d] = Nowhere
             /\ \A h \in Hosts : <<h, d>> \in had => m.cache[h].kind # "str"
  <2>1. d \in Devices /\ Silent(d) /\ Rid(d)
    BY <1>2, <1>5, AllRid
  <2>2. known[d] = Nowhere /\ \A h \in Hosts : <<h, d>> \in had => cache[h].kind # "str" /\ h \notin pins /\ seen[h].kind # "str"
    BY <1>1, <2>1 DEF Rid
  <2>. QED
    BY <1>2, <1>3, <2>1, <2>2, MergeRid
<1>7. /\ scans'[s].pc = "merged" /\ scans'[s].shown = m.out /\ scans'[s].found = seen
      /\ \A t \in Scans : t # s => scans'[t] = scans[t]
  BY <1>1, <1>2 DEF DiscTypes
<1>. HIDE DEF m, seen
<1>8. Leases'
  BY <1>1 DEF RemovalInv, Leases
<1>9. \A h \in Hosts, x \in Scans : Of(h, scans'[x].found[h]) /\ Of(h, scans'[x].shown[h])
  BY <1>3, <1>4, <1>7 DEF RemovalInv, TracesOwned
<1>10. TracesOwned'
  BY <1>1, <1>4, <1>9 DEF RemovalInv, TracesOwned, Of
<1>11. Removals'
  <2>1. \A d : <<removing, d>> \notin had
    BY <1>5, DiscoveryAssumption DEF RemovalInv, Leases, Nowhere
  <2>2. \A d \in forgotten : Rid(d)'
    BY <1>1, <1>5, <1>6, <1>7 DEF Rid
  <2>. QED
    BY <1>1, <1>6, <2>1, <2>2 DEF Removals, Silent
<1>. QED
  BY <1>8, <1>10, <1>11 DEF RemovalInv

\* Dedupe only drops tiles.
LEMMA RidDedupe ==
  ASSUME ListIInv, RemovalInv, NEW s \in Scans, Dedupe(s)
  PROVE  RemovalInv'
<1>. DEFINE gone == Losers(scans[s].shown)
<1>1. /\ scans[s].pc = "merged" /\ cache' = [h \in Hosts |-> IF h \in gone THEN NoEntry ELSE cache[h]]
      /\ scans' = [scans EXCEPT ![s] = Resting]
      /\ UNCHANGED <<net, had, echoes, pins, known, refresh, removing, forgotten>>
  BY DEF Dedupe
<1>2. DiscTypes
  BY DEF ListIInv
<1>3. \A h \in Hosts : cache'[h] = NoEntry \/ cache'[h] = cache[h]
  BY <1>1
<1>4. scans'[s] = Resting /\ \A t \in Scans : t # s => scans'[t] = scans[t]
  BY <1>1, <1>2 DEF DiscTypes
<1>5. removing = Nowhere
  BY <1>1 DEF ListIInv, OneAtATime
<1>. HIDE DEF gone
<1>6. NoEntry.kind = "none" /\ \A h \in Hosts : Of(h, NoEntry) /\ Of(h, Resting.found[h]) /\ Of(h, Resting.shown[h])
  BY NoTileOf DEF NoEntry, Resting, Nothing, Of, Present
<1>7. Resting.pc = "idle"
  BY DEF Resting
<1>8. Leases'
  BY <1>1 DEF RemovalInv, Leases
<1>9. \A h \in Hosts : Of(h, cache'[h]) /\ \A x \in Scans : Of(h, scans'[x].found[h]) /\ Of(h, scans'[x].shown[h])
  BY <1>3, <1>4, <1>6 DEF RemovalInv, TracesOwned
<1>10. TracesOwned'
  BY <1>1, <1>9 DEF RemovalInv, TracesOwned, Of
<1>11. Removals'
  <2>1. \A d : <<removing, d>> \notin had
    BY <1>5, DiscoveryAssumption DEF RemovalInv, Leases, Nowhere
  <2>2. \A d \in forgotten : d \in Devices /\ Silent(d) /\ Rid(d)
    BY <1>2, <1>5, AllRid
  <2>3. \A d \in forgotten : Rid(d)'
    BY <1>1, <1>3, <1>4, <1>6, <1>7, <2>2 DEF Rid
  <2>. QED
    BY <1>1, <2>1, <2>2, <2>3 DEF Removals, Silent
<1>. QED
  BY <1>8, <1>10, <1>11 DEF RemovalInv

\* A refresh sees nothing of a speaker that was removed.
LEMMA RidRefreshProbes ==
  ASSUME ListIInv, RemovalInv, ~Races, RefreshProbes
  PROVE  RemovalInv'
<1>1. UNCHANGED <<net, had, echoes, cache, pins, known, scans, removing, forgotten>>
  BY DEF RefreshProbes
<1>2. removing = Nowhere
  BY FreeToStart DEF RefreshProbes
<1>3. DiscTypes
  BY DEF ListIInv
<1>4. \A h \in Hosts :
        \/ refresh'.seen[h] = NoTile
        \/ refresh'.seen[h] = TileOf(cache[h]) /\ Present(cache[h])
        \/ \E i \in Agents(h) \cup {"?"} : refresh'.seen[h] = Str(i) /\ Agents(h) # {}
  BY <1>3, RefreshSees
<1>5. ASSUME NEW h \in Hosts
      PROVE  /\ Of(h, refresh'.seen[h])
             /\ \A d \in forgotten : <<h, d>> \in had => refresh'.seen[h].kind # "str"
  <2>0. \A d \in forgotten : d \in Devices /\ Silent(d) /\ Rid(d)
    BY <1>2, <1>3, AllRid
  <2>1. CASE refresh'.seen[h] = NoTile
    BY <2>1, NoTileOf DEF NoTile
  <2>2. CASE refresh'.seen[h] = TileOf(cache[h])
    <3>1. refresh'.seen[h].kind = cache[h].kind /\ refresh'.seen[h].id = cache[h].id
      BY <2>2 DEF TileOf
    <3>2. Of(h, cache[h])
      BY DEF RemovalInv, TracesOwned
    <3>. QED
      BY <2>0, <3>1, <3>2, OfTile DEF Rid
  <2>3. CASE \E i \in Agents(h) \cup {"?"} : refresh'.seen[h] = Str(i) /\ Agents(h) # {}
    <3>1. PICK i \in Agents(h) \cup {"?"} : refresh'.seen[h] = Str(i) /\ Agents(h) # {}
      BY <2>3
    <3>2. \A d \in Agents(h) : d \in Devices /\ <<h, d>> \in had
      BY ThereHad DEF Agents
    <3>3. Str(i).kind = "str" /\ Str(i).id = i
      BY DEF Str
    <3>4. Of(h, Str(i))
      BY <3>1, <3>2, <3>3 DEF Of, Present
    <3>. QED
      BY <1>3, <2>0, <3>1, <3>4, SilentThere
  <2>. QED
    BY <1>4, <2>1, <2>2, <2>3
<1>6. Leases'
  BY <1>1 DEF RemovalInv, Leases
<1>7. TracesOwned'
  BY <1>1, <1>5 DEF RemovalInv, TracesOwned, Of
<1>8. Removals'
  <2>1. \A d : <<removing, d>> \notin had
    BY <1>2, DiscoveryAssumption DEF RemovalInv, Leases, Nowhere
  <2>2. \A d \in forgotten : d \in Devices /\ Silent(d) /\ Rid(d)
    BY <1>2, <1>3, AllRid
  <2>3. \A d \in forgotten : Rid(d)'
    BY <1>1, <1>5, <2>2 DEF Rid
  <2>. QED
    BY <1>1, <2>1, <2>2, <2>3 DEF Removals, Silent
<1>. QED
  BY <1>6, <1>7, <1>8 DEF RemovalInv

\* The merge of a refresh remembers nothing of it.
LEMMA RidMergeRefresh ==
  ASSUME ListIInv, RemovalInv, MergeRefresh
  PROVE  RemovalInv'
<1>. DEFINE seen == [h \in Hosts |-> IF h \in refresh.offline THEN NoTile ELSE refresh.seen[h]]
           m == Merged(seen, refresh.presence)
<1>1. /\ refresh.pc = "probed" /\ cache' = m.cache /\ known' = m.known
      /\ refresh' = [pc |-> "idle", seen |-> Nothing, presence |-> {}, offline |-> {}]
      /\ UNCHANGED <<net, had, echoes, pins, scans, removing, forgotten>>
  BY DEF MergeRefresh
<1>2. DiscTypes /\ seen \in [Hosts -> AnyTile]
  BY TilesAre DEF ListIInv, DiscTypes
<1>3. \A h \in Hosts : Of(h, seen[h]) /\ (seen[h].kind = "str" => refresh.seen[h].kind = "str")
  BY NoTileOf DEF RemovalInv, TracesOwned, NoTile
<1>. HIDE DEF seen
<1>4. /\ \A h \in Hosts : Of(h, m.out[h]) /\ Of(h, m.cache[h])
      /\ \A d \in Devices : m.known[d] # Nowhere => <<m.known[d], d>> \in had
  BY <1>2, <1>3, MergeOwned
<1>5. removing = Nowhere /\ \A t \in Scans : scans[t].pc = "idle"
  BY <1>1 DEF ListIInv, OneAtATime
<1>6. ASSUME NEW d \in forgotten
      PROVE  /\ d \in Devices /\ Silent(d) /\ Rid(d) /\ m.known[d] = Nowhere
             /\ \A h \in Hosts : <<h, d>> \in had => m.cache[h].kind # "str"
  <2>1. d \in Devices /\ Silent(d) /\ Rid(d)
    BY <1>2, <1>5, AllRid
  <2>2. known[d] = Nowhere /\ \A h \in Hosts : <<h, d>> \in had => cache[h].kind # "str" /\ h \notin pins /\ seen[h].kind # "str"
    BY <1>1, <1>3, <2>1 DEF Rid
  <2>. QED
    BY <1>2, <1>3, <2>1, <2>2, MergeRid
<1>. HIDE DEF m
<1>7. refresh'.pc = "idle" /\ \A h \in Hosts : Of(h, refresh'.seen[h])
  BY <1>1, NoTileOf DEF Nothing
<1>8. Leases'
  BY <1>1 DEF RemovalInv, Leases
<1>9. TracesOwned'
  BY <1>1, <1>4, <1>7 DEF RemovalInv, TracesOwned, Of
<1>10. Removals'
  <2>1. \A d : <<removing, d>> \notin had
    BY <1>5, DiscoveryAssumption DEF RemovalInv, Leases, Nowhere
  <2>2. \A d \in forgotten : Rid(d)'
    BY <1>1, <1>5, <1>6, <1>7 DEF Rid
  <2>. QED
    BY <1>1, <1>6, <2>1, <2>2 DEF Removals, Silent
<1>. QED
  BY <1>8, <1>9, <1>10 DEF RemovalInv

\* Adding an address by hand remembers nothing of it.
LEMMA RidAddByIP ==
  ASSUME ListIInv, RemovalInv, ~Races, NEW h \in Hosts, AddByIP(h)
  PROVE  RemovalInv'
<1>1. removing = Nowhere
  BY FreeToStart DEF AddByIP
<1>2. PICK t \in Sightings(h) \ ({NoTile} \cup {Str(d) : d \in Devices \ Agents(h)} \cup {Stock("?")}) :
        cache' = [cache EXCEPT ![h] = [kind |-> t.kind, id |-> t.id, miss |-> "none"]]
  BY DEF AddByIP
<1>3. UNCHANGED <<net, had, echoes, pins, known, scans, refresh, removing, forgotten>>
  BY DEF AddByIP
<1>4. DiscTypes
  BY DEF ListIInv
<1>5. Of(h, t) /\ \A d \in Devices : Silent(d) /\ <<h, d>> \in had => t.kind # "str"
  BY <1>2, <1>4, SightingsOwned
<1>6. cache'[h].kind = t.kind /\ cache'[h].id = t.id /\ \A g \in Hosts : g # h => cache'[g] = cache[g]
  BY <1>2, <1>4 DEF DiscTypes
<1>7. Leases'
  BY <1>3 DEF RemovalInv, Leases
<1>8. Of(h, cache'[h])
  BY <1>5, <1>6, OfTile
<1>9. TracesOwned'
  BY <1>3, <1>6, <1>8 DEF RemovalInv, TracesOwned, Of
<1>10. Removals'
  <2>1. \A d : <<removing, d>> \notin had
    BY <1>1, DiscoveryAssumption DEF RemovalInv, Leases, Nowhere
  <2>2. \A d \in forgotten : d \in Devices /\ Silent(d) /\ Rid(d)
    BY <1>1, <1>4, AllRid
  <2>3. \A d \in forgotten : Rid(d)'
    BY <1>3, <1>5, <1>6, <2>2 DEF Rid
  <2>. QED
    BY <1>3, <2>1, <2>2, <2>3 DEF Removals, Silent
<1>. QED
  BY <1>7, <1>9, <1>10 DEF RemovalInv


\* forgetSTRDeviceByHost drops all that still told of the speaker it removes.
LEMMA RidForget ==
  ASSUME ListIInv, RemovalInv, Forget
  PROVE  RemovalInv'
<1>1. /\ removing # Nowhere /\ removing' = Nowhere /\ cache' = [cache EXCEPT ![removing] = NoEntry]
      /\ known' = [d \in Devices |-> IF cache[removing].id = d \/ known[d] = removing THEN Nowhere ELSE known[d]]
      /\ UNCHANGED <<net, had, echoes, pins, scans, refresh, forgotten>>
  BY DEF Forget
<1>2. DiscTypes /\ refresh.pc = "idle" /\ \A t \in Scans : scans[t].pc = "idle"
  BY <1>1 DEF ListIInv, OneAtATime
<1>3. /\ \A h \in Hosts : h # removing => cache'[h] = cache[h]
      /\ removing \in Hosts => cache'[removing] = NoEntry
  BY <1>1, <1>2 DEF DiscTypes
<1>4. \A d \in Devices : known'[d] = Nowhere \/ known'[d] = known[d]
  BY <1>1
<1>5. NoEntry.kind = "none" /\ \A h \in Hosts : Of(h, NoEntry)
  BY DEF NoEntry, Of, Present
<1>6. Leases'
  BY <1>1 DEF RemovalInv, Leases
<1>7. \A h \in Hosts : Of(h, cache'[h])
  BY <1>3, <1>5 DEF RemovalInv, TracesOwned
<1>8. TracesOwned'
  BY <1>1, <1>4, <1>7 DEF RemovalInv, TracesOwned, Of
<1>9. ASSUME NEW d \in forgotten PROVE d \in Devices /\ Silent(d) /\ Rid(d)'
  <2>1. d \in Devices /\ Silent(d) /\ (IF <<removing, d>> \in had THEN Leaving(d) ELSE Rid(d))
    BY DEF RemovalInv, Removals
  <2>2. CASE <<removing, d>> \in had
    <3>1. Leaving(d)
      BY <2>1, <2>2
    <3>2. known'[d] = Nowhere
      BY <1>1, <2>1, <3>1 DEF Leaving
    <3>3. \A h \in Hosts : <<h, d>> \in had => h \notin pins /\ cache'[h].kind # "str"
      BY <1>3, <1>5, <3>1 DEF Leaving, Present
    <3>. QED
      BY <1>1, <1>2, <2>1, <3>2, <3>3 DEF Rid
  <2>3. CASE <<removing, d>> \notin had
    <3>1. Rid(d)
      BY <2>1, <2>3
    <3>2. known'[d] = Nowhere
      BY <1>4, <2>1, <3>1 DEF Rid
    <3>3. \A h \in Hosts : <<h, d>> \in had => h \notin pins /\ cache'[h].kind # "str"
      BY <1>3, <1>5, <3>1 DEF Rid
    <3>. QED
      BY <1>1, <1>2, <2>1, <3>2, <3>3 DEF Rid
  <2>. QED
    BY <2>2, <2>3
<1>10. Removals'
  <2>1. \A d : <<removing', d>> \notin had
    BY <1>1, DiscoveryAssumption DEF RemovalInv, Leases, Nowhere
  <2>. QED
    BY <1>1, <1>9, <2>1 DEF Removals, Silent
<1>. QED
  BY <1>6, <1>8, <1>10 DEF RemovalInv

\* A removal starts when all that tells of the speaker is at the address it works on.
LEMMA RidUninstall ==
  ASSUME ListIInv, RemovalInv, ~Races, NEW d \in Devices, Uninstall(d)
  PROVE  RemovalInv'
<1>1. removing = Nowhere /\ refresh.pc = "idle" /\ \A t \in Scans : scans[t].pc = "idle"
  BY DEF Uninstall, Busy
<1>2. /\ net' = [net EXCEPT ![d].sw = "stock", ![d].agent = FALSE] /\ removing' = net[d].at /\ forgotten' = forgotten \cup {d}
      /\ UNCHANGED <<had, echoes, cache, pins, known, scans, refresh>>
      /\ net[d].sw = "str" /\ net[d].at # Nowhere /\ net[d].at \notin pins /\ ~Elsewhere(d)
  BY DEF Uninstall
<1>3. DiscTypes /\ net \in NetType
  BY DEF ListIInv, DiscTypes, NetType
<1>4. NetIs(net', d, net[d].at, "stock", FALSE)
  BY <1>2, <1>3, NetForms
<1>5. net[d].at \in Hosts /\ <<net[d].at, d>> \in had
  BY <1>2, <1>3 DEF RemovalInv, Leases, NetType, HostOrNone
<1>6. Leases'
  <2>1. \A e \in Devices : net'[e].at = net[e].at /\ (net'[e].agent => net'[e] = net[e])
    BY <1>4 DEF NetIs
  <2>2. \A e \in Devices : net'[e].at # Nowhere => <<net'[e].at, e>> \in had
    BY <2>1 DEF RemovalInv, Leases
  <2>3. \A e \in Devices : net'[e].agent => net'[e].sw = "str" /\ net'[e].at # Nowhere
    BY <2>1 DEF RemovalInv, Leases
  <2>4. UNCHANGED <<had, echoes>>
    BY <1>2
  <2>. QED
    BY <2>2, <2>3, <2>4 DEF RemovalInv, Leases
<1>7. TracesOwned'
  BY <1>2, <1>5 DEF RemovalInv, TracesOwned, Of
<1>8. ASSUME NEW e \in forgotten, e # d PROVE e \in Devices /\ Silent(e)' /\ <<removing', e>> \notin had /\ Rid(e)'
  <2>1. e \in Devices /\ Silent(e) /\ Rid(e)
    BY <1>1, <1>3, AllRid
  <2>2. <<net[d].at, e>> \notin had
    BY <1>5, <1>8, <2>1 DEF RemovalInv, Leases
  <2>3. Silent(e)'
    BY <1>2, <1>4, <1>8, <2>1 DEF Silent, NetIs
  <2>4. Rid(e)'
    BY <1>2, <2>1 DEF Rid
  <2>. QED
    BY <1>2, <2>1, <2>2, <2>3, <2>4
<1>9. Silent(d)' /\ Leaving(d)'
  <2>1. \A e \in echoes : e[2] # d
    BY <1>2 DEF Elsewhere
  <2>2. Silent(d)'
    BY <1>2, <1>4, <2>1 DEF Silent, NetIs
  <2>3. known[d] \in {Nowhere, net[d].at} \/ cache[net[d].at].id = d
    BY <1>2, <1>3 DEF Elsewhere, DiscTypes, HostOrNone
  <2>4. \A h \in Hosts : <<h, d>> \in had => h \notin pins /\ (h # net[d].at => ~Present(cache[h]))
    BY <1>2 DEF Elsewhere
  <2>. QED
    BY <1>2, <2>2, <2>3, <2>4 DEF Leaving
<1>10. Removals'
  BY <1>2, <1>5, <1>8, <1>9 DEF Removals
<1>. QED
  BY <1>6, <1>7, <1>10 DEF RemovalInv

\* What happens to a speaker where it is: it has STR, or its agent falls silent.
LEMMA RidNet ==
  ASSUME ListIInv, RemovalInv, NEW d \in Devices, Update(d) \/ Reverts(d) \/ Installed(d) \/ AgentUp(d)
  PROVE  RemovalInv'
<1>1. UNCHANGED <<had, echoes, cache, known, scans, refresh, removing>>
  BY DEF Update, Reverts, Installed, AgentUp
<1>2. DiscTypes /\ net \in NetType
  BY DEF ListIInv, DiscTypes, NetType
<1>3. /\ net'[d].at = net[d].at /\ net'[d].agent \in BOOLEAN
      /\ net'[d].agent => net'[d].sw = "str" /\ net[d].at # Nowhere
      /\ \A e \in Devices : e # d => net'[e] = net[e]
      /\ d \in forgotten' => d \in forgotten /\ (net[d].sw = "stock" => net'[d].sw = "stock")
      /\ forgotten' \subseteq forgotten
  <2>0. net[d].agent => net[d].sw = "str" /\ net[d].at # Nowhere
    BY DEF RemovalInv, Leases
  <2>1. CASE Update(d)
    <3>1. NetIs(net', d, net[d].at, net[d].sw, FALSE) /\ forgotten' = forgotten
      BY <1>2, <2>1, NetForms DEF Update
    <3>. QED
      BY <3>1 DEF NetIs
  <2>2. CASE Reverts(d)
    <3>1. NetIs(net', d, net[d].at, "stock", FALSE) /\ forgotten' = forgotten
      BY <1>2, <2>2, NetForms DEF Reverts
    <3>. QED
      BY <3>1 DEF NetIs
  <2>3. CASE Installed(d)
    <3>1. NetIs(net', d, net[d].at, "str", net[d].agent) /\ forgotten' = forgotten \ {d}
      BY <1>2, <2>3, NetForms DEF Installed
    <3>2. net[d].agent \in BOOLEAN
      BY <1>2 DEF NetType
    <3>. QED
      BY <2>0, <3>1, <3>2 DEF NetIs
  <2>4. CASE AgentUp(d)
    <3>1. NetIs(net', d, net[d].at, net[d].sw, TRUE) /\ forgotten' = forgotten /\ net[d].sw = "str" /\ net[d].at # Nowhere
      BY <1>2, <2>4, NetForms DEF AgentUp
    <3>. QED
      BY <3>1 DEF NetIs
  <2>. QED
    BY <2>1, <2>2, <2>3, <2>4
<1>4. \A h \in pins' : h \in pins \/ (h = net[d].at /\ net[d].sw = "str" /\ h # Nowhere)
  <2>1. net[d].agent => net[d].sw = "str" /\ net[d].at # Nowhere
    BY DEF RemovalInv, Leases
  <2>. QED
    BY <2>1 DEF Update, Reverts, Installed, AgentUp
<1>5. net[d].at # Nowhere => net[d].at \in Hosts /\ <<net[d].at, d>> \in had
  BY DEF RemovalInv, Leases
<1>6. Leases'
  BY <1>1, <1>3 DEF RemovalInv, Leases
<1>7. TracesOwned'
  BY <1>1, <1>4, <1>5 DEF RemovalInv, TracesOwned, Of
<1>8. ASSUME NEW e \in forgotten' PROVE e \in Devices /\ Silent(e)' /\ (IF <<removing, e>> \in had THEN Leaving(e)' ELSE Rid(e)')
  <2>1. e \in Devices /\ Silent(e) /\ (IF <<removing, e>> \in had THEN Leaving(e) ELSE Rid(e))
    BY <1>3 DEF RemovalInv, Removals
  <2>2. Silent(e)'
    BY <1>1, <1>3, <2>1 DEF Silent
  <2>3. \A h \in Hosts : <<h, e>> \in had /\ h \in pins' => h \in pins
    <3>. SUFFICES ASSUME NEW h \in Hosts, <<h, e>> \in had, h \in pins', h \notin pins PROVE FALSE
      OBVIOUS
    <3>1. h = net[d].at /\ net[d].sw = "str" /\ <<h, d>> \in had
      BY <1>4, <1>5
    <3>2. e = d
      BY <2>1, <3>1 DEF RemovalInv, Leases
    <3>. QED
      BY <2>1, <3>1, <3>2 DEF Silent
  <2>4. Leaving(e) => Leaving(e)'
    BY <1>1, <2>3 DEF Leaving
  <2>5. Rid(e) => Rid(e)'
    BY <1>1, <2>3 DEF Rid
  <2>. QED
    BY <2>1, <2>2, <2>4, <2>5
<1>9. Removals'
  BY <1>1, <1>8 DEF Removals
<1>. QED
  BY <1>6, <1>7, <1>9 DEF RemovalInv


\* A speaker takes an address that was its own, or one that nothing tells of.
LEMMA RidMoves ==
  ASSUME ListIInv, RemovalInv, ~Reuse, NEW d \in Devices, NEW h \in HostOrNone, Moves(d, h)
  PROVE  RemovalInv'
<1>1. /\ net' = [net EXCEPT ![d].at = h, ![d].agent = FALSE]
      /\ had' = (IF h = Nowhere THEN had ELSE had \cup {<<h, d>>})
      /\ echoes' \in {echoes, echoes \cup IF net[d].agent THEN {<<net[d].at, d>>} ELSE {}}
      /\ h # Nowhere => \A e \in Devices : <<h, e>> \in had => e = d
  BY DEF Moves, Free
<1>2. UNCHANGED <<cache, pins, known, scans, refresh, removing, forgotten>>
  BY DEF Moves
<1>3. DiscTypes /\ net \in NetType
  BY DEF ListIInv, DiscTypes, NetType
<1>4. NetIs(net', d, h, net[d].sw, FALSE)
  BY <1>1, <1>3, NetForms
<1>5. had \subseteq had' /\ \A p \in had' : p \in had \/ (p = <<h, d>> /\ h \in Hosts)
  BY <1>1 DEF HostOrNone
<1>6. \A p \in echoes' : p \in echoes \/ (p = <<net[d].at, d>> /\ p \in had /\ net[d].sw = "str")
  BY <1>1 DEF RemovalInv, Leases
<1>7. Leases'
  <2>1. \A e \in Devices : net'[e].at # Nowhere => <<net'[e].at, e>> \in had'
    <3>1. h # Nowhere => <<h, d>> \in had'
      BY <1>1
    <3>. QED
      BY <1>4, <1>5, <3>1 DEF NetIs, RemovalInv, Leases
  <2>2. \A e \in Devices : net'[e].agent => net'[e].sw = "str" /\ net'[e].at # Nowhere
    BY <1>4 DEF NetIs, RemovalInv, Leases
  <2>3. ASSUME NEW g \in Hosts, NEW a \in Devices, NEW b \in Devices, <<g, a>> \in had', <<g, b>> \in had' PROVE a = b
    <3>1. CASE g = h
      <4>1. h # Nowhere
        BY <3>1, DiscoveryAssumption DEF Nowhere
      <4>2. \A e \in Devices : <<h, e>> \in had' => e = d
        BY <1>1, <1>5, <4>1
      <4>. QED
        BY <2>3, <3>1, <4>2
    <3>2. CASE g # h
      BY <1>5, <2>3, <3>2 DEF RemovalInv, Leases
    <3>. QED
      BY <3>1, <3>2
  <2>4. had' \subseteq Hosts \X Devices
    BY <1>5 DEF RemovalInv, Leases
  <2>5. echoes' \subseteq had'
    BY <1>5, <1>6 DEF RemovalInv, Leases
  <2>. QED
    BY <2>1, <2>2, <2>3, <2>4, <2>5 DEF Leases
<1>8. TracesOwned'
  <2>1. \A g, t : Of(g, t) => Of(g, t)'
    BY <1>5 DEF Of
  <2>. QED
    BY <1>2, <1>5, <2>1 DEF RemovalInv, TracesOwned, Of
\* An address nobody has had tells of nobody.
<1>9. ASSUME <<h, d>> \notin had, h \in Hosts
      PROVE  /\ ~Present(cache[h]) /\ ~Present(refresh.seen[h]) /\ h \notin pins /\ h # removing
             /\ \A s \in Scans : ~Present(scans[s].found[h])
  <2>1. \A e \in Devices : <<h, e>> \notin had
    BY <1>1, <1>9, DiscoveryAssumption DEF Nowhere
  <2>2. h # Nowhere
    BY <1>9, DiscoveryAssumption DEF Nowhere
  <2>. QED
    BY <1>9, <2>1, <2>2 DEF RemovalInv, TracesOwned, Of
<1>10. ASSUME NEW e \in forgotten
       PROVE  e \in Devices /\ Silent(e)' /\ (IF <<removing, e>> \in had' THEN Leaving(e)' ELSE Rid(e)')
  <2>1. e \in Devices /\ Silent(e) /\ (IF <<removing, e>> \in had THEN Leaving(e) ELSE Rid(e))
    BY DEF RemovalInv, Removals
  <2>2. Silent(e)'
    <3>1. net'[e].sw = net[e].sw
      BY <1>4, <2>1 DEF NetIs
    <3>2. \A g \in Hosts : <<g, e>> \notin echoes'
      BY <1>6, <2>1 DEF Silent
    <3>. QED
      BY <2>1, <3>1, <3>2 DEF Silent
  <2>3. \A g \in Hosts : <<g, e>> \in had' /\ <<g, e>> \notin had => g = h /\ e = d /\ <<h, d>> \notin had
    BY <1>5
  <2>4. <<removing, e>> \in had' <=> <<removing, e>> \in had
    <3>. SUFFICES ASSUME <<removing, e>> \in had', <<removing, e>> \notin had PROVE FALSE
      BY <1>5
    <3>1. removing = h /\ e = d /\ h \in Hosts
      BY <1>5
    <3>. QED
      BY <1>9, <3>1
  <2>5. Leaving(e) => Leaving(e)'
    <3>1. ASSUME Leaving(e), NEW g \in Hosts, <<g, e>> \in had' PROVE g \notin pins /\ (g # removing => ~Present(cache[g]))
      BY <1>9, <2>3, <3>1 DEF Leaving
    <3>. QED
      BY <1>2, <3>1 DEF Leaving
  <2>6. Rid(e) => Rid(e)'
    <3>1. ASSUME Rid(e), NEW g \in Hosts, <<g, e>> \in had'
          PROVE  /\ cache[g].kind # "str" /\ g \notin pins
                 /\ \A s \in Scans : scans[s].pc = "found" => scans[s].found[g].kind # "str"
                 /\ refresh.pc = "probed" => refresh.seen[g].kind # "str"
      BY <1>9, <2>3, <3>1 DEF Rid, Present
    <3>. QED
      BY <1>2, <3>1 DEF Rid
  <2>. QED
    BY <2>1, <2>2, <2>4, <2>5, <2>6
<1>11. Removals'
  BY <1>2, <1>10 DEF Removals
<1>. QED
  BY <1>7, <1>8, <1>11 DEF RemovalInv

\* What only the clock does takes something from what tells of the speakers.
LEMMA RidClock ==
  ASSUME ListIInv, RemovalInv,
         \/ \E h \in Hosts : MissAges(h) \/ PinEnds(h)
         \/ \E d \in Devices : MemoryEnds(d)
         \/ \E e \in echoes : EchoEnds(e)
         \/ UNCHANGED discVars
  PROVE  RemovalInv'
<1>1. UNCHANGED <<net, had, scans, refresh, removing, forgotten>> /\ echoes' \subseteq echoes /\ pins' \subseteq pins
  BY DEF MissAges, PinEnds, MemoryEnds, EchoEnds, discVars
<1>2. \A d \in Devices : known'[d] = known[d] \/ known'[d] = Nowhere
  BY DEF MissAges, PinEnds, MemoryEnds, EchoEnds, discVars, ListIInv, DiscTypes
<1>3. \A h \in Hosts : cache'[h].kind = cache[h].kind /\ cache'[h].id = cache[h].id
  BY DEF MissAges, PinEnds, MemoryEnds, EchoEnds, discVars, ListIInv, DiscTypes
<1>4. Leases'
  BY <1>1 DEF RemovalInv, Leases
<1>5. \A h \in Hosts : Of(h, cache'[h])
  BY <1>3, OfTile DEF RemovalInv, TracesOwned
<1>6. TracesOwned'
  BY <1>1, <1>2, <1>5 DEF RemovalInv, TracesOwned, Of
<1>7. ASSUME NEW d \in forgotten
      PROVE  d \in Devices /\ Silent(d)' /\ (IF <<removing, d>> \in had THEN Leaving(d)' ELSE Rid(d)')
  <2>1. d \in Devices /\ Silent(d) /\ (IF <<removing, d>> \in had THEN Leaving(d) ELSE Rid(d))
    BY DEF RemovalInv, Removals
  <2>2. Silent(d)'
    BY <1>1, <2>1 DEF Silent
  <2>3. CASE <<removing, d>> \in had
    <3>1. removing \in Hosts
      BY <2>3 DEF RemovalInv, Leases
    <3>2. Leaving(d)'
      BY <1>1, <1>2, <1>3, <2>1, <2>3, <3>1 DEF Leaving, Present
    <3>. QED
      BY <2>1, <2>2, <2>3, <3>2
  <2>4. CASE <<removing, d>> \notin had
    <3>1. Rid(d)'
      BY <1>1, <1>2, <1>3, <2>1, <2>4 DEF Rid
    <3>. QED
      BY <2>1, <2>2, <2>4, <3>1
  <2>. QED
    BY <2>3, <2>4
<1>8. Removals'
  BY <1>1, <1>7 DEF Removals
<1>. QED
  BY <1>4, <1>6, <1>8 DEF RemovalInv

\* Without races and with an address of one speaker only, every step keeps what is owed to a removal.
LEMMA RidStays == ~Races /\ ~Reuse /\ ListIInv /\ RemovalInv /\ [DiscNext]_discVars => RemovalInv'
<1>. SUFFICES ASSUME ~Races, ~Reuse, ListIInv, RemovalInv, [DiscNext]_discVars PROVE RemovalInv'
  OBVIOUS
<1>1. CASE \E s \in Scans : Scan(s) \/ MergeScan(s) \/ Dedupe(s)
  BY <1>1, RidScan, RidMergeScan, RidDedupe DEF Scan
<1>2. CASE RefreshProbes \/ MergeRefresh \/ Forget
  BY <1>2, RidRefreshProbes, RidMergeRefresh, RidForget
<1>3. CASE \E h \in Hosts : AddByIP(h) \/ MissAges(h) \/ PinEnds(h)
  BY <1>3, RidAddByIP, RidClock
<1>4. CASE \E d \in Devices : Update(d) \/ Uninstall(d) \/ Reverts(d) \/ Installed(d) \/ AgentUp(d) \/ MemoryEnds(d)
  BY <1>4, RidUninstall, RidNet, RidClock
<1>5. CASE \E d \in Devices, h \in Hosts \cup {Nowhere} : Moves(d, h)
  BY <1>5, RidMoves DEF HostOrNone
<1>6. CASE (\E e \in echoes : EchoEnds(e)) \/ UNCHANGED discVars
  BY <1>6, RidClock
<1>. QED
  BY <1>1, <1>2, <1>3, <1>4, <1>5, <1>6 DEF DiscNext

\* It holds initially: nothing is remembered.
LEMMA RidStarts == DiscInit => RemovalInv
<1>. SUFFICES ASSUME DiscInit PROVE RemovalInv
  OBVIOUS
<1>1. Leases
  <2>1. /\ net \in [Devices -> [at : Hosts, sw : {"str", "stock"}, agent : BOOLEAN]]
        /\ \A d, e \in Devices : d # e => net[d].at # net[e].at
        /\ \A d \in Devices : net[d].agent = (net[d].sw = "str")
        /\ had = {<<net[d].at, d>> : d \in Devices} /\ echoes = {}
    BY DEF DiscInit
  <2>2. \A d \in Devices : net[d].at # Nowhere
    BY <2>1, DiscoveryAssumption DEF Nowhere
  <2>. QED
    BY <2>1, <2>2 DEF Leases
<1>2. \A h \in Hosts : /\ cache[h].kind = "none" /\ cache[h].id = "?" /\ refresh.seen[h] = NoTile
                      /\ \A s \in Scans : scans[s].found[h] = NoTile /\ scans[s].shown[h] = NoTile
  BY DEF DiscInit, NoEntry, Nothing, Resting
<1>3. TracesOwned
  <2>1. \A h \in Hosts : Of(h, cache[h])
    BY <1>2 DEF Of, Present
  <2>2. pins = {} /\ removing = Nowhere /\ \A d \in Devices : known[d] = Nowhere
    BY DEF DiscInit
  <2>. QED
    BY <1>2, <2>1, <2>2, NoTileOf DEF TracesOwned
<1>4. Removals
  BY DEF DiscInit, Removals
<1>. QED
  BY <1>1, <1>3, <1>4 DEF RemovalInv

\* It implies what the run checks.
LEMMA RidHolds == ListIInv /\ RemovalInv => Forgotten
<1>. SUFFICES ASSUME ListIInv, RemovalInv, removing = Nowhere, NEW d \in forgotten
              PROVE  known[d] = Nowhere /\ \A h \in Hosts : cache[h].id = d => cache[h].kind = "stock"
  BY DEF Forgotten
<1>1. DiscTypes
  BY DEF ListIInv
<1>2. d \in Devices /\ Rid(d) /\ d # "?"
  BY <1>1, AllRid, DiscoveryAssumption
<1>3. ASSUME NEW h \in Hosts, cache[h].id = d PROVE cache[h].kind = "stock"
  <2>1. Present(cache[h]) /\ <<h, d>> \in had
    BY <1>2, <1>3 DEF RemovalInv, TracesOwned, Of
  <2>2. cache[h].kind \in Kinds3
    BY <1>1 DEF DiscTypes
  <2>. QED
    BY <1>2, <2>1, <2>2 DEF Rid, Present, Kinds3
<1>. QED
  BY <1>2, <1>3 DEF Rid

-----------------------------------------------------------------------------
(***************************************************************************)
(* Installations and removals.                                             *)
(***************************************************************************)

\* Where a flow of the installer may be.
InstPlaces ==
  [install |-> {"idle", "preflight", "probe", "stage", "run", "reboot", "wait", "inject", "switch", "open", "reset", "recover"},
   remove  |-> {"idle", "shake", "clear", "inject", "switch", "open", "reset", "recover"}]
Unlocks == {"inject", "switch", "open", "reset", "recover"}
Verdicts == {"none", "closed", "already", "ssh", "failed", "timeout", "sent", "ok", "not up", "stick", "nothing", "removed"}
Hows == {"none", "stick", "ota", "bypass", "button", "unlock"}
InstFlows == [at : InstPlaces["install"] \cup InstPlaces["remove"], how : Hows, tries : {0, 1}, verdict : Verdicts]
Boxes ==
  [up : BOOLEAN, going : BOOLEAN, tap : BOOLEAN, http : BOOLEAN, usb : {"none", "good", "bad"},
   ssh : BOOLEAN, acct : BOOLEAN, agent : {"none", "old", "new"}]
Hosted == [sdk : {"stock", "injected"}, file : {"stock", "injected"}, switch : {"stock", "injected"}]
Scripts == [from : {"none", "stage", "stick"}, step : {"none", "rc", "run", "bin", "heal", "ok", "error"}]

InstTypes ==
  /\ box \in Boxes /\ urls \in Hosted /\ nand \in [Files -> {"none", "part", "whole"}] /\ script \in Scripts
  /\ flow \in [Flows -> InstFlows] /\ (\A f \in Flows : flow[f].at \in InstPlaces[f])
  /\ left \in BOOLEAN /\ kept \in {"none", "files", "all"}

\* One flow at a time; a report of a removal stands only until the next press.
OneFlowOnly ==
  /\ \E f \in Flows : AtRest(f)
  /\ flow["remove"].verdict = "removed" =>
       (\A f \in Flows : AtRest(f)) /\ nand = Clean /\ box.agent = "none"

\* The script runs in a session of the installation that started it.
InSession == script.step \in {"rc", "run", "bin", "heal"} => flow["install"].at = "run" /\ box.up /\ box.ssh

\* A script that ended well has left the files whole for the next boot, and the file of the SDK stock.
EndedWell ==
  /\ script.step = "ok" /\ box.agent = "new" => nand = Whole
  /\ flow["install"].at \in {"reboot", "wait"} => script.step = "ok"
  /\ flow["install"].at \in {"run", "reboot", "wait"} /\ script.step = "ok" =>
       urls.file = "stock" /\ (box.agent = "new" => urls.sdk = "stock")

KeptOK ==
  /\ kept # "none" => nand = Whole /\ script.step = "ok"
  /\ kept = "all" => /\ left \/ urls = StockURLs
                     /\ \A f \in Flows : flow[f].at \notin {"switch", "open"}

\* The switch is injected only while an unlock is under way, or after a restore that failed.
SwitchBack == urls.switch = "injected" /\ ~left => \E f \in Flows : flow[f].at \in Unlocks

InstIInv == InstTypes /\ OneFlowOnly /\ InSession /\ EndedWell /\ KeptOK /\ SwitchBack
Goes(f, at) ==
  /\ flow' \in [Flows -> InstFlows] /\ flow'[f].at = at /\ flow'[f].verdict = flow[f].verdict
  /\ \A g \in Flows : g # f => flow'[g] = flow[g]
Rests(f, verdict) ==
  /\ flow' \in [Flows -> InstFlows] /\ flow'[f].at = "idle" /\ flow'[f].verdict = verdict
  /\ \A g \in Flows : g # f => flow'[g] = flow[g]

\* The speaker and the places of its URLs stay what they are, whatever a step sets.
LEMMA BoxEdits ==
  ASSUME InstTypes
  PROVE  /\ [box EXCEPT !.acct = TRUE] \in Boxes /\ [box EXCEPT !.going = TRUE] \in Boxes
         /\ [box EXCEPT !.ssh = TRUE] \in Boxes /\ box \in Boxes
         /\ \A b \in BOOLEAN : [box EXCEPT !.going = b] \in Boxes
BY DEF InstTypes, Boxes

\* The same of the cloud URLs, whatever a reset manages to restore.
LEMMA URLEdits ==
  ASSUME InstTypes
  PROVE  /\ [urls EXCEPT !.sdk = "injected", !.file = "injected"] \in Hosted /\ urls \in Hosted
         /\ [urls EXCEPT !.switch = "injected"] \in Hosted
         /\ \A u \in ResetURLs : u \in Hosted /\ u.switch = "stock" /\ (urls = StockURLs => u = StockURLs)
         /\ \A u \in PartReset : u \in Hosted /\ (urls = StockURLs => u = StockURLs)
<1>1. ASSUME NEW u \in ResetURLs PROVE u \in Hosted /\ u.switch = "stock" /\ (urls = StockURLs => u = StockURLs)
  <2>1. PICK x \in {"stock", urls.file} : u = [sdk |-> "stock", file |-> x, switch |-> "stock"]
    BY DEF ResetURLs
  <2>. QED
    BY <2>1 DEF InstTypes, Hosted, StockURLs
<1>2. ASSUME NEW u \in PartReset PROVE u \in Hosted /\ (urls = StockURLs => u = StockURLs)
  BY DEF InstTypes, Hosted, PartReset, StockURLs
<1>3. [urls EXCEPT !.sdk = "injected", !.file = "injected"] \in Hosted
  BY DEF InstTypes, Hosted
<1>4. urls \in Hosted /\ [urls EXCEPT !.switch = "injected"] \in Hosted
  BY DEF InstTypes, Hosted
<1>. QED
  BY <1>1, <1>2, <1>3, <1>4

\* GoesOn moves one flow.
LEMMA FlowGoes ==
  ASSUME flow \in [Flows -> InstFlows], NEW f \in Flows, NEW at \in InstPlaces["install"] \cup InstPlaces["remove"], GoesOn(f, at)
  PROVE  Goes(f, at)
BY DEF GoesOn, InstFlows, Goes

\* Ends puts one flow to rest with a verdict.
LEMMA FlowEnds ==
  ASSUME flow \in [Flows -> InstFlows], NEW f \in Flows, NEW v \in Verdicts, Ends(f, v)
  PROVE  Rests(f, v)
<1>1. [Still EXCEPT !.verdict = v] \in InstFlows /\ [Still EXCEPT !.verdict = v].at = "idle" /\ [Still EXCEPT !.verdict = v].verdict = v
  BY DEF Still, InstFlows, InstPlaces, Hows
<1>. QED
  BY <1>1 DEF Ends, Rests

\* Copies takes one flow to the copying of the files.
LEMMA FlowCopies ==
  ASSUME flow \in [Flows -> InstFlows], NEW f \in Flows, NEW how \in Hows, Copies(f, how)
  PROVE  Goes(f, "stage")
<1>1. [flow[f] EXCEPT !.at = "stage", !.how = how] \in InstFlows
  BY DEF InstFlows, InstPlaces
<1>2. flow' = [flow EXCEPT ![f] = [flow[f] EXCEPT !.at = "stage", !.how = how]]
  BY DEF Copies
<1>. QED
  BY <1>1, <1>2 DEF InstFlows, Goes

\* A second try moves one flow.
LEMMA FlowTries ==
  ASSUME flow \in [Flows -> InstFlows], NEW f \in Flows, NEW at \in InstPlaces["install"] \cup InstPlaces["remove"],
         flow' = [flow EXCEPT ![f].at = at, ![f].tries = 1]
  PROVE  Goes(f, at)
<1>1. [flow[f] EXCEPT !.at = at, !.tries = 1] \in InstFlows
  BY DEF InstFlows
<1>2. flow' = [flow EXCEPT ![f] = [flow[f] EXCEPT !.at = at, !.tries = 1]]
  OBVIOUS
<1>. QED
  BY <1>1, <1>2 DEF InstFlows, Goes

\* The power goes, or the session ends: a copy under way may be torn, and its script has failed.
LEMMA CutShort ==
  ASSUME InstIInv, Dies, nand' \in Torn
  PROVE  /\ script' \in Scripts /\ nand' \in [Files -> {"none", "part", "whole"}]
         /\ script'.step \notin {"rc", "run", "bin", "heal"}
         /\ script.step \in {"none", "ok", "error"} => script' = script /\ nand' = nand
         /\ script'.step = "ok" => script.step = "ok"
         /\ script'.step # "ok" => kept = "none" \/ script.step # "ok"
BY DEF InstIInv, InstTypes, KeptOK, Dies, Torn, Scripts, Files

\* A reboot ends the session and clears what only the memory of the speaker held.
LEMMA GoesDownStep ==
  ASSUME InstIInv, ~Overlap, GoesDown
  PROVE  InstIInv'
<1>. USE DEF InstIInv, InstTypes, OneFlowOnly, InSession, EndedWell, KeptOK, SwitchBack, Flows, Files, AtRest,
    InstPlaces, Unlocks, StockURLs, Clean, Whole, SSH, Shell, Counted, BoxSame, Boxes, Hosted, Scripts
<1>1. script' \in Scripts /\ nand' \in [Files -> {"none", "part", "whole"}] /\
    script'.step \notin {"rc", "run", "bin", "heal"} /\
    (script.step \in {"none", "ok", "error"} => script' = script /\ nand' = nand) /\
    (script'.step = "ok" => script.step = "ok")
  BY CutShort DEF GoesDown
<1>c1. InstTypes'
  BY <1>1, ZenonT(60) DEF GoesDown
<1>c2. OneFlowOnly'
  BY <1>1 DEF GoesDown
<1>c3. InSession'
  BY <1>1 DEF GoesDown
<1>c4. EndedWell'
  BY <1>1 DEF GoesDown
<1>c5. KeptOK'
  BY <1>1 DEF GoesDown
<1>c6. SwitchBack'
  BY <1>1 DEF GoesDown
<1>. QED
  BY <1>c1, <1>c2, <1>c3, <1>c4, <1>c5, <1>c6 DEF InstIInv

\* A power cut may tear what is being copied.
LEMMA PowerCutStep ==
  ASSUME InstIInv, ~Overlap, PowerCut
  PROVE  InstIInv'
<1>. USE DEF InstIInv, InstTypes, OneFlowOnly, InSession, EndedWell, KeptOK, SwitchBack, Flows, Files, AtRest,
    InstPlaces, Unlocks, StockURLs, Clean, Whole, SSH, Shell, Counted, BoxSame, Boxes, Hosted, Scripts
<1>1. script' \in Scripts /\ nand' \in [Files -> {"none", "part", "whole"}] /\
    script'.step \notin {"rc", "run", "bin", "heal"} /\
    (script.step \in {"none", "ok", "error"} => script' = script /\ nand' = nand) /\
    (script'.step = "ok" => script.step = "ok")
  BY CutShort DEF PowerCut
<1>c1. InstTypes'
  BY <1>1, ZenonT(60) DEF PowerCut
<1>c2. OneFlowOnly'
  BY <1>1 DEF PowerCut
<1>c3. InSession'
  BY <1>1 DEF PowerCut
<1>c4. EndedWell'
  BY <1>1 DEF PowerCut
<1>c5. KeptOK'
  BY <1>1 DEF PowerCut
<1>c6. SwitchBack'
  BY <1>1 DEF PowerCut
<1>. QED
  BY <1>c1, <1>c2, <1>c3, <1>c4, <1>c5, <1>c6 DEF InstIInv

\* Whoever moves the stick moves nothing else.
LEMMA MovesUSBStep ==
  ASSUME InstIInv, ~Overlap, MovesUSB
  PROVE  InstIInv'
<1>. USE DEF InstIInv, InstTypes, OneFlowOnly, InSession, EndedWell, KeptOK, SwitchBack, Flows, Files, AtRest,
    InstPlaces, Unlocks, StockURLs, Clean, Whole, SSH, Shell, Counted, BoxSame, Boxes, Hosted, Scripts
<1>c1. InstTypes'
  BY DEF MovesUSB
<1>c2. OneFlowOnly'
  BY DEF MovesUSB
<1>c3. InSession'
  BY DEF MovesUSB
<1>c4. EndedWell'
  BY DEF MovesUSB
<1>c5. KeptOK'
  BY DEF MovesUSB
<1>c6. SwitchBack'
  BY DEF MovesUSB
<1>. QED
  BY <1>c1, <1>c2, <1>c3, <1>c4, <1>c5, <1>c6 DEF InstIInv

\* A stick left in updates the files whole, unless it is bad.
LEMMA SelfUpdates ==
  ASSUME nand \in [Files -> {"none", "part", "whole"}], NEW n \in SelfUpdate
  PROVE  /\ n \in [Files -> {"none", "part", "whole"}]
         /\ n = nand \/ n = Whole \/ box.usb = "bad"
         /\ nand.rc # "whole" => n = nand
BY DEF SelfUpdate, Whole, Files

\* An agent runs after a boot only with the whole of STR on flash.
LEMMA BootsStep ==
  ASSUME InstIInv, ~Overlap, Boots
  PROVE  InstIInv'
<1>. USE DEF InstIInv, InstTypes, OneFlowOnly, InSession, EndedWell, KeptOK, SwitchBack, Flows, Files, AtRest,
    InstPlaces, Unlocks, StockURLs, Clean, Whole, SSH, Shell, Counted, BoxSame, Boxes, Hosted, Scripts
<1>1. /\ nand' \in [Files -> {"none", "part", "whole"}] /\ (nand' = nand \/ nand' = Whole \/ box.usb = "bad")
      /\ nand.rc # "whole" => nand' = nand
  BY SelfUpdates DEF Boots
<1>2. /\ box' \in Boxes /\ box'.up
      /\ box'.agent = (IF nand' = Whole THEN "new" ELSE "none")
  BY ZenonT(60) DEF Boots, Runs
<1>3. urls' \in Hosted /\ urls'.sdk = urls.file /\ urls'.switch = urls.switch /\ urls'.file \in {"stock", urls.file}
  BY DEF Boots
<1>4. script' = script /\ flow' = flow /\ left' = left /\ kept' = (IF box.usb = "bad" THEN "none" ELSE kept) /\
    ~box.up
  BY DEF Boots
<1>c1. InstTypes'
  BY <1>1, <1>2, <1>3, <1>4
<1>c2. OneFlowOnly'
  BY <1>1, <1>2, <1>3, <1>4
<1>c3. InSession'
  BY <1>1, <1>2, <1>3, <1>4
<1>c4. EndedWell'
  BY <1>1, <1>2, <1>3, <1>4
<1>c5. KeptOK'
  BY <1>1, <1>2, <1>3, <1>4
<1>c6. SwitchBack'
  BY <1>1, <1>2, <1>3, <1>4
<1>. QED
  BY <1>c1, <1>c2, <1>c3, <1>c4, <1>c5, <1>c6 DEF InstIInv

\* The script ends well with the file of the SDK healed, and without an agent of the new boot.
LEMMA StepStep ==
  ASSUME InstIInv, ~Overlap, Step
  PROVE  InstIInv'
<1>. USE DEF InstIInv, InstTypes, OneFlowOnly, InSession, EndedWell, KeptOK, SwitchBack, Flows, Files, AtRest,
    InstPlaces, Unlocks, StockURLs, Clean, Whole, SSH, Shell, Counted, BoxSame, Boxes, Hosted, Scripts
<1>0. flow' = flow /\ left' = left /\ kept' = kept /\ box.up /\ script.step \in {"rc", "run", "bin", "heal"}
  BY DEF Step, After
<1>1. CASE /\ box' = box /\ urls' = urls /\ nand' \in [Files -> {"none", "part", "whole"}]
           /\ script' \in Scripts /\ script'.step \in {"run", "bin", "heal", "error"}
  <2>c1. InstTypes'
    BY <1>0, <1>1
  <2>c2. OneFlowOnly'
    BY <1>0, <1>1
  <2>c3. InSession'
    BY <1>0, <1>1
  <2>c4. EndedWell'
    BY <1>0, <1>1
  <2>c5. KeptOK'
    BY <1>0, <1>1
  <2>c6. SwitchBack'
    BY <1>0, <1>1
  <2>. QED
    BY <2>c1, <2>c2, <2>c3, <2>c4, <2>c5, <2>c6 DEF InstIInv
<1>2. CASE /\ script.step = "heal" /\ Steps("ok") /\ urls' = [urls EXCEPT !.file = "stock"]
           /\ box' = [box EXCEPT !.agent = IF @ = "none" THEN @ ELSE "old"] /\ UNCHANGED nand
  <2>c1. InstTypes'
    BY <1>0, <1>2 DEF Steps
  <2>c2. OneFlowOnly'
    BY <1>0, <1>2 DEF Steps
  <2>c3. InSession'
    BY <1>0, <1>2 DEF Steps
  <2>c4. EndedWell'
    BY <1>0, <1>2 DEF Steps
  <2>c5. KeptOK'
    BY <1>0, <1>2 DEF Steps
  <2>c6. SwitchBack'
    BY <1>0, <1>2 DEF Steps
  <2>. QED
    BY <2>c1, <2>c2, <2>c3, <2>c4, <2>c5, <2>c6 DEF InstIInv
<1>3. ASSUME NEW to \in {"run", "bin", "heal", "error"}, Steps(to)
      PROVE  script' \in Scripts /\ script'.step \in {"run", "bin", "heal", "error"}
  BY <1>3 DEF Steps
<1>4. ASSUME NEW f \in Files, NEW v \in {"none", "part", "whole"} PROVE [nand EXCEPT ![f] = v] \in [Files -> {"none", "part", "whole"}]
  OBVIOUS
<1>5. ASSUME script.step \in Files PROVE After[script.step] \in {"run", "bin", "heal", "error"}
  BY <1>5 DEF After
<1>. HIDE DEF After
<1>6. CASE script.step \in Files
  <2>1. box' = box /\ urls' = urls
    BY <1>6 DEF Step
  <2>2. nand' \in [Files -> {"none", "part", "whole"}]
    BY <1>4, <1>6 DEF Step
  <2>3. \E to \in {"run", "bin", "heal", "error"} : Steps(to)
    BY <1>5, <1>6 DEF Step
  <2>. QED
    BY <2>1, <2>2, <2>3, <1>3, <1>1
<1>7. CASE script.step = "heal"
  BY <1>2, <1>7 DEF Step
<1>. QED
  BY <1>0, <1>6, <1>7

\* An injection ends what an installation vouched for of the URLs, and of nothing else.
LEMMA InjectStep ==
  ASSUME InstIInv, ~Overlap, NEW f \in Flows, Inject(f)
  PROVE  InstIInv'
<1>a. box' \in Boxes
  BY BoxEdits DEF Inject, InstIInv
<1>b. urls' \in Hosted
  BY URLEdits DEF Inject, InstIInv
<1>. USE DEF InstIInv, InstTypes, OneFlowOnly, InSession, EndedWell, KeptOK, SwitchBack, Flows, Files, AtRest,
    InstPlaces, Unlocks, StockURLs, Clean, Whole, SSH, Shell, Counted, BoxSame, Boxes, Hosted, Scripts
<1>c. kept' \in {"none", "files", "all"} /\ nand' = nand /\ script' = script /\ left' = left
  BY DEF Inject
<1>1. CASE GoesOn(f, "recover")
  <2>1. Goes(f, "recover")
    BY <1>1, FlowGoes DEF Hows
  <2>c1. InstTypes'
    BY <1>1, <2>1, <1>a, <1>b, <1>c DEF Inject, Goes
  <2>c2. OneFlowOnly'
    BY <1>1, <2>1, <1>a, <1>b, <1>c DEF Inject, Goes
  <2>c3. InSession'
    BY <1>1, <2>1, <1>a, <1>b, <1>c DEF Inject, Goes
  <2>c4. EndedWell'
    BY <1>1, <2>1, <1>a, <1>b, <1>c DEF Inject, Goes
  <2>c5. KeptOK'
    BY <1>1, <2>1, <1>a, <1>b, <1>c DEF Inject, Goes
  <2>c6. SwitchBack'
    BY <1>1, <2>1, <1>a, <1>b, <1>c DEF Inject, Goes
  <2>. QED
    BY <2>c1, <2>c2, <2>c3, <2>c4, <2>c5, <2>c6 DEF InstIInv
<1>2. CASE GoesOn(f, "switch") /\ urls' = [urls EXCEPT !.sdk = "injected", !.file = "injected"] /\ kept' = (IF kept = "all" THEN "files" ELSE kept)
  <2>1. Goes(f, "switch")
    BY <1>2, FlowGoes DEF Hows
  <2>c1. InstTypes'
    BY <1>2, <2>1, <1>a, <1>b, <1>c DEF Inject, Goes
  <2>c2. OneFlowOnly'
    BY <1>2, <2>1, <1>a, <1>b, <1>c DEF Inject, Goes
  <2>c3. InSession'
    BY <1>2, <2>1, <1>a, <1>b, <1>c DEF Inject, Goes
  <2>c4. EndedWell'
    BY <1>2, <2>1, <1>a, <1>b, <1>c DEF Inject, Goes
  <2>c5. KeptOK'
    BY <1>2, <2>1, <1>a, <1>b, <1>c DEF Inject, Goes
  <2>c6. SwitchBack'
    BY <1>2, <2>1, <1>a, <1>b, <1>c DEF Inject, Goes
  <2>. QED
    BY <2>c1, <2>c2, <2>c3, <2>c4, <2>c5, <2>c6 DEF InstIInv
<1>. QED
  BY <1>1, <1>2 DEF Inject

\* The switch of the cloud is injected during an unlock only.
LEMMA SwitchStep ==
  ASSUME InstIInv, ~Overlap, NEW f \in Flows, Switch(f)
  PROVE  InstIInv'
<1>a. box' \in Boxes
  BY BoxEdits DEF Switch, InstIInv
<1>b. urls' \in Hosted
  BY URLEdits DEF Switch, InstIInv
<1>. USE DEF InstIInv, InstTypes, OneFlowOnly, InSession, EndedWell, KeptOK, SwitchBack, Flows, Files, AtRest,
    InstPlaces, Unlocks, StockURLs, Clean, Whole, SSH, Shell, Counted, BoxSame, Boxes, Hosted, Scripts
<1>1. CASE GoesOn(f, "recover")
  <2>1. Goes(f, "recover")
    BY <1>1, FlowGoes DEF Hows
  <2>c1. InstTypes'
    BY <1>1, <2>1, <1>a, <1>b DEF Switch, Goes
  <2>c2. OneFlowOnly'
    BY <1>1, <2>1, <1>a, <1>b DEF Switch, Goes
  <2>c3. InSession'
    BY <1>1, <2>1, <1>a, <1>b DEF Switch, Goes
  <2>c4. EndedWell'
    BY <1>1, <2>1, <1>a, <1>b DEF Switch, Goes
  <2>c5. KeptOK'
    BY <1>1, <2>1, <1>a, <1>b DEF Switch, Goes
  <2>c6. SwitchBack'
    BY <1>1, <2>1, <1>a, <1>b DEF Switch, Goes
  <2>. QED
    BY <2>c1, <2>c2, <2>c3, <2>c4, <2>c5, <2>c6 DEF InstIInv
<1>2. CASE GoesOn(f, "open")
  <2>1. Goes(f, "open")
    BY <1>2, FlowGoes DEF Hows
  <2>c1. InstTypes'
    BY <1>2, <2>1, <1>a, <1>b DEF Switch, Goes
  <2>c2. OneFlowOnly'
    BY <1>2, <2>1, <1>a, <1>b DEF Switch, Goes
  <2>c3. InSession'
    BY <1>2, <2>1, <1>a, <1>b DEF Switch, Goes
  <2>c4. EndedWell'
    BY <1>2, <2>1, <1>a, <1>b DEF Switch, Goes
  <2>c5. KeptOK'
    BY <1>2, <2>1, <1>a, <1>b DEF Switch, Goes
  <2>c6. SwitchBack'
    BY <1>2, <2>1, <1>a, <1>b DEF Switch, Goes
  <2>. QED
    BY <2>c1, <2>c2, <2>c3, <2>c4, <2>c5, <2>c6 DEF InstIInv
<1>. QED
  BY <1>1, <1>2 DEF Switch

\* An unlock goes on to reset the URLs, tries once more, or gives up.
LEMMA OpensStep ==
  ASSUME InstIInv, ~Overlap, NEW f \in Flows, Opens(f)
  PROVE  InstIInv'
<1>. USE DEF InstIInv, InstTypes, OneFlowOnly, InSession, EndedWell, KeptOK, SwitchBack, Flows, Files, AtRest,
    InstPlaces, Unlocks, StockURLs, Clean, Whole, SSH, Shell, Counted, BoxSame, Boxes, Hosted, Scripts
<1>1. CASE GoesOn(f, "recover")
  <2>1. Goes(f, "recover")
    BY <1>1, FlowGoes DEF Hows
  <2>c1. InstTypes'
    BY <1>1, <2>1 DEF Opens, Goes
  <2>c2. OneFlowOnly'
    BY <1>1, <2>1 DEF Opens, Goes
  <2>c3. InSession'
    BY <1>1, <2>1 DEF Opens, Goes
  <2>c4. EndedWell'
    BY <1>1, <2>1 DEF Opens, Goes
  <2>c5. KeptOK'
    BY <1>1, <2>1 DEF Opens, Goes
  <2>c6. SwitchBack'
    BY <1>1, <2>1 DEF Opens, Goes
  <2>. QED
    BY <2>c1, <2>c2, <2>c3, <2>c4, <2>c5, <2>c6 DEF InstIInv
<1>2. CASE GoesOn(f, "reset")
  <2>1. Goes(f, "reset")
    BY <1>2, FlowGoes DEF Hows
  <2>c1. InstTypes'
    BY <1>2, <2>1 DEF Opens, Goes
  <2>c2. OneFlowOnly'
    BY <1>2, <2>1 DEF Opens, Goes
  <2>c3. InSession'
    BY <1>2, <2>1 DEF Opens, Goes
  <2>c4. EndedWell'
    BY <1>2, <2>1 DEF Opens, Goes
  <2>c5. KeptOK'
    BY <1>2, <2>1 DEF Opens, Goes
  <2>c6. SwitchBack'
    BY <1>2, <2>1 DEF Opens, Goes
  <2>. QED
    BY <2>c1, <2>c2, <2>c3, <2>c4, <2>c5, <2>c6 DEF InstIInv
<1>3. CASE flow' = [flow EXCEPT ![f].at = "inject", ![f].tries = 1]
  <2>1. Goes(f, "inject")
    BY <1>3, FlowTries, ZenonT(60)
  <2>c1. InstTypes'
    BY <1>3, <2>1 DEF Opens, Goes
  <2>c2. OneFlowOnly'
    BY <1>3, <2>1 DEF Opens, Goes
  <2>c3. InSession'
    BY <1>3, <2>1 DEF Opens, Goes
  <2>c4. EndedWell'
    BY <1>3, <2>1 DEF Opens, Goes
  <2>c5. KeptOK'
    BY <1>3, <2>1 DEF Opens, Goes
  <2>c6. SwitchBack'
    BY <1>3, <2>1 DEF Opens, Goes
  <2>. QED
    BY <2>c1, <2>c2, <2>c3, <2>c4, <2>c5, <2>c6 DEF InstIInv
<1>. QED
  BY <1>1, <1>2, <1>3 DEF Opens

\* A reset restores the URLs, or notes that it left some.
LEMMA ResetStep ==
  ASSUME InstIInv, ~Overlap, NEW f \in Flows, Reset(f)
  PROVE  InstIInv'
<1>a. urls' \in Hosted /\ (urls = StockURLs => urls' = StockURLs) /\ (urls'.switch = "stock" \/ left')
  BY URLEdits DEF Reset, InstIInv
<1>l. left' = left \/ left' = TRUE
  BY DEF Reset
<1>b. left' \in BOOLEAN /\ (left => left')
  BY <1>l DEF InstIInv, InstTypes
<1>. USE DEF InstIInv, InstTypes, OneFlowOnly, InSession, EndedWell, KeptOK, SwitchBack, Flows, Files, AtRest,
    InstPlaces, Unlocks, StockURLs, Clean, Whole, SSH, Shell, Counted, BoxSame, Boxes, Hosted, Scripts
<1>1. CASE f = "install" /\ Copies(f, "unlock")
  <2>1. Goes(f, "stage")
    BY <1>1, FlowCopies DEF Hows
  <2>c1. InstTypes'
    BY <1>1, <2>1, <1>a, <1>b DEF Reset, Goes
  <2>c2. OneFlowOnly'
    BY <1>1, <2>1, <1>a, <1>b DEF Reset, Goes
  <2>c3. InSession'
    BY <1>1, <2>1, <1>a, <1>b DEF Reset, Goes
  <2>c4. EndedWell'
    BY <1>1, <2>1, <1>a, <1>b DEF Reset, Goes
  <2>c5. KeptOK'
    BY <1>1, <2>1, <1>a, <1>b DEF Reset, Goes
  <2>c6. SwitchBack'
    BY <1>1, <2>1, <1>a, <1>b DEF Reset, Goes
  <2>. QED
    BY <2>c1, <2>c2, <2>c3, <2>c4, <2>c5, <2>c6 DEF InstIInv
<1>2. CASE f = "remove" /\ GoesOn(f, "clear")
  <2>1. Goes(f, "clear")
    BY <1>2, FlowGoes DEF Hows
  <2>c1. InstTypes'
    BY <1>2, <2>1, <1>a, <1>b DEF Reset, Goes
  <2>c2. OneFlowOnly'
    BY <1>2, <2>1, <1>a, <1>b DEF Reset, Goes
  <2>c3. InSession'
    BY <1>2, <2>1, <1>a, <1>b DEF Reset, Goes
  <2>c4. EndedWell'
    BY <1>2, <2>1, <1>a, <1>b DEF Reset, Goes
  <2>c5. KeptOK'
    BY <1>2, <2>1, <1>a, <1>b DEF Reset, Goes
  <2>c6. SwitchBack'
    BY <1>2, <2>1, <1>a, <1>b DEF Reset, Goes
  <2>. QED
    BY <2>c1, <2>c2, <2>c3, <2>c4, <2>c5, <2>c6 DEF InstIInv
<1>. QED
  BY <1>1, <1>2 DEF Reset

\* So does the restore of a flow that gives up.
LEMMA RecoverStep ==
  ASSUME InstIInv, ~Overlap, NEW f \in Flows, Recover(f)
  PROVE  InstIInv'
<1>a. urls' \in Hosted /\ (urls = StockURLs => urls' = StockURLs) /\ (urls'.switch = "stock" \/ left')
  BY URLEdits DEF Recover, InstIInv
<1>l. left' = left \/ left' = TRUE
  BY DEF Recover
<1>b. left' \in BOOLEAN /\ (left => left')
  BY <1>l DEF InstIInv, InstTypes
<1>. USE DEF InstIInv, InstTypes, OneFlowOnly, InSession, EndedWell, KeptOK, SwitchBack, Flows, Files, AtRest,
    InstPlaces, Unlocks, StockURLs, Clean, Whole, SSH, Shell, Counted, BoxSame, Boxes, Hosted, Scripts
<1>1. Rests(f, "closed")
  BY FlowEnds, ZenonT(60) DEF Recover, Verdicts
<1>2. box' \in Boxes
  BY BoxEdits DEF Recover
<1>c1. InstTypes'
  BY <1>a, <1>b, <1>1, <1>2 DEF Recover, Rests
<1>c2. OneFlowOnly'
  BY <1>a, <1>b, <1>1, <1>2 DEF Recover, Rests
<1>c3. InSession'
  BY <1>a, <1>b, <1>1, <1>2 DEF Recover, Rests
<1>c4. EndedWell'
  BY <1>a, <1>b, <1>1, <1>2 DEF Recover, Rests
<1>c5. KeptOK'
  BY <1>a, <1>b, <1>1, <1>2 DEF Recover, Rests
<1>c6. SwitchBack'
  BY <1>a, <1>b, <1>1, <1>2 DEF Recover, Rests
<1>. QED
  BY <1>c1, <1>c2, <1>c3, <1>c4, <1>c5, <1>c6 DEF InstIInv

\* A press starts a flow when none is under way.
LEMMA BeginStep ==
  ASSUME InstIInv, ~Overlap, NEW f \in Flows, NEW at \in {"preflight", "stage", "shake"}, NEW how \in Hows, Begin(f, at, how),
         f = "remove" <=> at = "shake"
  PROVE  InstIInv'
<1>1. [Still EXCEPT !.at = at, !.how = how] \in InstFlows /\ Still \in InstFlows
  BY DEF Still, InstFlows, InstPlaces, Hows, Verdicts
<1>2. flow' = [g \in Flows |-> IF g = f THEN [Still EXCEPT !.at = at, !.how = how] ELSE Still]
  BY DEF Begin, Allowed
<1>3. /\ flow' \in [Flows -> InstFlows] /\ flow'[f].at = at /\ flow'[f].verdict = "none"
      /\ \A g \in Flows : g # f => flow'[g].at = "idle" /\ flow'[g].verdict = "none"
  BY <1>1, <1>2 DEF Still
<1>4. \A g \in Flows : AtRest(g)
  BY DEF Begin, Allowed
<1>. USE DEF InstIInv, InstTypes, OneFlowOnly, InSession, EndedWell, KeptOK, SwitchBack, Flows, Files, AtRest,
    InstPlaces, Unlocks, StockURLs, Clean, Whole, SSH, Shell, Counted, BoxSame, Boxes, Hosted, Scripts
<1>c1. InstTypes'
  BY <1>3, <1>4 DEF Begin
<1>c2. OneFlowOnly'
  BY <1>3, <1>4 DEF Begin
<1>c3. InSession'
  BY <1>3, <1>4 DEF Begin
<1>c4. EndedWell'
  BY <1>3, <1>4 DEF Begin
<1>c5. KeptOK'
  BY <1>3, <1>4 DEF Begin
<1>c6. SwitchBack'
  BY <1>3, <1>4 DEF Begin
<1>. QED
  BY <1>c1, <1>c2, <1>c3, <1>c4, <1>c5, <1>c6 DEF InstIInv

\* The preflight ends an installation that is not needed, and picks the way of the others.
LEMMA CheckFirstStep ==
  ASSUME InstIInv, ~Overlap, CheckFirst
  PROVE  InstIInv'
<1>. USE DEF InstIInv, InstTypes, OneFlowOnly, InSession, EndedWell, KeptOK, SwitchBack, Flows, Files, AtRest,
    InstPlaces, Unlocks, StockURLs, Clean, Whole, SSH, Shell, Counted, BoxSame, Boxes, Hosted, Scripts
<1>1. CASE GoesOn("install", "probe")
  <2>1. Goes("install", "probe")
    BY <1>1, FlowGoes DEF Hows
  <2>c1. InstTypes'
    BY <1>1, <2>1 DEF CheckFirst, Goes
  <2>c2. OneFlowOnly'
    BY <1>1, <2>1 DEF CheckFirst, Goes
  <2>c3. InSession'
    BY <1>1, <2>1 DEF CheckFirst, Goes
  <2>c4. EndedWell'
    BY <1>1, <2>1 DEF CheckFirst, Goes
  <2>c5. KeptOK'
    BY <1>1, <2>1 DEF CheckFirst, Goes
  <2>c6. SwitchBack'
    BY <1>1, <2>1 DEF CheckFirst, Goes
  <2>. QED
    BY <2>c1, <2>c2, <2>c3, <2>c4, <2>c5, <2>c6 DEF InstIInv
<1>2. CASE GoesOn("install", "inject")
  <2>1. Goes("install", "inject")
    BY <1>2, FlowGoes DEF Hows
  <2>c1. InstTypes'
    BY <1>2, <2>1 DEF CheckFirst, Goes
  <2>c2. OneFlowOnly'
    BY <1>2, <2>1 DEF CheckFirst, Goes
  <2>c3. InSession'
    BY <1>2, <2>1 DEF CheckFirst, Goes
  <2>c4. EndedWell'
    BY <1>2, <2>1 DEF CheckFirst, Goes
  <2>c5. KeptOK'
    BY <1>2, <2>1 DEF CheckFirst, Goes
  <2>c6. SwitchBack'
    BY <1>2, <2>1 DEF CheckFirst, Goes
  <2>. QED
    BY <2>c1, <2>c2, <2>c3, <2>c4, <2>c5, <2>c6 DEF InstIInv
<1>3. CASE Ends("install", "already")
  <2>1. Rests("install", "already")
    BY <1>3, FlowEnds DEF Verdicts
  <2>c1. InstTypes'
    BY <1>3, <2>1 DEF CheckFirst, Rests
  <2>c2. OneFlowOnly'
    BY <1>3, <2>1 DEF CheckFirst, Rests
  <2>c3. InSession'
    BY <1>3, <2>1 DEF CheckFirst, Rests
  <2>c4. EndedWell'
    BY <1>3, <2>1 DEF CheckFirst, Rests
  <2>c5. KeptOK'
    BY <1>3, <2>1 DEF CheckFirst, Rests
  <2>c6. SwitchBack'
    BY <1>3, <2>1 DEF CheckFirst, Rests
  <2>. QED
    BY <2>c1, <2>c2, <2>c3, <2>c4, <2>c5, <2>c6 DEF InstIInv
<1>4. CASE Ends("install", "closed")
  <2>1. Rests("install", "closed")
    BY <1>4, FlowEnds DEF Verdicts
  <2>c1. InstTypes'
    BY <1>4, <2>1 DEF CheckFirst, Rests
  <2>c2. OneFlowOnly'
    BY <1>4, <2>1 DEF CheckFirst, Rests
  <2>c3. InSession'
    BY <1>4, <2>1 DEF CheckFirst, Rests
  <2>c4. EndedWell'
    BY <1>4, <2>1 DEF CheckFirst, Rests
  <2>c5. KeptOK'
    BY <1>4, <2>1 DEF CheckFirst, Rests
  <2>c6. SwitchBack'
    BY <1>4, <2>1 DEF CheckFirst, Rests
  <2>. QED
    BY <2>c1, <2>c2, <2>c3, <2>c4, <2>c5, <2>c6 DEF InstIInv
<1>. QED
  BY <1>1, <1>2, <1>3, <1>4 DEF CheckFirst

\* The installation from a stick goes on to the script.
LEMMA FlowRuns ==
  ASSUME flow \in [Flows -> InstFlows], flow' = [flow EXCEPT !["install"].at = "run", !["install"].how = "stick"]
  PROVE  Goes("install", "run")
<1>1. [flow["install"] EXCEPT !.at = "run", !.how = "stick"] \in InstFlows
  BY DEF InstFlows, Flows, InstPlaces, Hows
<1>2. flow' = [flow EXCEPT !["install"] = [flow["install"] EXCEPT !.at = "run", !.how = "stick"]]
  OBVIOUS
<1>. QED
  BY <1>1, <1>2 DEF InstFlows, Goes, Flows

\* The probe starts the script of a stick, or goes on to stage the files.
LEMMA ProbeStep ==
  ASSUME InstIInv, ~Overlap, Probe
  PROVE  InstIInv'
<1>. USE DEF InstIInv, InstTypes, OneFlowOnly, InSession, EndedWell, KeptOK, SwitchBack, Flows, Files, AtRest,
    InstPlaces, Unlocks, StockURLs, Clean, Whole, SSH, Shell, Counted, BoxSame, Boxes, Hosted, Scripts
<1>1. CASE SSH /\ Begins("stick") /\ flow' = [flow EXCEPT !["install"].at = "run", !["install"].how = "stick"]
  <2>1. Goes("install", "run")
    BY <1>1, FlowRuns
  <2>c1. InstTypes'
    BY <1>1, <2>1 DEF Probe, Begins, Goes
  <2>c2. OneFlowOnly'
    BY <1>1, <2>1 DEF Probe, Begins, Goes
  <2>c3. InSession'
    BY <1>1, <2>1 DEF Probe, Begins, Goes
  <2>c4. EndedWell'
    BY <1>1, <2>1 DEF Probe, Begins, Goes
  <2>c5. KeptOK'
    BY <1>1, <2>1 DEF Probe, Begins, Goes
  <2>c6. SwitchBack'
    BY <1>1, <2>1 DEF Probe, Begins, Goes
  <2>. QED
    BY <2>c1, <2>c2, <2>c3, <2>c4, <2>c5, <2>c6 DEF InstIInv
<1>2. CASE Copies("install", "ota") /\ UNCHANGED <<script, kept>>
  <2>1. Goes("install", "stage")
    BY <1>2, FlowCopies DEF Hows
  <2>c1. InstTypes'
    BY <1>2, <2>1 DEF Probe, Goes
  <2>c2. OneFlowOnly'
    BY <1>2, <2>1 DEF Probe, Goes
  <2>c3. InSession'
    BY <1>2, <2>1 DEF Probe, Goes
  <2>c4. EndedWell'
    BY <1>2, <2>1 DEF Probe, Goes
  <2>c5. KeptOK'
    BY <1>2, <2>1 DEF Probe, Goes
  <2>c6. SwitchBack'
    BY <1>2, <2>1 DEF Probe, Goes
  <2>. QED
    BY <2>c1, <2>c2, <2>c3, <2>c4, <2>c5, <2>c6 DEF InstIInv
<1>3. CASE Ends("install", "ssh") /\ UNCHANGED <<script, kept>>
  <2>1. Rests("install", "ssh")
    BY <1>3, FlowEnds DEF Verdicts
  <2>c1. InstTypes'
    BY <1>3, <2>1 DEF Probe, Rests
  <2>c2. OneFlowOnly'
    BY <1>3, <2>1 DEF Probe, Rests
  <2>c3. InSession'
    BY <1>3, <2>1 DEF Probe, Rests
  <2>c4. EndedWell'
    BY <1>3, <2>1 DEF Probe, Rests
  <2>c5. KeptOK'
    BY <1>3, <2>1 DEF Probe, Rests
  <2>c6. SwitchBack'
    BY <1>3, <2>1 DEF Probe, Rests
  <2>. QED
    BY <2>c1, <2>c2, <2>c3, <2>c4, <2>c5, <2>c6 DEF InstIInv
<1>. QED
  BY <1>1, <1>2, <1>3 DEF Probe

\* Staging starts the script in a session of its own.
LEMMA StageFilesStep ==
  ASSUME InstIInv, ~Overlap, StageFiles
  PROVE  InstIInv'
<1>. USE DEF InstIInv, InstTypes, OneFlowOnly, InSession, EndedWell, KeptOK, SwitchBack, Flows, Files, AtRest,
    InstPlaces, Unlocks, StockURLs, Clean, Whole, SSH, Shell, Counted, BoxSame, Boxes, Hosted, Scripts
<1>1. CASE SSH /\ Begins("stage") /\ GoesOn("install", "run")
  <2>1. Goes("install", "run")
    BY <1>1, FlowGoes DEF Hows
  <2>c1. InstTypes'
    BY <1>1, <2>1 DEF StageFiles, Begins, Goes
  <2>c2. OneFlowOnly'
    BY <1>1, <2>1 DEF StageFiles, Begins, Goes
  <2>c3. InSession'
    BY <1>1, <2>1 DEF StageFiles, Begins, Goes
  <2>c4. EndedWell'
    BY <1>1, <2>1 DEF StageFiles, Begins, Goes
  <2>c5. KeptOK'
    BY <1>1, <2>1 DEF StageFiles, Begins, Goes
  <2>c6. SwitchBack'
    BY <1>1, <2>1 DEF StageFiles, Begins, Goes
  <2>. QED
    BY <2>c1, <2>c2, <2>c3, <2>c4, <2>c5, <2>c6 DEF InstIInv
<1>2. CASE Ends("install", "failed") /\ UNCHANGED <<script, kept>>
  <2>1. Rests("install", "failed")
    BY <1>2, FlowEnds DEF Verdicts
  <2>c1. InstTypes'
    BY <1>2, <2>1 DEF StageFiles, Rests
  <2>c2. OneFlowOnly'
    BY <1>2, <2>1 DEF StageFiles, Rests
  <2>c3. InSession'
    BY <1>2, <2>1 DEF StageFiles, Rests
  <2>c4. EndedWell'
    BY <1>2, <2>1 DEF StageFiles, Rests
  <2>c5. KeptOK'
    BY <1>2, <2>1 DEF StageFiles, Rests
  <2>c6. SwitchBack'
    BY <1>2, <2>1 DEF StageFiles, Rests
  <2>. QED
    BY <2>c1, <2>c2, <2>c3, <2>c4, <2>c5, <2>c6 DEF InstIInv
<1>. QED
  BY <1>1, <1>2 DEF StageFiles

\* The app reads how the script ended, and reboots only after a good end.
LEMMA ScriptEndsStep ==
  ASSUME InstIInv, ~Overlap, ScriptEnds
  PROVE  InstIInv'
<1>. USE DEF InstIInv, InstTypes, OneFlowOnly, InSession, EndedWell, KeptOK, SwitchBack, Flows, Files, AtRest,
    InstPlaces, Unlocks, StockURLs, Clean, Whole, SSH, Shell, Counted, BoxSame, Boxes, Hosted, Scripts
<1>1. CASE script.step = "ok" /\ GoesOn("install", "reboot")
  <2>1. Goes("install", "reboot")
    BY <1>1, FlowGoes DEF Hows
  <2>c1. InstTypes'
    BY <1>1, <2>1 DEF ScriptEnds, Goes
  <2>c2. OneFlowOnly'
    BY <1>1, <2>1 DEF ScriptEnds, Goes
  <2>c3. InSession'
    BY <1>1, <2>1 DEF ScriptEnds, Goes
  <2>c4. EndedWell'
    BY <1>1, <2>1 DEF ScriptEnds, Goes
  <2>c5. KeptOK'
    BY <1>1, <2>1 DEF ScriptEnds, Goes
  <2>c6. SwitchBack'
    BY <1>1, <2>1 DEF ScriptEnds, Goes
  <2>. QED
    BY <2>c1, <2>c2, <2>c3, <2>c4, <2>c5, <2>c6 DEF InstIInv
<1>2. CASE script.step = "error" /\ Copies("install", "bypass")
  <2>1. Goes("install", "stage")
    BY <1>2, FlowCopies DEF Hows
  <2>c1. InstTypes'
    BY <1>2, <2>1 DEF ScriptEnds, Goes
  <2>c2. OneFlowOnly'
    BY <1>2, <2>1 DEF ScriptEnds, Goes
  <2>c3. InSession'
    BY <1>2, <2>1 DEF ScriptEnds, Goes
  <2>c4. EndedWell'
    BY <1>2, <2>1 DEF ScriptEnds, Goes
  <2>c5. KeptOK'
    BY <1>2, <2>1 DEF ScriptEnds, Goes
  <2>c6. SwitchBack'
    BY <1>2, <2>1 DEF ScriptEnds, Goes
  <2>. QED
    BY <2>c1, <2>c2, <2>c3, <2>c4, <2>c5, <2>c6 DEF InstIInv
<1>3. CASE (script.step = "error" \/ ~SSH) /\ Ends("install", "failed")
  <2>1. Rests("install", "failed")
    BY <1>3, FlowEnds DEF Verdicts
  <2>c1. InstTypes'
    BY <1>3, <2>1 DEF ScriptEnds, Rests
  <2>c2. OneFlowOnly'
    BY <1>3, <2>1 DEF ScriptEnds, Rests
  <2>c3. InSession'
    BY <1>3, <2>1 DEF ScriptEnds, Rests
  <2>c4. EndedWell'
    BY <1>3, <2>1 DEF ScriptEnds, Rests
  <2>c5. KeptOK'
    BY <1>3, <2>1 DEF ScriptEnds, Rests
  <2>c6. SwitchBack'
    BY <1>3, <2>1 DEF ScriptEnds, Rests
  <2>. QED
    BY <2>c1, <2>c2, <2>c3, <2>c4, <2>c5, <2>c6 DEF InstIInv
<1>. QED
  BY <1>1, <1>2, <1>3 DEF ScriptEnds

\* A session that timed out ends the installation, with its script.
LEMMA RunTimesOutStep ==
  ASSUME InstIInv, ~Overlap, RunTimesOut
  PROVE  InstIInv'
<1>. USE DEF InstIInv, InstTypes, OneFlowOnly, InSession, EndedWell, KeptOK, SwitchBack, Flows, Files, AtRest,
    InstPlaces, Unlocks, StockURLs, Clean, Whole, SSH, Shell, Counted, BoxSame, Boxes, Hosted, Scripts
<1>1. script' \in Scripts /\ nand' \in [Files -> {"none", "part", "whole"}] /\
    script'.step \notin {"rc", "run", "bin", "heal"} /\
    (script.step \in {"none", "ok", "error"} => script' = script /\ nand' = nand) /\
    (script'.step = "ok" => script.step = "ok")
  BY CutShort DEF RunTimesOut
<1>2. Rests("install", "timeout")
  BY FlowEnds DEF RunTimesOut, Verdicts
<1>c1. InstTypes'
  BY <1>1, <1>2 DEF RunTimesOut, Rests
<1>c2. OneFlowOnly'
  BY <1>1, <1>2 DEF RunTimesOut, Rests
<1>c3. InSession'
  BY <1>1, <1>2 DEF RunTimesOut, Rests
<1>c4. EndedWell'
  BY <1>1, <1>2 DEF RunTimesOut, Rests
<1>c5. KeptOK'
  BY <1>1, <1>2 DEF RunTimesOut, Rests
<1>c6. SwitchBack'
  BY <1>1, <1>2 DEF RunTimesOut, Rests
<1>. QED
  BY <1>c1, <1>c2, <1>c3, <1>c4, <1>c5, <1>c6 DEF InstIInv

\* The app reboots after a good end, and does not hear whether it was heard.
LEMMA RebootStep ==
  ASSUME InstIInv, ~Overlap, Reboot
  PROVE  InstIInv'
<1>a. box' \in Boxes
  BY BoxEdits DEF Reboot, Signals, InstIInv, InstTypes, Boxes
<1>b. box'.up = box.up /\ box'.ssh = box.ssh /\ box'.agent = box.agent
  BY DEF Reboot, Signals, InstIInv, InstTypes, Boxes
<1>. USE DEF InstIInv, InstTypes, OneFlowOnly, InSession, EndedWell, KeptOK, SwitchBack, Flows, Files, AtRest,
    InstPlaces, Unlocks, StockURLs, Clean, Whole, SSH, Shell, Counted, BoxSame, Boxes, Hosted, Scripts
<1>1. CASE Ends("install", "sent")
  <2>1. Rests("install", "sent")
    BY <1>1, FlowEnds DEF Verdicts
  <2>c1. InstTypes'
    BY <1>1, <2>1, <1>a, <1>b DEF Reboot, Rests
  <2>c2. OneFlowOnly'
    BY <1>1, <2>1, <1>a, <1>b DEF Reboot, Rests
  <2>c3. InSession'
    BY <1>1, <2>1, <1>a, <1>b DEF Reboot, Rests
  <2>c4. EndedWell'
    BY <1>1, <2>1, <1>a, <1>b DEF Reboot, Rests
  <2>c5. KeptOK'
    BY <1>1, <2>1, <1>a, <1>b DEF Reboot, Rests
  <2>c6. SwitchBack'
    BY <1>1, <2>1, <1>a, <1>b DEF Reboot, Rests
  <2>. QED
    BY <2>c1, <2>c2, <2>c3, <2>c4, <2>c5, <2>c6 DEF InstIInv
<1>2. CASE GoesOn("install", "wait")
  <2>1. Goes("install", "wait")
    BY <1>2, FlowGoes DEF Hows
  <2>c1. InstTypes'
    BY <1>2, <2>1, <1>a, <1>b DEF Reboot, Goes
  <2>c2. OneFlowOnly'
    BY <1>2, <2>1, <1>a, <1>b DEF Reboot, Goes
  <2>c3. InSession'
    BY <1>2, <2>1, <1>a, <1>b DEF Reboot, Goes
  <2>c4. EndedWell'
    BY <1>2, <2>1, <1>a, <1>b DEF Reboot, Goes
  <2>c5. KeptOK'
    BY <1>2, <2>1, <1>a, <1>b DEF Reboot, Goes
  <2>c6. SwitchBack'
    BY <1>2, <2>1, <1>a, <1>b DEF Reboot, Goes
  <2>. QED
    BY <2>c1, <2>c2, <2>c3, <2>c4, <2>c5, <2>c6 DEF InstIInv
<1>. QED
  BY <1>1, <1>2 DEF Reboot

\* The app tells "ok"; of an agent of the new boot it vouches for files and URLs.
LEMMA SeesStep ==
  ASSUME InstIInv, ~Overlap, Sees
  PROVE  InstIInv'
<1>. USE DEF InstIInv, InstTypes, OneFlowOnly, InSession, EndedWell, KeptOK, SwitchBack, Flows, Files, AtRest,
    InstPlaces, Unlocks, StockURLs, Clean, Whole, SSH, Shell, Counted, BoxSame, Boxes, Hosted, Scripts
<1>1. Rests("install", "ok")
  BY FlowEnds DEF Sees, Verdicts
<1>c1. InstTypes'
  BY <1>1 DEF Sees, Rests
<1>c2. OneFlowOnly'
  BY <1>1 DEF Sees, Rests
<1>c3. InSession'
  BY <1>1 DEF Sees, Rests
<1>c4. EndedWell'
  BY <1>1 DEF Sees, Rests
<1>c5. KeptOK'
  BY <1>1 DEF Sees, Rests
<1>c6. SwitchBack'
  BY <1>1 DEF Sees, Rests
<1>. QED
  BY <1>c1, <1>c2, <1>c3, <1>c4, <1>c5, <1>c6 DEF InstIInv

\* A second reboot keeps the flow waiting.
LEMMA FlowTriesOn ==
  ASSUME flow \in [Flows -> InstFlows], flow["install"].at = "wait", flow' = [flow EXCEPT !["install"].tries = 1]
  PROVE  Goes("install", "wait")
<1>1. [flow["install"] EXCEPT !.tries = 1] \in InstFlows
  BY DEF InstFlows, Flows
<1>. QED
  BY <1>1 DEF InstFlows, Goes, Flows

\* A wait that is over tries once more, or tells that the agent is not up.
LEMMA WaitOverStep ==
  ASSUME InstIInv, ~Overlap, WaitOver
  PROVE  InstIInv'
<1>a. box' \in Boxes
  BY BoxEdits DEF WaitOver, Signals, InstIInv, InstTypes, Boxes
<1>b. box'.up = box.up /\ box'.ssh = box.ssh /\ box'.agent = box.agent
  BY DEF WaitOver, Signals, InstIInv, InstTypes, Boxes
<1>u. urls' = urls /\ nand' = nand /\ script' = script /\ left' = left /\ kept' = kept /\ flow["install"].at = "wait"
  BY DEF WaitOver
<1>. USE DEF InstIInv, InstTypes, OneFlowOnly, InSession, EndedWell, KeptOK, SwitchBack, Flows, Files, AtRest,
    InstPlaces, Unlocks, StockURLs, Clean, Whole, SSH, Shell, Counted, BoxSame, Boxes, Hosted, Scripts
<1>1. CASE Copies("install", "bypass")
  <2>1. Goes("install", "stage")
    BY <1>1, FlowCopies DEF Hows
  <2>c1. InstTypes'
    BY <1>1, <2>1, <1>a, <1>b, <1>u DEF Goes
  <2>c2. OneFlowOnly'
    BY <1>1, <2>1, <1>a, <1>b, <1>u DEF Goes
  <2>c3. InSession'
    BY <1>1, <2>1, <1>a, <1>b, <1>u DEF Goes
  <2>c4. EndedWell'
    BY <1>1, <2>1, <1>a, <1>b, <1>u DEF Goes
  <2>c5. KeptOK'
    BY <1>1, <2>1, <1>a, <1>b, <1>u DEF Goes
  <2>c6. SwitchBack'
    BY <1>1, <2>1, <1>a, <1>b, <1>u DEF Goes
  <2>. QED
    BY <2>c1, <2>c2, <2>c3, <2>c4, <2>c5, <2>c6 DEF InstIInv
<1>2. CASE flow' = [flow EXCEPT !["install"].tries = 1]
  <2>1. Goes("install", "wait")
    BY <1>2, FlowTriesOn DEF WaitOver
  <2>c1. InstTypes'
    BY <1>2, <2>1, <1>a, <1>b, <1>u DEF Goes
  <2>c2. OneFlowOnly'
    BY <1>2, <2>1, <1>a, <1>b, <1>u DEF Goes
  <2>c3. InSession'
    BY <1>2, <2>1, <1>a, <1>b, <1>u DEF Goes
  <2>c4. EndedWell'
    BY <1>2, <2>1, <1>a, <1>b, <1>u DEF Goes
  <2>c5. KeptOK'
    BY <1>2, <2>1, <1>a, <1>b, <1>u DEF Goes
  <2>c6. SwitchBack'
    BY <1>2, <2>1, <1>a, <1>b, <1>u DEF Goes
  <2>. QED
    BY <2>c1, <2>c2, <2>c3, <2>c4, <2>c5, <2>c6 DEF InstIInv
<1>3. CASE Rests("install", "not up")
  <2>1. flow' \in [Flows -> InstFlows] /\ flow'["install"].at = "idle" /\ flow'["install"].verdict # "removed" /\ flow'["remove"] = flow["remove"]
    BY <1>3 DEF Rests
  <2>c1. InstTypes'
    BY <2>1, <1>a, <1>b, <1>u
  <2>c2. OneFlowOnly'
    BY <2>1, <1>a, <1>b, <1>u
  <2>c3. InSession'
    BY <2>1, <1>a, <1>b, <1>u
  <2>c4. EndedWell'
    BY <2>1, <1>a, <1>b, <1>u
  <2>c5. KeptOK'
    BY <2>1, <1>a, <1>b, <1>u
  <2>c6. SwitchBack'
    BY <2>1, <1>a, <1>b, <1>u
  <2>. QED
    BY <2>c1, <2>c2, <2>c3, <2>c4, <2>c5, <2>c6 DEF InstIInv
<1>4. CASE Ends("install", "not up")
  <2>1. Rests("install", "not up")
    BY <1>4, FlowEnds DEF Verdicts
  <2>. QED
    BY <2>1, <1>3
<1>. QED
  BY <1>1, <1>2, <1>4 DEF WaitOver

\* A removal finds the shell open, or has it unlocked.
LEMMA ShakeStep ==
  ASSUME InstIInv, ~Overlap, Shake
  PROVE  InstIInv'
<1>a. box' \in Boxes
  BY BoxEdits DEF Shake, InstIInv
<1>b. box'.up = box.up /\ (box.ssh => box'.ssh) /\ box'.agent = box.agent
  BY DEF Shake, InstIInv, InstTypes, Boxes
<1>. USE DEF InstIInv, InstTypes, OneFlowOnly, InSession, EndedWell, KeptOK, SwitchBack, Flows, Files, AtRest,
    InstPlaces, Unlocks, StockURLs, Clean, Whole, SSH, Shell, Counted, BoxSame, Boxes, Hosted, Scripts
<1>1. CASE GoesOn("remove", "clear")
  <2>1. Goes("remove", "clear")
    BY <1>1, FlowGoes DEF Hows
  <2>c1. InstTypes'
    BY <1>1, <2>1, <1>a, <1>b DEF Shake, Goes
  <2>c2. OneFlowOnly'
    BY <1>1, <2>1, <1>a, <1>b DEF Shake, Goes
  <2>c3. InSession'
    BY <1>1, <2>1, <1>a, <1>b DEF Shake, Goes
  <2>c4. EndedWell'
    BY <1>1, <2>1, <1>a, <1>b DEF Shake, Goes
  <2>c5. KeptOK'
    BY <1>1, <2>1, <1>a, <1>b DEF Shake, Goes
  <2>c6. SwitchBack'
    BY <1>1, <2>1, <1>a, <1>b DEF Shake, Goes
  <2>. QED
    BY <2>c1, <2>c2, <2>c3, <2>c4, <2>c5, <2>c6 DEF InstIInv
<1>2. CASE GoesOn("remove", "inject")
  <2>1. Goes("remove", "inject")
    BY <1>2, FlowGoes DEF Hows
  <2>c1. InstTypes'
    BY <1>2, <2>1, <1>a, <1>b DEF Shake, Goes
  <2>c2. OneFlowOnly'
    BY <1>2, <2>1, <1>a, <1>b DEF Shake, Goes
  <2>c3. InSession'
    BY <1>2, <2>1, <1>a, <1>b DEF Shake, Goes
  <2>c4. EndedWell'
    BY <1>2, <2>1, <1>a, <1>b DEF Shake, Goes
  <2>c5. KeptOK'
    BY <1>2, <2>1, <1>a, <1>b DEF Shake, Goes
  <2>c6. SwitchBack'
    BY <1>2, <2>1, <1>a, <1>b DEF Shake, Goes
  <2>. QED
    BY <2>c1, <2>c2, <2>c3, <2>c4, <2>c5, <2>c6 DEF InstIInv
<1>3. CASE Ends("remove", "closed")
  <2>1. Rests("remove", "closed")
    BY <1>3, FlowEnds DEF Verdicts
  <2>c1. InstTypes'
    BY <1>3, <2>1, <1>a, <1>b DEF Shake, Rests
  <2>c2. OneFlowOnly'
    BY <1>3, <2>1, <1>a, <1>b DEF Shake, Rests
  <2>c3. InSession'
    BY <1>3, <2>1, <1>a, <1>b DEF Shake, Rests
  <2>c4. EndedWell'
    BY <1>3, <2>1, <1>a, <1>b DEF Shake, Rests
  <2>c5. KeptOK'
    BY <1>3, <2>1, <1>a, <1>b DEF Shake, Rests
  <2>c6. SwitchBack'
    BY <1>3, <2>1, <1>a, <1>b DEF Shake, Rests
  <2>. QED
    BY <2>c1, <2>c2, <2>c3, <2>c4, <2>c5, <2>c6 DEF InstIInv
<1>. QED
  BY <1>1, <1>2, <1>3 DEF Shake

\* Removing the agent leaves the speaker up and its shell open.
LEMMA ClearBox ==
  ASSUME InstTypes, NEW going \in BOOLEAN, box' = [box EXCEPT !.agent = "none", !.going = @ \/ going]
  PROVE  box' \in Boxes /\ box'.agent = "none" /\ box'.up = box.up /\ box'.ssh = box.ssh
<1>1. (box.going \/ going) \in BOOLEAN
  OBVIOUS
<1>2. [box EXCEPT !.agent = "none", !.going = box.going \/ going] \in Boxes
  BY <1>1 DEF InstTypes, Boxes
<1>. QED
  BY <1>2 DEF InstTypes, Boxes

\* A flash without files is not one with all of them.
LEMMA CleanIs == Clean \in [Files -> {"none", "part", "whole"}] /\ Clean # Whole
BY DEF Clean, Whole, Files

\* A removal that is told has cleared the flash and stopped the agent.
LEMMA ClearStep ==
  ASSUME InstIInv, ~Overlap, Clear
  PROVE  InstIInv'
<1>0. InstTypes
  BY DEF InstIInv
<1>u. urls' = urls /\ script' = script /\ left' = left /\ flow["remove"].at = "clear"
  BY DEF Clear
<1>a. CASE nand' = Clean /\ kept' = "none" /\ \E going \in BOOLEAN : box' = [box EXCEPT !.agent = "none", !.going = @ \/ going]
  <2>1. box' \in Boxes /\ box'.agent = "none" /\ box'.up = box.up /\ box'.ssh = box.ssh
    BY <1>a, <1>0, ClearBox
  <2>2. Rests("remove", "nothing") \/ Rests("remove", "removed") \/ Rests("remove", "closed") \/ Rests("remove", "stick")
    BY <1>0, FlowEnds DEF Clear, Verdicts, InstTypes, Flows
  <2>3. nand' \in [Files -> {"none", "part", "whole"}]
    BY <1>a, CleanIs
  <2>. USE DEF InstIInv, InstTypes, OneFlowOnly, InSession, EndedWell, KeptOK, SwitchBack, Flows, Files, AtRest,
      InstPlaces, Unlocks, StockURLs, Clean, Whole, SSH, Shell, Counted, BoxSame, Boxes, Hosted, Scripts
  <2>c1. InstTypes'
    BY <1>u, <1>a, <2>1, <2>2, <2>3 DEF Rests
  <2>c2. OneFlowOnly'
    BY <1>u, <1>a, <2>1, <2>2, <2>3 DEF Rests
  <2>c3. InSession'
    BY <1>u, <1>a, <2>1, <2>2, <2>3 DEF Rests
  <2>c4. EndedWell'
    BY <1>u, <1>a, <2>1, <2>2, <2>3 DEF Rests
  <2>c5. KeptOK'
    BY <1>u, <1>a, <2>1, <2>2, <2>3 DEF Rests
  <2>c6. SwitchBack'
    BY <1>u, <1>a, <2>1, <2>2, <2>3 DEF Rests
  <2>. QED
    BY <2>c1, <2>c2, <2>c3, <2>c4, <2>c5, <2>c6 DEF InstIInv
<1>b. CASE (Ends("remove", "stick") \/ Ends("remove", "closed")) /\ UNCHANGED <<box, nand, kept>>
  <2>1. Rests("remove", "stick") \/ Rests("remove", "closed")
    BY <1>0, <1>b, FlowEnds DEF Verdicts, InstTypes, Flows
  <2>. USE DEF InstIInv, InstTypes, OneFlowOnly, InSession, EndedWell, KeptOK, SwitchBack, Flows, Files, AtRest,
      InstPlaces, Unlocks, StockURLs, Clean, Whole, SSH, Shell, Counted, BoxSame, Boxes, Hosted, Scripts
  <2>c1. InstTypes'
    BY <1>u, <1>b, <2>1 DEF Rests
  <2>c2. OneFlowOnly'
    BY <1>u, <1>b, <2>1 DEF Rests
  <2>c3. InSession'
    BY <1>u, <1>b, <2>1 DEF Rests
  <2>c4. EndedWell'
    BY <1>u, <1>b, <2>1 DEF Rests
  <2>c5. KeptOK'
    BY <1>u, <1>b, <2>1 DEF Rests
  <2>c6. SwitchBack'
    BY <1>u, <1>b, <2>1 DEF Rests
  <2>. QED
    BY <2>c1, <2>c2, <2>c3, <2>c4, <2>c5, <2>c6 DEF InstIInv
<1>. QED
  BY <1>a, <1>b DEF Clear

\* A close of the app ends the flows, and cuts off the script.
LEMMA AppClosesStep ==
  ASSUME InstIInv, ~Overlap, AppCloses
  PROVE  InstIInv'
<1>. USE DEF InstIInv, InstTypes, OneFlowOnly, InSession, EndedWell, KeptOK, SwitchBack, Flows, Files, AtRest,
    InstPlaces, Unlocks, StockURLs, Clean, Whole, SSH, Shell, Counted, BoxSame, Boxes, Hosted, Scripts
<1>1. script' \in Scripts /\ nand' \in [Files -> {"none", "part", "whole"}] /\
    script'.step \notin {"rc", "run", "bin", "heal"} /\
    (script.step \in {"none", "ok", "error"} => script' = script /\ nand' = nand) /\
    (script'.step = "ok" => script.step = "ok")
  BY CutShort DEF AppCloses
<1>2. [Still EXCEPT !.verdict = "closed"] \in InstFlows /\ [Still EXCEPT !.verdict = "closed"].at = "idle" /\ [Still EXCEPT !.verdict = "closed"].verdict = "closed"
  BY DEF Still, InstFlows, Hows, Verdicts
<1>3. /\ flow' \in [Flows -> InstFlows] /\ \A f \in Flows : flow'[f].at = "idle"
      /\ \A f \in Flows : AtRest(f) => flow'[f] = flow[f]
      /\ \A f \in Flows : ~AtRest(f) => flow'[f].verdict = "closed"
  BY <1>2 DEF AppCloses
<1>4. left' \in BOOLEAN /\ (left => left') /\ (urls # StockURLs => left') /\ (urls.switch = "injected" => left')
  <2>1. CASE left \/ urls # StockURLs
    BY <2>1 DEF AppCloses
  <2>2. CASE ~left /\ urls = StockURLs
    BY <2>2 DEF AppCloses
  <2>. QED
    BY <2>1, <2>2
<1>c1. InstTypes'
  BY <1>1, <1>3, <1>4 DEF AppCloses
<1>c2. OneFlowOnly'
  BY <1>1, <1>3, <1>4 DEF AppCloses
<1>c3. InSession'
  BY <1>1, <1>3, <1>4 DEF AppCloses
<1>c4. EndedWell'
  BY <1>1, <1>3, <1>4 DEF AppCloses
<1>c5. KeptOK'
  BY <1>1, <1>3, <1>4 DEF AppCloses
<1>c6. SwitchBack'
  BY <1>1, <1>3, <1>4 DEF AppCloses
<1>. QED
  BY <1>c1, <1>c2, <1>c3, <1>c4, <1>c5, <1>c6 DEF InstIInv

\* With one flow at a time every step keeps the invariant of the installer.
LEMMA InstStays == ~Overlap /\ InstIInv /\ [InstNext]_instVars => InstIInv'
<1>. SUFFICES ASSUME ~Overlap, InstIInv, [InstNext]_instVars PROVE InstIInv'
  OBVIOUS
<1>1. CASE PressInstall \/ PressRepair \/ PressRemove
  BY <1>1, BeginStep DEF PressInstall, PressRepair, PressRemove, Flows, Hows
<1>2. CASE Installing
  BY <1>2, CheckFirstStep, ProbeStep, StageFilesStep, ScriptEndsStep, RunTimesOutStep, RebootStep, SeesStep,
      WaitOverStep DEF Installing
<1>3. CASE Removing
  BY <1>3, ShakeStep, ClearStep DEF Removing
<1>4. CASE \E f \in Flows : Unlocking(f)
  BY <1>4, InjectStep, SwitchStep, OpensStep, ResetStep, RecoverStep DEF Unlocking
<1>5. CASE BoxMoves \/ PowerCut \/ MovesUSB \/ AppCloses
  BY <1>5, GoesDownStep, BootsStep, StepStep, PowerCutStep, MovesUSBStep, AppClosesStep DEF BoxMoves
<1>6. CASE UNCHANGED instVars
  BY <1>6 DEF instVars, InstIInv, InstTypes, OneFlowOnly, AtRest, Clean, InSession, EndedWell, KeptOK, StockURLs,
      SwitchBack
<1>. QED
  BY <1>1, <1>2, <1>3, <1>4, <1>5, <1>6 DEF InstNext

\* The invariant of the installer holds initially.
LEMMA InstStarts == InstInit => InstIInv
<1>. SUFFICES ASSUME InstInit PROVE InstIInv
  OBVIOUS
<1>1. Still \in InstFlows /\ Still.at = "idle" /\ Still.verdict = "none"
  BY DEF Still, InstFlows, InstPlaces, Hows, Verdicts
<1>2. flow \in [Flows -> InstFlows] /\ (\A f \in Flows : flow[f].at = "idle" /\ flow[f].verdict = "none")
  BY <1>1 DEF InstInit
<1>3. box \in Boxes /\ box.agent # "new"
  BY DEF InstInit, Boxes
<1>4. nand \in [Files -> {"none", "part", "whole"}]
  BY DEF InstInit, Clean, Whole, Files
<1>5. urls \in Hosted /\ urls.switch = "stock"
  BY DEF InstInit, Hosted, StockURLs
<1>6. script \in Scripts /\ script.step = "none"
  BY DEF InstInit, Scripts
<1>8. \A f \in Flows : flow[f].at \in InstPlaces[f]
  BY <1>2 DEF InstPlaces, Flows
<1>9. left = FALSE /\ kept = "none"
  BY DEF InstInit
<1>7. InstTypes
  BY <1>2, <1>3, <1>4, <1>5, <1>6, <1>8, <1>9 DEF InstTypes
<1>. QED
  BY <1>2, <1>3, <1>5, <1>6, <1>7
     DEF InstInit, InstIInv, OneFlowOnly, AtRest, InSession, EndedWell, KeptOK, SwitchBack, Flows

\* It implies the one the run checks.
LEMMA InstHolds == InstIInv => InstallInv
<1>. SUFFICES ASSUME InstIInv PROVE InstallInv
  OBVIOUS
<1>. USE DEF InstIInv
<1>1. urls \in [{"sdk", "file", "switch"} -> {"stock", "injected"}]
  BY DEF InstTypes, Hosted
<1>2. script.step \in DOMAIN After \cup {"none", "ok", "error"}
  BY DEF InstTypes, Scripts, After
<1>3. InstTypeOK
  BY <1>1, <1>2 DEF InstTypes, InstTypeOK
<1>4. OkIsInstalled /\ OkBootsStock
  BY DEF InstTypes, KeptOK, OkIsInstalled, OkBootsStock
<1>5. Restored
  BY DEF InstTypes, Hosted, SwitchBack, Restored, AtRest, Unlocks
<1>6. RemovedIsClean
  BY DEF OneFlowOnly, RemovedIsClean
<1>. QED
  BY <1>3, <1>4, <1>5, <1>6 DEF InstallInv

-----------------------------------------------------------------------------
(***************************************************************************)
(* The theorems.                                                           *)
(***************************************************************************)

\* An update tells "done" only of a speaker that runs the release, with an engine if it is up,
\* "partial" only of one that runs it, and "failed" only when it has not written it.
THEOREM AppVerdicts == AppSpec => VerdictTrue
<1>1. AppInit => FleetIInv
  BY FleetStarts DEF AppInit
<1>2. FleetIInv /\ [AppNext]_<<part, fleetVars, discVars, instVars>> => FleetIInv' /\ \A p \in Presses : Verdict(p)
  BY FleetStays DEF AppNext
<1>3. (\A p \in Presses : Verdict(p)) =>
        [\A p \in Presses : flows'[p].told # "nothing" /\ flows[p].told = "nothing" =>
          /\ flows'[p].told = "done" => speaker.run = "new" /\ (speaker.up => speaker.engine # "none")
          /\ flows'[p].told = "partial" => speaker.run = "new"
          /\ flows'[p].told = "failed" => ~flows[p].taken]_flows
  BY DEF Verdict
<1>. QED
  BY <1>1, <1>2, <1>3, PTL DEF AppSpec, VerdictTrue

\* With one scan, refresh or removal at a time, an address is dropped from the list only after a day
\* of silence, by a removal or for another address of its speaker, and a scan that found every speaker
\* shows each of them once, where it is.
THEOREM AppLists ==
  ASSUME ~Races
  PROVE  AppSpec => ListKept
<1>1. AppInit => ListIInv
  BY ListStarts DEF AppInit
<1>2. ASSUME ListIInv, [AppNext]_<<part, fleetVars, discVars, instVars>> PROVE ListGoal
  <2>1. [DiscNext]_discVars
    BY <1>2 DEF AppNext
  <2>. QED
    BY <1>2, <2>1, ListStays
<1>3. ListGoal => ListIInv' /\ [SightedStays /\ ScanShowsAll]_discVars
  BY DEF ListGoal
<1>. QED
  BY <1>1, <1>2, <1>3, PTL DEF AppSpec, ListKept

\* An update that has been begun is on record until the app has seen its target, and one flow writes
\* at a time; with one scan, refresh or removal at a time and no address leased to a second speaker, a
\* speaker that was removed is not remembered as one with STR; and with one flow of the installer at a
\* time, what ended well, or gave up, left the files and the cloud URLs as they should be.
THEOREM AppSafe ==
  ASSUME ~Races, ~Reuse, ~Overlap
  PROVE  AppSpec => []AppInv
<1>. DEFINE Inv == FleetIInv /\ ListIInv /\ RemovalInv /\ InstIInv
<1>1. AppInit => Inv
  BY FleetStarts, ListStarts, RidStarts, InstStarts DEF AppInit
<1>2. ASSUME Inv, [AppNext]_<<part, fleetVars, discVars, instVars>> PROVE Inv'
  <2>1. [FleetNext]_fleetVars /\ [DiscNext]_discVars /\ [InstNext]_instVars
    BY <1>2 DEF AppNext
  <2>2. FleetIInv'
    BY <1>2, <2>1, FleetStays
  <2>3. ListIInv' /\ RemovalInv'
    BY <1>2, <2>1, ListStays, RidStays DEF ListGoal
  <2>4. InstIInv'
    BY <1>2, <2>1, InstStays
  <2>. QED
    BY <2>2, <2>3, <2>4
<1>3. Inv => AppInv
  BY FleetHolds, RidHolds, InstHolds DEF AppInv
<1>. QED
  BY <1>1, <1>2, <1>3, PTL DEF AppSpec
=============================================================================
