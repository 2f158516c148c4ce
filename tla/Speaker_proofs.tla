--------------------------- MODULE Speaker_proofs ---------------------------
(***************************************************************************)
(* Proofs about what keeps a speaker in order, for any uploads, keys,      *)
(* events and processes.  The four parts of MCSpeaker share nothing, and   *)
(* each has an inductive invariant of its own: what an upload or a swap    *)
(* may rely on at each of its steps; what of a lost store the keys, the    *)
(* sweep and the seeding still hold between them; what the messages under  *)
(* way will yet tell the client; and which process holds agent.pid.        *)
(***************************************************************************)
EXTENDS MCSpeaker, FiniteSetTheorems, WellFoundedInduction, TLAPS

-----------------------------------------------------------------------------
(***************************************************************************)
(* The updates of the binaries.                                            *)
(***************************************************************************)

Busy(p) == uploads[p].pc \notin Quiet
UploadPcs == {"idle", "prepare", "open", "write", "rename", "verify", "answered", "refreshed", "stamp", "stage", "staged", "over"}
UploadType == [pc : UploadPcs, tier : {"first", "remounted", "rewrite"}, fd : Uploads \cup {"none"}]

UpdateTypes ==
  /\ uploads \in [Uploads -> UploadType]
  /\ temps \in [{"agent", "engine"} -> Uploads \cup {"none"}] /\ \A b \in {"agent", "engine"} : temps[b] # "none" => Target(temps[b]) = b
  /\ written \in [Uploads -> Uploads \cup {"none", "part"}]
  /\ bins \in [agent : AgentPushes \cup {"old", "part"}, engine : EnginePushes \cup {"old", "part", "none"}]
  /\ engineSha \in [text : EnginePushes \cup {"old", "part", "none"}, fresh : BOOLEAN]
  /\ nand \in {"rw", "ro"} /\ marks \subseteq {"dropped", "swapFailed"} /\ stage \in AgentPushes \cup {"none"}
  /\ helpers \in [AgentPushes -> Held \cup {"none"}] /\ agentUp \in {"first", "respawned", "down"}
  /\ stick \in AgentPushes \cup {"none", "old"} /\ updateFaults \in 0..MaxFaults

\* One upload at a time, and none beside an armed swap but the one that armed it.
OneUpload ==
  /\ \A p, q \in Uploads : Busy(p) /\ Busy(q) => p = q
  /\ \A p, q \in AgentPushes : helpers[p] \in Held /\ helpers[q] \in Held => p = q
  /\ \A p \in AgentPushes, q \in Uploads : helpers[p] \in Held /\ Busy(q) => q = p /\ uploads[q].pc = "staged"

\* No handler outlives the process that took the upload, and a swap goes on without it.
NoneOutlives ==
  /\ agentUp # "first" => \A p \in Uploads : ~Busy(p)
  /\ \A p \in AgentPushes : helpers[p] \in Held \ {"wait"} => agentUp # "first"

\* What an upload has written, checked or stamped is still there.
Carried ==
  /\ \A p \in Uploads :
       /\ uploads[p].pc = "write" => uploads[p].fd # "none" /\ uploads[p].fd = temps[Target(p)]
       /\ uploads[p].pc = "rename" => temps[Target(p)] # "none" /\ written[temps[Target(p)]] = p
       /\ uploads[p].pc = "stamp" => bins.engine = p
       /\ uploads[p].pc \in {"answered", "refreshed"} => bins.agent = p
       /\ uploads[p].pc = "stamp" => p \in EnginePushes
       /\ uploads[p].pc \in {"verify", "answered", "refreshed", "stage", "staged"} => p \in AgentPushes
  /\ \A p \in AgentPushes : helpers[p] = "reboot" => bins.agent = p

UpdateIInv == UpdateTypes /\ OneUpload /\ NoneOutlives /\ Carried /\ PartialNeverLive /\ StampTellsEngine

LEMMA InitUpdate == UpdateInit => UpdateIInv
<1>. SUFFICES ASSUME UpdateInit PROVE UpdateIInv
  OBVIOUS
<1>1. UpdateTypes
  BY UpdateAssumption DEF UpdateInit, UpdateTypes, UploadType, UploadPcs, Uploads, Held
<1>2. OneUpload /\ NoneOutlives /\ Carried
  BY DEF UpdateInit, OneUpload, NoneOutlives, Carried, Busy, Quiet, Held
<1>3. PartialNeverLive /\ StampTellsEngine
  BY DEF UpdateInit, PartialNeverLive, StampTellsEngine
<1>. QED
  BY <1>1, <1>2, <1>3 DEF UpdateIInv

LEMMA UpdateHolds == UpdateIInv => UpdateInv
  BY DEF UpdateIInv, UpdateInv, UpdateTypeOK, UpdateTypes, UploadType

\* The handler of an upload at work is the only one, and no swap is armed beside it.
LEMMA Alone ==
  ASSUME UpdateIInv, NEW p \in Uploads, Busy(p)
  PROVE  /\ agentUp = "first"
         /\ \A q \in Uploads : q # p => ~Busy(q)
         /\ uploads[p].pc # "staged" => \A q \in AgentPushes : helpers[q] \notin Held
         /\ \A q \in AgentPushes : helpers[q] \in {"wait", "none"}
         /\ \A q \in AgentPushes : helpers[q] = "wait" => q = p /\ uploads[p].pc = "staged"
  BY DEF UpdateIInv, UpdateTypes, OneUpload, NoneOutlives, Held, Uploads

\* What a step of the handler of p may do: it alone moves.
LEMMA HandlerMoves ==
  ASSUME UpdateIInv, NEW p \in Uploads, Busy(p), NEW u \in UploadType,
         uploads' = [uploads EXCEPT ![p] = u], UNCHANGED <<helpers, agentUp>>
  PROVE  /\ uploads' \in [Uploads -> UploadType] /\ uploads'[p] = u /\ \A q \in Uploads : q # p => uploads'[q] = uploads[q] /\ ~Busy(q)'
         /\ (uploads[p].pc = "staged" => u.pc \in {"staged", "over"}) => OneUpload'
         /\ NoneOutlives'
<1>1. uploads' \in [Uploads -> UploadType] /\ uploads'[p] = u /\ \A q \in Uploads : q # p => uploads'[q] = uploads[q]
  BY DEF UpdateIInv, UpdateTypes
<1>2. \A q \in Uploads : q # p => ~Busy(q)'
  BY <1>1, Alone DEF Busy
<1>3. NoneOutlives'
  BY <1>1, Alone DEF NoneOutlives, UpdateIInv
<1>4. ASSUME uploads[p].pc = "staged" => u.pc \in {"staged", "over"} PROVE OneUpload'
  BY <1>1, <1>2, <1>4, Alone DEF OneUpload, UpdateIInv, Busy, Quiet
<1>. QED
  BY <1>1, <1>2, <1>3, <1>4

\* A step of p's handler that only moves on.
LEMMA GotoMoves ==
  ASSUME UpdateIInv, NEW p \in Uploads, NEW pc \in UploadPcs, Goto(p, pc)
  PROVE  \E u \in UploadType : uploads' = [uploads EXCEPT ![p] = u] /\ u.pc = pc /\ u.fd = uploads[p].fd
<1>1. uploads[p] \in UploadType /\ uploads \in [Uploads -> UploadType]
  BY DEF UpdateIInv, UpdateTypes
<1>2. [uploads[p] EXCEPT !.pc = pc] \in UploadType
  BY <1>1 DEF UploadType
<1>3. [uploads[p] EXCEPT !.pc = pc].pc = pc /\ [uploads[p] EXCEPT !.pc = pc].fd = uploads[p].fd
  BY <1>1 DEF UploadType
<1>4. uploads' = [uploads EXCEPT ![p] = [uploads[p] EXCEPT !.pc = pc]]
  BY <1>1 DEF Goto, UploadType
<1>. QED
  BY <1>2, <1>3, <1>4

LEMMA UploadStep ==
  ASSUME UpdateIInv, ~MayOverlap, NEW p \in Uploads, Upload(p)
  PROVE  UpdateIInv'
<1>1. /\ \A q \in Uploads : ~Busy(q)
      /\ \A q \in AgentPushes : helpers[q] \notin Held
      /\ agentUp = "first" /\ uploads[p].pc = "idle"
      /\ UNCHANGED <<temps, written, bins, engineSha, nand, marks, stage, helpers, agentUp, stick, running, updateFaults>>
  BY DEF Upload, At, Busy
<1>2. PICK pc \in {"prepare", "over"} : Goto(p, pc)
  BY DEF Upload
<1>a. PICK u \in UploadType : uploads' = [uploads EXCEPT ![p] = u] /\ u.pc = pc
  BY <1>2, GotoMoves DEF UploadPcs
<1>3. /\ uploads' \in [Uploads -> UploadType] /\ uploads'[p].pc = pc /\ \A q \in Uploads : q # p => uploads'[q] = uploads[q] /\ ~Busy(q)'
  BY <1>1, <1>a DEF UpdateIInv, UpdateTypes, Busy
<1>4. UpdateTypes'
  BY <1>1, <1>3 DEF UpdateIInv, UpdateTypes
<1>5. OneUpload' /\ NoneOutlives'
  BY <1>1, <1>3 DEF UpdateIInv, OneUpload, NoneOutlives, Held
<1>6. Carried' /\ PartialNeverLive' /\ StampTellsEngine'
  BY <1>1, <1>2, <1>3 DEF UpdateIInv, Carried, PartialNeverLive, StampTellsEngine, Busy, Quiet, Held
<1>. QED
  BY <1>4, <1>5, <1>6 DEF UpdateIInv

LEMMA PrepareStep ==
  ASSUME UpdateIInv, NEW p \in Uploads, Prepare(p)
  PROVE  UpdateIInv'
<1>1. /\ agentUp = "first" /\ uploads[p].pc = "prepare" /\ Goto(p, "open") /\ Busy(p)
      /\ UNCHANGED <<written, nand, stage, helpers, agentUp, stick, running, updateFaults>>
  BY DEF Prepare, At, Busy, Quiet
<1>2. /\ uploads' \in [Uploads -> UploadType] /\ uploads'[p].pc = "open" /\ \A q \in Uploads : q # p => uploads'[q] = uploads[q] /\ ~Busy(q)'
      /\ OneUpload' /\ NoneOutlives'
  <2>1. PICK u \in UploadType : uploads' = [uploads EXCEPT ![p] = u] /\ u.pc = "open"
    BY <1>1, GotoMoves DEF UploadPcs
  <2>. QED
    BY <1>1, <2>1, HandlerMoves
<1>3. /\ temps' \in [{"agent", "engine"} -> Uploads \cup {"none"}] /\ \A b \in {"agent", "engine"} : temps'[b] # "none" => Target(temps'[b]) = b
      /\ marks' \subseteq {"dropped", "swapFailed"} /\ (marks' = marks \/ marks' = marks \cup {"dropped"})
      /\ \/ UNCHANGED <<bins, engineSha>>
         \/ engineSha' = [text |-> "none", fresh |-> FALSE] /\ bins' = [bins EXCEPT !.engine = "none"]
  BY DEF Prepare, UpdateIInv, UpdateTypes, Target
<1>a. /\ bins' \in [agent : AgentPushes \cup {"old", "part"}, engine : EnginePushes \cup {"old", "part", "none"}]
      /\ bins'.agent = bins.agent
  BY <1>3 DEF UpdateIInv, UpdateTypes
<1>b. engineSha' \in [text : EnginePushes \cup {"old", "part", "none"}, fresh : BOOLEAN]
  <2>1. [text |-> "none", fresh |-> FALSE] \in [text : EnginePushes \cup {"old", "part", "none"}, fresh : BOOLEAN]
    OBVIOUS
  <2>. QED
    BY <1>3, <2>1 DEF UpdateIInv, UpdateTypes
<1>4. UpdateTypes'
  BY <1>1, <1>2, <1>3, <1>a, <1>b DEF UpdateIInv, UpdateTypes
<1>5. Carried'
  BY <1>1, <1>2, <1>a, Alone DEF UpdateIInv, UpdateTypes, Carried, Busy, Quiet
<1>6. PartialNeverLive' /\ StampTellsEngine'
  BY <1>1, <1>3 DEF UpdateIInv, UpdateTypes, PartialNeverLive, StampTellsEngine
<1>. QED
  BY <1>2, <1>4, <1>5, <1>6 DEF UpdateIInv

\* A write that failed is tried again, staged in RAM, or given up.
LEMMA FailureMoves ==
  ASSUME UpdateIInv, NEW p \in Uploads, NEW why, AfterFailure(p, why)
  PROVE  /\ nand' \in {"rw", "ro"}
         /\ \E u \in UploadType : /\ uploads' = [uploads EXCEPT ![p] = u] /\ u.pc \in {"prepare", "over", "stage"}
                                  /\ u.pc = "stage" => p \in AgentPushes
<1>1. nand' \in {"rw", "ro"}
  BY DEF AfterFailure, UpdateIInv, UpdateTypes
<1>2. /\ [pc |-> "prepare", tier |-> "remounted", fd |-> "none"] \in UploadType
      /\ [pc |-> "prepare", tier |-> "remounted", fd |-> "none"].pc = "prepare"
  BY DEF UploadType, UploadPcs
<1>3. \/ uploads' = [uploads EXCEPT ![p] = [pc |-> "prepare", tier |-> "remounted", fd |-> "none"]]
      \/ Goto(p, "over") \/ (Goto(p, "stage") /\ p \in AgentPushes)
  BY DEF AfterFailure
<1>4. ASSUME NEW pc \in {"over", "stage"}, Goto(p, pc)
      PROVE  \E u \in UploadType : uploads' = [uploads EXCEPT ![p] = u] /\ u.pc = pc
  BY <1>4, GotoMoves DEF UploadPcs
<1>. QED
  BY <1>1, <1>2, <1>3, <1>4

LEMMA OpenTempStep ==
  ASSUME UpdateIInv, NEW p \in Uploads, OpenTemp(p)
  PROVE  UpdateIInv'
<1>1. /\ agentUp = "first" /\ uploads[p].pc = "open" /\ Busy(p)
      /\ UNCHANGED <<bins, engineSha, marks, stage, helpers, agentUp, stick, running, updateFaults>>
  BY DEF OpenTemp, At, Busy, Quiet
<1>2. CASE nand = "ro"
  <2>1. AfterFailure(p, "ro") /\ UNCHANGED <<temps, written>>
    BY <1>2 DEF OpenTemp
  <2>2. PICK u \in UploadType : /\ uploads' = [uploads EXCEPT ![p] = u] /\ u.pc \in {"prepare", "over", "stage"}
                                /\ u.pc = "stage" => p \in AgentPushes
    BY <2>1, FailureMoves
  <2>3. nand' \in {"rw", "ro"}
    BY <2>1, FailureMoves
  <2>4. /\ uploads' \in [Uploads -> UploadType] /\ uploads'[p] = u /\ \A q \in Uploads : q # p => uploads'[q] = uploads[q] /\ ~Busy(q)'
        /\ OneUpload' /\ NoneOutlives'
    BY <1>1, <2>2, HandlerMoves
  <2>5. UpdateTypes'
    BY <1>1, <2>1, <2>3, <2>4 DEF UpdateIInv, UpdateTypes
  <2>6. Carried' /\ PartialNeverLive' /\ StampTellsEngine'
    BY <1>1, <2>1, <2>2, <2>4 DEF UpdateIInv, Carried, PartialNeverLive, StampTellsEngine, Busy, Quiet
  <2>. QED
    BY <2>4, <2>5, <2>6 DEF UpdateIInv
<1>3. CASE nand # "ro"
  <2>. DEFINE f == IF temps[Target(p)] = "none" THEN p ELSE temps[Target(p)]
              u == [uploads[p] EXCEPT !.pc = "write", !.fd = f]
  <2>1. /\ temps' = [temps EXCEPT ![Target(p)] = f] /\ written' = [written EXCEPT ![f] = "part"] /\ UNCHANGED nand
        /\ uploads' = [uploads EXCEPT ![p].pc = "write", ![p].fd = f]
    BY <1>3 DEF OpenTemp
  <2>2. Target(p) \in {"agent", "engine"} /\ f \in Uploads /\ f # "none" /\ Target(f) = Target(p)
    BY UpdateAssumption DEF UpdateIInv, UpdateTypes, Target, Uploads
  <2>3. u \in UploadType /\ u.pc = "write" /\ u.fd = f
    <3>1. uploads[p] \in UploadType
      BY DEF UpdateIInv, UpdateTypes
    <3>. QED
      BY <2>2, <3>1 DEF UploadType, UploadPcs
  <2>4. uploads' = [uploads EXCEPT ![p] = u]
    BY <2>1 DEF UpdateIInv, UpdateTypes, UploadType
  <2>5. /\ uploads' \in [Uploads -> UploadType] /\ uploads'[p] = u /\ \A q \in Uploads : q # p => uploads'[q] = uploads[q] /\ ~Busy(q)'
        /\ OneUpload' /\ NoneOutlives'
    BY <1>1, <2>3, <2>4, HandlerMoves
  <2>6. UpdateTypes'
    BY <1>1, <2>1, <2>2, <2>5 DEF UpdateIInv, UpdateTypes
  <2>7. temps'[Target(p)] = f
    BY <2>1, <2>2 DEF UpdateIInv, UpdateTypes
  <2>8. Carried'
    <3>1. \A q \in AgentPushes : helpers[q] # "reboot"
      BY <1>1, Alone
    <3>2. \A q \in Uploads : q # p => uploads'[q].pc \in {"idle", "over"}
      BY <2>5 DEF Busy, Quiet
    <3>. QED
      <4>. HIDE DEF f, u
      <4>1. \A q \in Uploads : uploads'[q].pc \in {"idle", "over", "write"} /\ (uploads'[q].pc = "write" => q = p)
        BY <2>3, <2>5, <3>2
      <4>2. uploads'[p].fd # "none" /\ uploads'[p].fd = temps'[Target(p)]
        BY <2>2, <2>3, <2>5, <2>7
      <4>3. \A q \in AgentPushes : helpers'[q] # "reboot"
        BY <1>1, <3>1
      <4>. QED
        BY <4>1, <4>2, <4>3 DEF Carried
  <2>9. PartialNeverLive' /\ StampTellsEngine'
    BY <1>1 DEF UpdateIInv, PartialNeverLive, StampTellsEngine
  <2>. QED
    BY <2>5, <2>6, <2>8, <2>9 DEF UpdateIInv
<1>. QED
  BY <1>2, <1>3

LEMMA WriteTempStep ==
  ASSUME UpdateIInv, NEW p \in Uploads, WriteTemp(p)
  PROVE  UpdateIInv'
<1>1. /\ agentUp = "first" /\ uploads[p].pc = "write" /\ Busy(p)
      /\ UNCHANGED <<bins, engineSha, marks, stage, helpers, agentUp, stick, running, updateFaults>>
  BY DEF WriteTemp, At, Busy, Quiet
<1>2. \A q \in AgentPushes : helpers[q] # "reboot"
  BY <1>1, Alone
<1>3. PartialNeverLive' /\ StampTellsEngine'
  BY <1>1 DEF UpdateIInv, PartialNeverLive, StampTellsEngine
<1>4. CASE nand = "rw" /\ Goto(p, "rename") /\ written' = [written EXCEPT ![uploads[p].fd] = IF Shared(p) THEN "part" ELSE p]
           /\ UNCHANGED <<temps, nand>>
  <2>1. ~Shared(p)
    BY <1>1, Alone DEF Shared, Busy, Quiet
  <2>2. PICK u \in UploadType : uploads' = [uploads EXCEPT ![p] = u] /\ u.pc = "rename"
    BY <1>4, GotoMoves DEF UploadPcs
  <2>3. /\ uploads' \in [Uploads -> UploadType] /\ uploads'[p] = u /\ \A q \in Uploads : q # p => uploads'[q] = uploads[q] /\ ~Busy(q)'
        /\ OneUpload' /\ NoneOutlives'
    BY <1>1, <2>2, HandlerMoves
  <2>4. uploads[p].fd \in Uploads /\ uploads[p].fd = temps[Target(p)] /\ uploads[p].fd # "none"
    BY <1>1 DEF UpdateIInv, UpdateTypes, UploadType, Carried
  <2>5. written' = [written EXCEPT ![uploads[p].fd] = p]
    BY <1>4, <2>1
  <2>a. written' \in [Uploads -> Uploads \cup {"none", "part"}]
    BY <2>4, <2>5 DEF UpdateIInv, UpdateTypes
  <2>6. UpdateTypes'
    BY <1>1, <1>4, <2>3, <2>a DEF UpdateIInv, UpdateTypes
  <2>7. written'[temps'[Target(p)]] = p
    BY <1>4, <2>4, <2>5 DEF UpdateIInv, UpdateTypes
  <2>8. \A q \in Uploads : q # p => uploads'[q].pc \in {"idle", "over"}
    BY <2>3 DEF Busy, Quiet
  <2>9. Carried'
    BY <1>1, <1>2, <1>4, <2>2, <2>3, <2>4, <2>7, <2>8 DEF Carried
  <2>. QED
    BY <1>3, <2>3, <2>6, <2>9 DEF UpdateIInv
<1>5. CASE /\ \E why \in IF nand = "ro" THEN {"ro"} ELSE {"space", "other"} : AfterFailure(p, why)
           /\ temps' = IF nand = "ro" THEN temps ELSE [temps EXCEPT ![Target(p)] = "none"]
           /\ UNCHANGED written
  <2>1. PICK why : AfterFailure(p, why)
    BY <1>5
  <2>2. PICK u \in UploadType : /\ uploads' = [uploads EXCEPT ![p] = u] /\ u.pc \in {"prepare", "over", "stage"}
                                /\ u.pc = "stage" => p \in AgentPushes
    BY <2>1, FailureMoves
  <2>3. nand' \in {"rw", "ro"}
    BY <2>1, FailureMoves
  <2>4. /\ uploads' \in [Uploads -> UploadType] /\ uploads'[p] = u /\ \A q \in Uploads : q # p => uploads'[q] = uploads[q] /\ ~Busy(q)'
        /\ OneUpload' /\ NoneOutlives'
    BY <1>1, <2>2, HandlerMoves
  <2>5. UpdateTypes'
    <3>1. temps' \in [{"agent", "engine"} -> Uploads \cup {"none"}] /\ \A b \in {"agent", "engine"} : temps'[b] # "none" => Target(temps'[b]) = b
      <4>1. temps' = temps \/ temps' = [temps EXCEPT ![Target(p)] = "none"]
        BY <1>5
      <4>2. temps \in [{"agent", "engine"} -> Uploads \cup {"none"}] /\ \A b \in {"agent", "engine"} : temps[b] # "none" => Target(temps[b]) = b
        BY DEF UpdateIInv, UpdateTypes
      <4>. QED
        BY <4>1, <4>2
    <3>. QED
      BY <1>1, <1>5, <2>3, <2>4, <3>1 DEF UpdateIInv, UpdateTypes
  <2>8. \A q \in Uploads : q # p => uploads'[q].pc \in {"idle", "over"}
    BY <2>4 DEF Busy, Quiet
  <2>9. Carried'
    BY <1>1, <1>2, <2>2, <2>4, <2>8 DEF Carried
  <2>. QED
    BY <1>3, <2>4, <2>5, <2>9 DEF UpdateIInv
<1>. QED
  BY <1>4, <1>5 DEF WriteTemp

LEMMA RenameTempStep ==
  ASSUME UpdateIInv, NEW p \in Uploads, RenameTemp(p)
  PROVE  UpdateIInv'
<1>. DEFINE f == temps[Target(p)]
<1>1. /\ agentUp = "first" /\ uploads[p].pc = "rename" /\ Busy(p)
      /\ temps' = [temps EXCEPT ![Target(p)] = "none"]
      /\ UNCHANGED <<written, marks, stage, helpers, agentUp, stick, running, updateFaults>>
  BY DEF RenameTemp, At, Busy, Quiet
<1>2. \A q \in AgentPushes : helpers[q] # "reboot"
  BY <1>1, Alone
<1>3. f # "none" /\ written[f] = p /\ p # "part"
  BY <1>1, UpdateAssumption DEF UpdateIInv, Carried, Uploads
<1>4. PICK u \in UploadType : /\ uploads' = [uploads EXCEPT ![p] = u]
                              /\ u.pc \in {"prepare", "over", "stage", "verify", "stamp"}
                              /\ u.pc \in {"stage", "verify"} => p \in AgentPushes
                              /\ u.pc = "stamp" => p \in EnginePushes /\ bins' = [bins EXCEPT !.engine = p]
  <2>1. CASE AfterFailure(p, "ro")
    BY <2>1, FailureMoves
  <2>2. CASE /\ bins' \in {[bins EXCEPT ![Target(p)] = written[f]]} \cup (IF p \in AgentPushes THEN {bins} ELSE {})
             /\ Goto(p, IF p \in AgentPushes THEN "verify" ELSE "stamp")
    <3>1. CASE p \in AgentPushes
      BY <2>2, <3>1, GotoMoves DEF UploadPcs
    <3>2. CASE p \notin AgentPushes
      <4>1. p \in EnginePushes /\ Target(p) = "engine"
        BY <3>2 DEF Uploads, Target
      <4>2. bins' = [bins EXCEPT !.engine = p]
        BY <1>3, <2>2, <3>2, <4>1 DEF UpdateIInv, UpdateTypes
      <4>. QED
        BY <2>2, <3>2, <4>1, <4>2, GotoMoves DEF UploadPcs
    <3>. QED
      BY <3>1, <3>2
  <2>. QED
    BY <1>3, <2>1, <2>2 DEF RenameTemp
<1>5. /\ uploads' \in [Uploads -> UploadType] /\ uploads'[p] = u /\ \A q \in Uploads : q # p => uploads'[q] = uploads[q] /\ ~Busy(q)'
      /\ OneUpload' /\ NoneOutlives'
  BY <1>1, <1>4, HandlerMoves
<1>6. /\ nand' \in {"rw", "ro"}
      /\ \/ UNCHANGED <<bins, engineSha>>
         \/ /\ p \in AgentPushes /\ UNCHANGED engineSha /\ bins' \in {bins, [bins EXCEPT !.agent = p]}
         \/ /\ p \in EnginePushes /\ engineSha' = [engineSha EXCEPT !.fresh = FALSE] /\ bins' = [bins EXCEPT !.engine = p]
  <2>1. CASE AfterFailure(p, "ro") /\ UNCHANGED <<bins, engineSha>>
    BY <2>1, FailureMoves
  <2>2. CASE /\ bins' \in {[bins EXCEPT ![Target(p)] = written[f]]} \cup (IF p \in AgentPushes THEN {bins} ELSE {})
             /\ engineSha' = (IF p \in EnginePushes THEN [engineSha EXCEPT !.fresh = FALSE] ELSE engineSha)
             /\ UNCHANGED nand
    <3>1. CASE p \in AgentPushes
      <4>1. p \notin EnginePushes /\ Target(p) = "agent"
        BY <3>1, UpdateAssumption DEF Target
      <4>. QED
        BY <1>3, <2>2, <3>1, <4>1 DEF UpdateIInv, UpdateTypes
    <3>2. CASE p \notin AgentPushes
      <4>1. p \in EnginePushes /\ Target(p) = "engine"
        BY <3>2 DEF Uploads, Target
      <4>. QED
        BY <1>3, <2>2, <3>2, <4>1 DEF UpdateIInv, UpdateTypes
    <3>. QED
      BY <3>1, <3>2
  <2>. QED
    BY <1>3, <2>1, <2>2 DEF RenameTemp
<1>7. /\ bins' \in [agent : AgentPushes \cup {"old", "part"}, engine : EnginePushes \cup {"old", "part", "none"}]
      /\ bins'.agent = bins.agent \/ bins'.agent = p
      /\ engineSha'.fresh => engineSha' = engineSha /\ bins'.engine = bins.engine
      /\ engineSha' \in [text : EnginePushes \cup {"old", "part", "none"}, fresh : BOOLEAN]
  <2>1. /\ bins \in [agent : AgentPushes \cup {"old", "part"}, engine : EnginePushes \cup {"old", "part", "none"}]
        /\ engineSha \in [text : EnginePushes \cup {"old", "part", "none"}, fresh : BOOLEAN]
    BY DEF UpdateIInv, UpdateTypes
  <2>2. CASE UNCHANGED <<bins, engineSha>>
    BY <2>1, <2>2
  <2>3. CASE p \in AgentPushes /\ UNCHANGED engineSha /\ bins' = [bins EXCEPT !.agent = p]
    BY <2>1, <2>3
  <2>4. CASE p \in EnginePushes /\ engineSha' = [engineSha EXCEPT !.fresh = FALSE] /\ bins' = [bins EXCEPT !.engine = p]
    BY <2>1, <2>4
  <2>. QED
    BY <1>6, <2>2, <2>3, <2>4
<1>8. UpdateTypes'
  BY <1>1, <1>5, <1>6, <1>7 DEF UpdateIInv, UpdateTypes
<1>9. Carried'
  <2>1. \A q \in Uploads : q # p => uploads'[q].pc \in {"idle", "over"}
    BY <1>5 DEF Busy, Quiet
  <2>2. u.pc = "stamp" => bins'.engine = p
    BY <1>4 DEF UpdateIInv, UpdateTypes
  <2>. QED
    BY <1>1, <1>2, <1>4, <1>5, <2>1, <2>2 DEF Carried
<1>10. PartialNeverLive' /\ StampTellsEngine'
  BY <1>1, <1>3, <1>7 DEF UpdateIInv, PartialNeverLive, StampTellsEngine
<1>. QED
  BY <1>5, <1>8, <1>9, <1>10 DEF UpdateIInv

\* Every handler is at rest after a boot, an exit or a kill.
LEMMA AllOver ==
  ASSUME UpdateIInv, uploads' = [q \in Uploads |-> [uploads[q] EXCEPT !.pc = IF @ = "idle" THEN @ ELSE "over"]]
  PROVE  uploads' \in [Uploads -> UploadType] /\ \A q \in Uploads : uploads'[q].pc \in {"idle", "over"} /\ ~Busy(q)'
<1>1. ASSUME NEW q \in Uploads
      PROVE  /\ [uploads[q] EXCEPT !.pc = IF @ = "idle" THEN @ ELSE "over"] \in UploadType
             /\ [uploads[q] EXCEPT !.pc = IF @ = "idle" THEN @ ELSE "over"].pc \in {"idle", "over"}
  <2>1. uploads[q] \in UploadType
    BY DEF UpdateIInv, UpdateTypes
  <2>. QED
    BY <2>1 DEF UploadType, UploadPcs
<1>. QED
  BY <1>1 DEF Busy, Quiet

LEMMA BootedStep ==
  ASSUME UpdateIInv, Booted, marks' \subseteq marks, updateFaults' \in 0..MaxFaults
  PROVE  UpdateIInv'
<1>1. uploads' \in [Uploads -> UploadType] /\ \A q \in Uploads : uploads'[q].pc \in {"idle", "over"} /\ ~Busy(q)'
  BY AllOver DEF Booted
<1>2. helpers' \in [AgentPushes -> Held \cup {"none"}] /\ \A q \in AgentPushes : helpers'[q] \notin Held
  BY DEF Booted, UpdateIInv, UpdateTypes, Held
<1>3. /\ bins' \in [agent : AgentPushes \cup {"old", "part"}, engine : EnginePushes \cup {"old", "part", "none"}]
      /\ bins'.engine = bins.engine /\ running' = bins'.agent
  BY DEF Booted, UpdateIInv, UpdateTypes
<1>4. UpdateTypes'
  BY <1>1, <1>2, <1>3 DEF Booted, UpdateIInv, UpdateTypes
<1>5. OneUpload' /\ NoneOutlives'
  BY <1>1, <1>2 DEF OneUpload, NoneOutlives
<1>6. Carried'
  BY <1>1, <1>2 DEF Carried, Held
<1>7. PartialNeverLive' /\ StampTellsEngine'
  BY <1>3 DEF Booted, UpdateIInv, PartialNeverLive, StampTellsEngine
<1>. QED
  BY <1>4, <1>5, <1>6, <1>7 DEF UpdateIInv

LEMMA VerifyStep ==
  ASSUME UpdateIInv, NEW p \in AgentPushes, Verify(p)
  PROVE  UpdateIInv'
<1>1. /\ agentUp = "first" /\ uploads[p].pc = "verify" /\ Busy(p) /\ p \in Uploads
      /\ UNCHANGED <<temps, written, bins, engineSha, nand, stage, helpers, agentUp, stick, running, updateFaults>>
  BY DEF Verify, At, Busy, Quiet, Uploads
<1>2. \A q \in AgentPushes : helpers[q] # "reboot"
  BY <1>1, Alone
<1>3. marks' = marks \/ (bins.agent = p /\ marks' = marks \ {"swapFailed"})
  BY DEF Verify, OnFlash
<1>4. PICK u \in UploadType : /\ uploads' = [uploads EXCEPT ![p] = u] /\ u.pc \in {"answered", "over", "prepare"}
                              /\ u.pc = "answered" => bins.agent = p
  <2>1. /\ [pc |-> "prepare", tier |-> "rewrite", fd |-> "none"] \in UploadType
        /\ [pc |-> "prepare", tier |-> "rewrite", fd |-> "none"].pc = "prepare"
    BY DEF UploadType, UploadPcs
  <2>2. \/ uploads' = [uploads EXCEPT ![p] = [pc |-> "prepare", tier |-> "rewrite", fd |-> "none"]]
        \/ Goto(p, "over") \/ (Goto(p, "answered") /\ bins.agent = p)
    BY DEF Verify, OnFlash
  <2>3. ASSUME NEW pc \in {"over", "answered"}, Goto(p, pc)
        PROVE  \E u \in UploadType : uploads' = [uploads EXCEPT ![p] = u] /\ u.pc = pc
    BY <1>1, <2>3, GotoMoves DEF UploadPcs
  <2>. QED
    BY <2>1, <2>2, <2>3
<1>5. /\ uploads' \in [Uploads -> UploadType] /\ uploads'[p] = u /\ \A q \in Uploads : q # p => uploads'[q] = uploads[q] /\ ~Busy(q)'
      /\ OneUpload' /\ NoneOutlives'
  BY <1>1, <1>4, HandlerMoves
<1>6. UpdateTypes'
  <2>1. marks' \subseteq {"dropped", "swapFailed"}
    BY <1>3 DEF UpdateIInv, UpdateTypes
  <2>. QED
    BY <1>1, <1>5, <2>1 DEF UpdateIInv, UpdateTypes
<1>7. \A q \in Uploads : q # p => uploads'[q].pc \in {"idle", "over"}
  BY <1>5 DEF Busy, Quiet
<1>8. Carried'
  BY <1>1, <1>2, <1>4, <1>5, <1>7 DEF Carried
<1>9. PartialNeverLive' /\ StampTellsEngine'
  BY <1>1, <1>3, UpdateAssumption DEF UpdateIInv, PartialNeverLive, StampTellsEngine
<1>. QED
  BY <1>5, <1>6, <1>8, <1>9 DEF UpdateIInv

\* A step of p's handler to pc that leaves the files and the helpers alone, or arms the swap of p.
LEMMA MovesOn ==
  ASSUME UpdateIInv, NEW p \in AgentPushes, At(p, "answered") \/ At(p, "stage"), NEW pc \in {"refreshed", "over", "staged"}, Goto(p, pc),
         pc = "refreshed" => At(p, "answered"), stage' \in AgentPushes \cup {"none"}, stick' \in AgentPushes \cup {"none", "old"},
         helpers' = helpers \/ (pc = "staged" /\ helpers' = [helpers EXCEPT ![p] = "wait"]),
         UNCHANGED <<temps, written, bins, engineSha, nand, marks, agentUp, running, updateFaults>>
  PROVE  UpdateIInv'
<1>1. agentUp = "first" /\ uploads[p].pc \in {"answered", "stage"} /\ Busy(p) /\ p \in Uploads
  BY DEF At, Busy, Quiet, Uploads
<1>2. \A q \in AgentPushes : helpers[q] = "none"
  BY <1>1, Alone DEF Held
<1>3. PICK u \in UploadType : uploads' = [uploads EXCEPT ![p] = u] /\ u.pc = pc
  BY <1>1, GotoMoves DEF UploadPcs
<1>4. /\ uploads' \in [Uploads -> UploadType] /\ uploads'[p] = u /\ \A q \in Uploads : q # p => uploads'[q] = uploads[q]
      /\ \A q \in Uploads : q # p => uploads'[q].pc \in {"idle", "over"} /\ ~Busy(q)'
  BY <1>1, <1>3, Alone DEF UpdateIInv, UpdateTypes, Busy, Quiet
<1>5. /\ helpers' \in [AgentPushes -> Held \cup {"none"}]
      /\ \A q \in AgentPushes : helpers'[q] \in {"wait", "none"} /\ (helpers'[q] = "wait" => q = p /\ pc = "staged")
  BY <1>2 DEF UpdateIInv, UpdateTypes, Held
<1>6. UpdateTypes'
  BY <1>4, <1>5 DEF UpdateIInv, UpdateTypes
<1>7. OneUpload' /\ NoneOutlives'
  BY <1>1, <1>3, <1>4, <1>5 DEF OneUpload, NoneOutlives, Held, Busy
<1>8. Carried'
  BY <1>1, <1>3, <1>4, <1>5 DEF UpdateIInv, Carried, At
<1>9. PartialNeverLive' /\ StampTellsEngine'
  BY <1>2 DEF UpdateIInv, PartialNeverLive, StampTellsEngine
<1>. QED
  BY <1>6, <1>7, <1>8, <1>9 DEF UpdateIInv

LEMMA RefreshStickStep ==
  ASSUME UpdateIInv, NEW p \in AgentPushes, RefreshStick(p)
  PROVE  UpdateIInv'
  BY MovesOn DEF RefreshStick, Refreshed, UpdateIInv, UpdateTypes

LEMMA StageStep ==
  ASSUME UpdateIInv, NEW p \in AgentPushes, Stage(p)
  PROVE  UpdateIInv'
<1>1. stage \in AgentPushes \cup {"none"} /\ stick \in AgentPushes \cup {"none", "old"}
  BY DEF UpdateIInv, UpdateTypes
<1>. QED
  BY <1>1, MovesOn DEF Stage

LEMMA ExitStep ==
  ASSUME UpdateIInv, NEW p \in AgentPushes, Exit(p)
  PROVE  UpdateIInv'
<1>1. /\ agentUp = "first" /\ uploads[p].pc = "staged" /\ Busy(p) /\ p \in Uploads /\ agentUp' = "down"
      /\ stick' \in AgentPushes \cup {"none", "old"}
      /\ UNCHANGED <<temps, written, bins, engineSha, nand, marks, stage, helpers, running, updateFaults>>
  BY DEF Exit, At, Busy, Quiet, Uploads, Refreshed, UpdateIInv, UpdateTypes
<1>2. \A q \in AgentPushes : helpers[q] \in {"wait", "none"}
  BY <1>1, Alone
<1>3. uploads' \in [Uploads -> UploadType] /\ \A q \in Uploads : uploads'[q].pc \in {"idle", "over"} /\ ~Busy(q)'
  BY AllOver DEF Exit
<1>4. UpdateTypes'
  BY <1>1, <1>3 DEF UpdateIInv, UpdateTypes
<1>5. OneUpload' /\ NoneOutlives'
  BY <1>1, <1>3 DEF UpdateIInv, OneUpload, NoneOutlives
<1>6. Carried'
  BY <1>1, <1>2, <1>3 DEF Carried
<1>7. PartialNeverLive' /\ StampTellsEngine'
  BY <1>1 DEF UpdateIInv, PartialNeverLive, StampTellsEngine
<1>. QED
  BY <1>4, <1>5, <1>6, <1>7 DEF UpdateIInv

LEMMA StampEngineStep ==
  ASSUME UpdateIInv, NEW p \in Uploads, StampEngine(p)
  PROVE  UpdateIInv'
<1>1. /\ agentUp = "first" /\ uploads[p].pc = "stamp" /\ Busy(p) /\ Goto(p, "over")
      /\ UNCHANGED <<temps, written, bins, nand, stage, helpers, agentUp, stick, running, updateFaults>>
      /\ marks' \in {marks, marks \ {"dropped"}}
  BY DEF StampEngine, At, Busy, Quiet
<1>2. \A q \in AgentPushes : helpers[q] # "reboot"
  BY <1>1, Alone
<1>3. PICK u \in UploadType : uploads' = [uploads EXCEPT ![p] = u] /\ u.pc = "over"
  BY <1>1, GotoMoves DEF UploadPcs
<1>4. /\ uploads' \in [Uploads -> UploadType] /\ uploads'[p] = u /\ \A q \in Uploads : q # p => uploads'[q] = uploads[q] /\ ~Busy(q)'
      /\ OneUpload' /\ NoneOutlives'
  BY <1>1, <1>3, HandlerMoves
<1>5. \A q \in Uploads : uploads'[q].pc \in {"idle", "over"}
  BY <1>3, <1>4 DEF Busy, Quiet
<1>6. bins.engine = p /\ p \in EnginePushes
  BY <1>1 DEF UpdateIInv, Carried
<1>7. engineSha' \in {[text |-> p, fresh |-> TRUE], engineSha}
  BY DEF StampEngine
<1>8. [text |-> p, fresh |-> TRUE] \in [text : EnginePushes \cup {"old", "part", "none"}, fresh : BOOLEAN]
  BY <1>6
<1>9. UpdateTypes'
  <2>1. engineSha' \in [text : EnginePushes \cup {"old", "part", "none"}, fresh : BOOLEAN]
    BY <1>7, <1>8 DEF UpdateIInv, UpdateTypes
  <2>2. marks' \subseteq {"dropped", "swapFailed"}
    BY <1>1 DEF UpdateIInv, UpdateTypes
  <2>. QED
    BY <1>1, <1>4, <2>1, <2>2 DEF UpdateIInv, UpdateTypes
<1>10. Carried'
  BY <1>1, <1>2, <1>5 DEF Carried
<1>11. PartialNeverLive'
  BY <1>1 DEF UpdateIInv, PartialNeverLive
<1>12. StampTellsEngine'
  BY <1>1, <1>6, <1>7 DEF UpdateIInv, StampTellsEngine
<1>. QED
  BY <1>4, <1>9, <1>10, <1>11, <1>12 DEF UpdateIInv

LEMMA VersionPollStep ==
  ASSUME UpdateIInv, VersionPoll
  PROVE  UpdateIInv'
<1>1. /\ UNCHANGED <<uploads, temps, written, bins, nand, marks, stage, helpers, agentUp, stick, running, updateFaults>>
      /\ engineSha' \in {[engineSha EXCEPT !.fresh = TRUE], [text |-> bins.engine, fresh |-> TRUE]}
      /\ engineSha' = [engineSha EXCEPT !.fresh = TRUE] => engineSha.fresh \/ engineSha'.text = bins.engine
  BY DEF VersionPoll, Trusted
<1>2. bins.engine \in EnginePushes \cup {"old", "part", "none"} /\ engineSha \in [text : EnginePushes \cup {"old", "part", "none"}, fresh : BOOLEAN]
  BY DEF UpdateIInv, UpdateTypes
<1>3. [text |-> bins.engine, fresh |-> TRUE] \in [text : EnginePushes \cup {"old", "part", "none"}, fresh : BOOLEAN]
  BY <1>2
<1>4. engineSha' \in [text : EnginePushes \cup {"old", "part", "none"}, fresh : BOOLEAN]
  BY <1>1, <1>2, <1>3
<1>5. UpdateTypes'
  BY <1>1, <1>4 DEF UpdateIInv, UpdateTypes
<1>6. OneUpload' /\ NoneOutlives' /\ Carried' /\ PartialNeverLive'
  BY <1>1 DEF UpdateIInv, OneUpload, NoneOutlives, Carried, PartialNeverLive, Busy
<1>7. StampTellsEngine'
  BY <1>1, <1>2 DEF UpdateIInv, StampTellsEngine
<1>. QED
  BY <1>5, <1>6, <1>7 DEF UpdateIInv

LEMMA RespawnStep ==
  ASSUME UpdateIInv, Respawn
  PROVE  UpdateIInv'
<1>1. /\ UNCHANGED <<uploads, temps, written, bins, engineSha, nand, marks, stage, helpers, stick, running, updateFaults>>
      /\ agentUp = "down" /\ agentUp' = "respawned"
  BY DEF Respawn
<1>. QED
  BY <1>1 DEF UpdateIInv, UpdateTypes, OneUpload, NoneOutlives, Carried, PartialNeverLive, StampTellsEngine, Busy

LEMMA TurnsReadOnlyStep ==
  ASSUME UpdateIInv, TurnsReadOnly
  PROVE  UpdateIInv'
<1>1. /\ UNCHANGED <<uploads, temps, written, bins, engineSha, marks, stage, helpers, agentUp, stick, running>>
      /\ nand' = "ro" /\ updateFaults' \in 0..MaxFaults
  BY UpdateAssumption DEF TurnsReadOnly, Faulty, UpdateIInv, UpdateTypes
<1>. QED
  BY <1>1 DEF UpdateIInv, UpdateTypes, OneUpload, NoneOutlives, Carried, PartialNeverLive, StampTellsEngine, Busy

\* Only one swap helper is at work.
LEMMA HelperMoves ==
  ASSUME UpdateIInv, NEW p \in AgentPushes, NEW from \in Held, NEW to \in Held \cup {"none"}, Helper(p, from, to)
  PROVE  /\ helpers' \in [AgentPushes -> Held \cup {"none"}] /\ helpers'[p] = to
         /\ \A q \in AgentPushes : q # p => helpers[q] = "none" /\ helpers'[q] = "none"
         /\ from # "wait" => agentUp # "first" /\ \A q \in Uploads : ~Busy(q)
         /\ \A q \in Uploads : Busy(q) => q = p /\ uploads[q].pc = "staged"
<1>1. helpers[p] = from /\ helpers' = [helpers EXCEPT ![p] = to] /\ helpers \in [AgentPushes -> Held \cup {"none"}]
  BY DEF Helper, UpdateIInv, UpdateTypes
<1>2. \A q \in AgentPushes : q # p => helpers[q] = "none"
  BY <1>1 DEF UpdateIInv, OneUpload
<1>3. from # "wait" => agentUp # "first" /\ \A q \in Uploads : ~Busy(q)
  BY <1>1 DEF UpdateIInv, NoneOutlives
<1>4. \A q \in Uploads : Busy(q) => q = p /\ uploads[q].pc = "staged"
  BY <1>1 DEF UpdateIInv, OneUpload
<1>. QED
  BY <1>1, <1>2, <1>3, <1>4

\* What a step of the helper leaves to show, when it leaves the handlers alone.
LEMMA HelperStep ==
  ASSUME UpdateIInv, NEW p \in AgentPushes, NEW from \in Held, NEW to \in Held \cup {"none"}, Helper(p, from, to),
         from # "wait" \/ to = "none", from = "wait" => agentUp' = agentUp, agentUp' = agentUp \/ agentUp' = "down", to # "wait",
         bins'.agent \in AgentPushes \cup {"old", "part"}, bins' = [bins EXCEPT !.agent = bins'.agent],
         marks' = marks \/ marks' = marks \cup {"swapFailed"}, stage' \in {stage, "none"},
         to = "reboot" => bins'.agent = p,
         bins'.agent = "part" => to \in {"copying", "check", "recopy", "recopying", "recheck"} \/ "swapFailed" \in marks' \/ (bins.agent = "part" /\ from = "wait"),
         UNCHANGED <<uploads, temps, written, engineSha, nand, stick, running, updateFaults>>
  PROVE  UpdateIInv'
<1>1. /\ helpers' \in [AgentPushes -> Held \cup {"none"}] /\ helpers'[p] = to /\ helpers[p] = from
      /\ \A q \in AgentPushes : q # p => helpers[q] = "none" /\ helpers'[q] = "none"
      /\ from # "wait" => agentUp # "first" /\ \A q \in Uploads : ~Busy(q)
      /\ \A q \in Uploads : Busy(q) => q = p /\ uploads[q].pc = "staged"
  BY HelperMoves DEF Helper
<1>2. /\ bins' \in [agent : AgentPushes \cup {"old", "part"}, engine : EnginePushes \cup {"old", "part", "none"}]
      /\ bins'.engine = bins.engine
  BY DEF UpdateIInv, UpdateTypes
<1>3. UpdateTypes'
  BY <1>1, <1>2 DEF UpdateIInv, UpdateTypes
<1>4. OneUpload' /\ NoneOutlives'
  BY <1>1 DEF UpdateIInv, OneUpload, NoneOutlives, Held, Busy
<1>5. Carried'
  <2>1. \A q \in Uploads : uploads[q].pc \in {"idle", "over", "staged"}
    BY <1>1 DEF Busy, Quiet
  <2>2. \A q \in Uploads : uploads'[q].pc = "staged" => q \in AgentPushes
    BY DEF UpdateIInv, Carried
  <2>. QED
    BY <1>1, <2>1, <2>2 DEF Carried, Held
<1>6. PartialNeverLive'
  BY <1>1 DEF UpdateIInv, PartialNeverLive, Held
<1>7. StampTellsEngine'
  BY <1>2 DEF UpdateIInv, StampTellsEngine
<1>. QED
  BY <1>3, <1>4, <1>5, <1>6, <1>7 DEF UpdateIInv

LEMMA HelpingStep ==
  ASSUME UpdateIInv, NEW p \in AgentPushes, Helping(p)
  PROVE  UpdateIInv'
<1>0. /\ bins.agent \in AgentPushes \cup {"old", "part"} /\ bins = [bins EXCEPT !.agent = bins.agent] /\ p # "part"
      /\ bins \in [agent : AgentPushes \cup {"old", "part"}, engine : EnginePushes \cup {"old", "part", "none"}]
      /\ stage \in AgentPushes \cup {"none"}
  BY UpdateAssumption DEF UpdateIInv, UpdateTypes
<1>1. CASE HelperWaits(p)
  <2>1. CASE agentUp = "first" /\ GivesUp(p, "wait") /\ UNCHANGED <<uploads, agentUp>>
    BY <1>0, <1>1, <2>1, HelperStep DEF HelperWaits, GivesUp, Held
  <2>2. CASE Helper(p, "wait", "copy") /\ UNCHANGED <<marks, stage>> /\ agentUp' # "first" /\ agentUp' \in {agentUp, "down"}
             /\ uploads' \in {uploads, [q \in Uploads |-> [uploads[q] EXCEPT !.pc = IF @ = "idle" THEN @ ELSE "over"]]}
             /\ (agentUp = "first" => uploads' # uploads \/ uploads' = [q \in Uploads |-> [uploads[q] EXCEPT !.pc = IF @ = "idle" THEN @ ELSE "over"]])
    <3>1. uploads' \in [Uploads -> UploadType] /\ \A q \in Uploads : uploads'[q].pc \in {"idle", "over"} /\ ~Busy(q)'
      <4>1. CASE uploads' = [q \in Uploads |-> [uploads[q] EXCEPT !.pc = IF @ = "idle" THEN @ ELSE "over"]]
        BY <4>1, AllOver
      <4>2. CASE uploads' = uploads /\ agentUp # "first"
        BY <4>2 DEF UpdateIInv, UpdateTypes, NoneOutlives, Busy, Quiet
      <4>. QED
        BY <2>2, <4>1, <4>2
    <3>2. /\ helpers' \in [AgentPushes -> Held \cup {"none"}] /\ helpers'[p] = "copy" /\ helpers[p] = "wait"
          /\ \A q \in AgentPushes : q # p => helpers[q] = "none" /\ helpers'[q] = "none"
      BY <2>2, HelperMoves DEF Helper, Held
    <3>3. UNCHANGED <<temps, written, bins, engineSha, nand, stick, running, updateFaults>>
      BY <1>1 DEF HelperWaits
    <3>4. UpdateTypes'
      BY <2>2, <3>1, <3>2, <3>3 DEF UpdateIInv, UpdateTypes
    <3>5. OneUpload' /\ NoneOutlives' /\ Carried'
      BY <2>2, <3>1, <3>2, <3>3 DEF OneUpload, NoneOutlives, Carried, Held
    <3>6. PartialNeverLive' /\ StampTellsEngine'
      BY <2>2, <3>2, <3>3 DEF UpdateIInv, PartialNeverLive, StampTellsEngine
    <3>. QED
      BY <3>4, <3>5, <3>6 DEF UpdateIInv
  <2>. QED
    BY <1>1, <2>1, <2>2 DEF HelperWaits
<1>2. CASE HelperChecks(p)
  <2>1. CASE bins.agent = p
    BY <1>0, <1>2, <2>1, HelperStep DEF HelperChecks, Held
  <2>2. CASE bins.agent # p
    BY <1>0, <1>2, <2>2, HelperStep DEF HelperChecks, Held
  <2>. QED
    BY <2>1, <2>2
<1>3. CASE HelperRechecks(p)
  <2>1. CASE bins.agent = p
    BY <1>0, <1>3, <2>1, HelperStep DEF HelperRechecks, Held
  <2>2. CASE bins.agent # p
    BY <1>0, <1>3, <2>2, HelperStep DEF HelperRechecks, GivesUp, Held
  <2>. QED
    BY <2>1, <2>2
<1>4. CASE HelperReboots(p)
  BY <1>4, BootedStep DEF HelperReboots, UpdateIInv, UpdateTypes
<1>5. ASSUME NEW from \in {"copy", "recopy"}, NEW during \in {"copying", "recopying"}, NEW after \in {"check", "recheck"},
             HelperCopies(p, from, during, after)
      PROVE  UpdateIInv'
  <2>1. CASE Helper(p, from, during) /\ bins' = [bins EXCEPT !.agent = "part"]
    <3>1. bins'.agent = "part"
      BY <1>0, <2>1
    <3>. QED
      BY <1>0, <1>5, <2>1, <3>1, HelperStep DEF HelperCopies, Held
  <2>2. CASE Helper(p, from, after) /\ UNCHANGED bins
    BY <1>0, <1>5, <2>2, HelperStep DEF HelperCopies, Held
  <2>. QED
    BY <1>5, <2>1, <2>2 DEF HelperCopies
<1>6. ASSUME NEW during \in {"copying", "recopying"}, NEW after \in {"check", "recheck"}, HelperCopied(p, during, after)
      PROVE  UpdateIInv'
  <2>1. bins'.agent \in AgentPushes \cup {"old", "part"} /\ bins' = [bins EXCEPT !.agent = bins'.agent]
    BY <1>0, <1>6 DEF HelperCopied
  <2>. QED
    BY <1>0, <1>6, <2>1, HelperStep DEF HelperCopied, Held
<1>. QED
  BY <1>1, <1>2, <1>3, <1>4, <1>5, <1>6 DEF Helping

LEMMA UpdateStep ==
  ASSUME UpdateIInv, ~MayOverlap, UpdateNext
  PROVE  UpdateIInv'
<1>1. ASSUME NEW p \in Uploads, Upload(p) \/ Handling(p) PROVE UpdateIInv'
  BY <1>1, UploadStep, PrepareStep, OpenTempStep, WriteTempStep, RenameTempStep, StampEngineStep DEF Handling
<1>2. ASSUME NEW p \in AgentPushes, Updating(p) PROVE UpdateIInv'
  <2>1. CASE Reboot(p)
    BY <2>1, BootedStep DEF Reboot, UpdateIInv, UpdateTypes
  <2>. QED
    BY <1>2, <2>1, VerifyStep, RefreshStickStep, StageStep, ExitStep DEF Updating
<1>3. CASE PowerCut
  <2>1. updateFaults' \in 0..MaxFaults
    BY <1>3, UpdateAssumption DEF PowerCut, Faulty, UpdateIInv, UpdateTypes
  <2>. QED
    BY <1>3, <2>1, BootedStep DEF PowerCut
<1>. QED
  BY <1>1, <1>2, <1>3, HelpingStep, VersionPollStep, RespawnStep, TurnsReadOnlyStep DEF UpdateNext

\* A reboot for an update runs what Carried says is on flash, or what the stick holds.
LEMMA RebootRuns ==
  ASSUME UpdateIInv, NEW p \in AgentPushes, Reboot(p) \/ HelperReboots(p)
  PROVE  bins.agent = p /\ running' \in {p, stick}
<1>1. bins.agent = p
  BY DEF Reboot, HelperReboots, At, UpdateIInv, Carried, Uploads
<1>2. running' \in {bins.agent, stick}
  BY DEF Reboot, HelperReboots, Booted, UpdateIInv, UpdateTypes
<1>. QED
  BY <1>1, <1>2

-----------------------------------------------------------------------------
(***************************************************************************)
(* The presets behind the keys.                                            *)
(***************************************************************************)

Saved == Radios \cup Playlists
SweepType == [pc : {"idle", "list", "forced", "write", "verify", "recheck", "rewrite", "restore", "prune"},
              seen : [KeySlotNumbers -> Saved \cup {"none"}], specs : [KeySlotNumbers -> {"none", "upnp", "native", "pending"}],
              todo : SUBSET KeySlotNumbers, ghosts : SUBSET KeySlotNumbers]
EditorType == [pc : {"idle", "dedup", "set", "box", "unbox", "sync"}, slot : KeySlotNumbers \cup {0},
               what : Saved \cup {"none", "native", "upnp"}, todo : SUBSET KeySlotNumbers]
PairingType == [pc : {"first", "idle", "post"}, last : {"nil", "yes", "no"}, account : BOOLEAN, resync : BOOLEAN]

KeyTypes ==
  /\ store \in [KeySlotNumbers -> Saved \cup {"none"}] /\ keys \in [KeySlotNumbers -> {"none", "upnp", "native"}]
  /\ native \in [stale : BOOLEAN, latched : BOOLEAN, failures : 0..NativeFailureBudget, drops : 0..NativeDropBudget]
  /\ (native.failures = NativeFailureBudget => native.latched)
  /\ sweep \in SweepType /\ editor \in EditorType
  /\ editor.pc \in {"dedup", "set", "box"} => editor.what \in Saved
  /\ editor.pc = "sync" => editor.what \in {"native", "upnp"}
  /\ seeding \in [pc : {"first", "again", "recover", "over"}, list : SUBSET KeySlotNumbers]
  /\ pairing \in PairingType /\ bootKeys \subseteq KeySlotNumbers

\* A slot that the sweep prunes is none that it writes, now or when it verifies.
GhostsApart ==
  /\ sweep.todo \cap sweep.ghosts = {}
  /\ \A s \in sweep.ghosts : sweep.specs[s] = "none"
  /\ sweep.pc \in {"list", "forced"} => sweep.todo = {} /\ sweep.ghosts = {}

\* Until the first change or failed call, a store that was lost waits for what the keys held.
Recovering ==
  /\ seeding.pc = "first" => pairing.pc = "first"
  /\ bootKeys # {} =>
       /\ editor.pc = "idle" /\ seeding.pc # "again"
       /\ seeding.pc \in {"first", "recover"} => store = NoSpecs /\ sweep.pc = "idle"
       /\ seeding.pc = "first" => \A s \in bootKeys : keys[s] \in Own
       /\ seeding.pc = "recover" => bootKeys \subseteq seeding.list
       /\ seeding.pc = "over" => bootKeys \subseteq Stored(store)

KeyIInv == KeyTypes /\ GhostsApart /\ Recovering

LEMMA InitKeys == KeyInit => KeyIInv
<1>. SUFFICES ASSUME KeyInit PROVE KeyIInv
  OBVIOUS
<1>1. NoSpecs \in [KeySlotNumbers -> {"none"}]
  BY DEF NoSpecs
<1>2. sweep \in SweepType /\ sweep = IdleSweep
  BY <1>1 DEF KeyInit, IdleSweep, SweepType
<1>3. editor \in EditorType /\ editor.pc = "idle"
  BY DEF KeyInit, IdleEditor, EditorType
<1>4. store \in [KeySlotNumbers -> Saved \cup {"none"}]
  BY <1>1 DEF KeyInit, Saved
<1>5. native \in [stale : BOOLEAN, latched : BOOLEAN, failures : 0..NativeFailureBudget, drops : 0..NativeDropBudget]
      /\ native.failures # NativeFailureBudget
  BY KeySlotsAssumption DEF KeyInit
<1>6. seeding \in [pc : {"first", "again", "recover", "over"}, list : SUBSET KeySlotNumbers] /\ pairing.pc = "first" /\ pairing \in PairingType
      /\ bootKeys \subseteq KeySlotNumbers /\ keys \in [KeySlotNumbers -> {"none", "upnp", "native"}] /\ seeding.pc = "first"
  BY DEF KeyInit, PairingType
<1>7. KeyTypes
  BY <1>2, <1>3, <1>4, <1>5, <1>6 DEF KeyTypes
<1>8. GhostsApart
  BY <1>2 DEF GhostsApart, IdleSweep
<1>9. Recovering
  BY <1>2, <1>3, <1>6 DEF KeyInit, Recovering, IdleSweep, Own
<1>. QED
  BY <1>7, <1>8, <1>9 DEF KeyIInv

LEMMA KeysHold == KeyIInv => KeySlotsInv
<1>. SUFFICES ASSUME KeyIInv PROVE KeySlotsInv
  OBVIOUS
<1>1. KeySlotsTypeOK
  BY DEF KeyIInv, KeyTypes, GhostsApart, KeySlotsTypeOK, Own, Saved
<1>2. LostStoreReturns
  BY DEF KeyIInv, Recovering, LostStoreReturns
<1>. QED
  BY <1>1, <1>2 DEF KeySlotsInv

\* A write gives the key a form or leaves it, and a failed one is a change.
LEMMA Writes ==
  ASSUME KeyIInv, NEW s, NEW form,
         AddUpnp(s) \/ (NativeRefused(s) /\ NoUpset) \/ (NativeTaken(s) /\ NoUpset) \/ Write(s, form)
  PROVE  /\ keys' \in [KeySlotNumbers -> {"none", "upnp", "native"}]
         /\ bootKeys' = bootKeys \/ bootKeys' = {}
  BY DEF AddUpnp, NativeRefused, NativeTaken, Write, Upset, NoUpset, KeyIInv, KeyTypes

\* What a step leaves to show that leaves the sweep, the editor and the store alone.
LEMMA RecoveringKept ==
  ASSUME Recovering, bootKeys' = bootKeys \/ bootKeys' = {}, UNCHANGED <<seeding, store>>,
         seeding.pc = "first" => pairing' = pairing,
         bootKeys' # {} => sweep'.pc = "idle" \/ sweep.pc # "idle" \/ Stored(store) # {},
         bootKeys' # {} => editor'.pc = "idle" \/ editor.pc # "idle",
         bootKeys' # {} /\ seeding.pc = "first" => UNCHANGED keys \/ sweep.pc # "idle" \/ Stored(store) # {} \/ editor.pc # "idle"
  PROVE  Recovering'
<1>1. Stored(NoSpecs) = {}
  BY DEF Stored, NoSpecs
<1>. QED
  BY <1>1 DEF Recovering, Stored

SweepFrame == UNCHANGED <<store, radioReady, editor, pairing, seeding>>

\* A sweep's own step.
LEMMA SweepMoves ==
  ASSUME KeyIInv, SweepFrame, sweep' \in SweepType, sweep.pc # "idle",
         keys' \in [KeySlotNumbers -> {"none", "upnp", "native"}], bootKeys' = bootKeys \/ bootKeys' = {},
         native' \in [stale : BOOLEAN, latched : BOOLEAN, failures : 0..NativeFailureBudget, drops : 0..NativeDropBudget],
         native'.failures = NativeFailureBudget => native'.latched,
         GhostsApart'
  PROVE  KeyIInv'
<1>1. KeyTypes'
  BY DEF KeyIInv, KeyTypes, SweepFrame
<1>2. Recovering'
  BY RecoveringKept DEF KeyIInv, SweepFrame
<1>. QED
  BY <1>1, <1>2 DEF KeyIInv

LEMMA SweepStartStep ==
  ASSUME KeyIInv, SweepStart
  PROVE  KeyIInv'
<1>. DEFINE pc == IF pairing.resync THEN "forced" ELSE "list"
<1>1. /\ sweep' = [IdleSweep EXCEPT !.pc = pc, !.seen = store] /\ pairing' = [pairing EXCEPT !.resync = FALSE]
      /\ Stored(store) # {} /\ UNCHANGED <<store, keys, radioReady, editor, seeding, bootKeys, upsets>>
      /\ native' \in {native, [native EXCEPT !.stale = FALSE]}
  BY DEF SweepStart
<1>2. NoSpecs \in [KeySlotNumbers -> {"none"}]
  BY DEF NoSpecs
<1>3. sweep' = [pc |-> pc, seen |-> store, specs |-> NoSpecs, todo |-> {}, ghosts |-> {}]
  BY <1>1 DEF IdleSweep
<1>4. sweep' \in SweepType /\ sweep'.todo = {} /\ sweep'.ghosts = {}
  BY <1>2, <1>3 DEF KeyIInv, KeyTypes, SweepType
<1>5. /\ native' \in [stale : BOOLEAN, latched : BOOLEAN, failures : 0..NativeFailureBudget, drops : 0..NativeDropBudget]
      /\ native'.failures = native.failures /\ native'.latched = native.latched
  BY <1>1 DEF KeyIInv, KeyTypes
<1>6. pairing' \in PairingType /\ (seeding.pc = "first" => pairing'.pc = "first")
  BY <1>1 DEF KeyIInv, KeyTypes, Recovering, PairingType
<1>7. KeyTypes'
  BY <1>1, <1>4, <1>5, <1>6 DEF KeyIInv, KeyTypes
<1>8. GhostsApart'
  BY <1>4 DEF GhostsApart
<1>9. Recovering'
  <2>1. Stored(NoSpecs) = {}
    BY DEF Stored, NoSpecs
  <2>. QED
    BY <1>1, <1>6, <2>1 DEF KeyIInv, Recovering, Stored
<1>. QED
  BY <1>7, <1>8, <1>9 DEF KeyIInv

LEMMA IdleSweepTyped == IdleSweep \in SweepType /\ IdleSweep.todo = {} /\ IdleSweep.ghosts = {}
<1>1. NoSpecs \in [KeySlotNumbers -> {"none"}]
  BY DEF NoSpecs
<1>. QED
  BY <1>1 DEF IdleSweep, SweepType

LEMMA SweepListStep ==
  ASSUME KeyIInv, SweepList
  PROVE  KeyIInv'
<1>1. sweep.pc # "idle" /\ UNCHANGED <<store, keys, radioReady, native, editor, pairing, seeding>>
  BY DEF SweepList
<1>2. bootKeys' = bootKeys \/ bootKeys' = {}
  BY DEF SweepList, Upset, NoUpset
<1>3. sweep' \in SweepType /\ GhostsApart'
  <2>1. CASE sweep' = IdleSweep
    BY <2>1, IdleSweepTyped DEF GhostsApart, IdleSweep
  <2>2. CASE sweep' # IdleSweep
    <3>. DEFINE specs == [s \in KeySlotNumbers |-> IF sweep.seen[s] = "none" THEN "none" ELSE Form(sweep.seen[s])]
    <3>1. PICK todo \in SUBSET Stored(sweep.seen) :
            sweep' = [sweep EXCEPT !.pc = "write", !.seen = NoSpecs, !.ghosts = Ghosts, !.specs = specs, !.todo = todo]
      BY <2>2 DEF SweepList
    <3>2. specs \in [KeySlotNumbers -> {"none", "upnp", "native", "pending"}]
      BY DEF Form
    <3>3. NoSpecs \in [KeySlotNumbers -> {"none"}]
      BY DEF NoSpecs
    <3>4. Ghosts \subseteq KeySlotNumbers /\ todo \subseteq KeySlotNumbers /\ todo \cap Ghosts = {} /\ \A s \in Ghosts : specs[s] = "none"
      BY DEF Ghosts, Stored
    <3>5. sweep' = [pc |-> "write", seen |-> NoSpecs, specs |-> specs, todo |-> todo, ghosts |-> Ghosts]
      <4>. HIDE DEF specs
      <4>. QED
        BY <3>1 DEF KeyIInv, KeyTypes, SweepType
    <3>. HIDE DEF specs
    <3>6. sweep' \in SweepType
      BY <3>2, <3>3, <3>4, <3>5 DEF SweepType
    <3>. QED
      BY <3>4, <3>5, <3>6 DEF GhostsApart
  <2>. QED
    BY <2>1, <2>2
<1>. QED
  BY <1>1, <1>2, <1>3, SweepMoves DEF KeyIInv, KeyTypes, SweepFrame

\* What the sweep still has to write shrinks.
LEMMA TodoShrinks ==
  ASSUME KeyIInv, NEW s \in sweep.todo, NEW specs \in [KeySlotNumbers -> {"none", "upnp", "native", "pending"}],
         \A t \in sweep.ghosts : specs[t] = "none", sweep.pc \notin {"list", "forced"},
         sweep' = [sweep EXCEPT !.todo = sweep.todo \ {s}, !.specs = specs]
  PROVE  sweep' \in SweepType /\ GhostsApart'
<1>1. sweep \in SweepType
  BY DEF KeyIInv, KeyTypes
<1>2. sweep' \in SweepType /\ sweep'.todo = sweep.todo \ {s} /\ sweep'.specs = specs /\ sweep'.ghosts = sweep.ghosts /\ sweep'.pc = sweep.pc
  BY <1>1 DEF SweepType
<1>. QED
  BY <1>2 DEF KeyIInv, GhostsApart

\* The sweep goes on to pc.
LEMMA SweepGoes ==
  ASSUME KeyIInv, NEW pc \in {"verify", "recheck", "rewrite", "restore", "prune"}, NEW todo \in SUBSET KeySlotNumbers, todo \cap sweep.ghosts = {},
         sweep' = [sweep EXCEPT !.pc = pc, !.todo = todo]
  PROVE  sweep' \in SweepType /\ GhostsApart'
<1>1. sweep \in SweepType
  BY DEF KeyIInv, KeyTypes
<1>2. sweep' \in SweepType /\ sweep'.todo = todo /\ sweep'.specs = sweep.specs /\ sweep'.ghosts = sweep.ghosts /\ sweep'.pc = pc
  BY <1>1 DEF SweepType
<1>. QED
  BY <1>2 DEF KeyIInv, GhostsApart

LEMMA SweepWriteStep ==
  ASSUME KeyIInv, SweepWrite
  PROVE  KeyIInv'
<1>0. sweep \in SweepType /\ sweep.pc = "write"
  BY DEF SweepWrite, KeyIInv, KeyTypes
<1>1. UNCHANGED <<store, radioReady, native, editor, pairing, seeding>>
  BY DEF SweepWrite
<1>2. CASE sweep.todo = {} /\ sweep' = [sweep EXCEPT !.pc = "verify"] /\ UNCHANGED keys /\ NoUpset
  <2>1. sweep' = [sweep EXCEPT !.pc = "verify", !.todo = {}]
    BY <1>0, <1>2 DEF SweepType
  <2>. QED
    BY <1>0, <1>1, <1>2, <2>1, SweepGoes, SweepMoves DEF KeyIInv, KeyTypes, SweepFrame, NoUpset
<1>3. ASSUME NEW s \in sweep.todo, Write(s, sweep.specs[s]),
             sweep' = [sweep EXCEPT !.todo = @ \ {s}, !.specs[s] = IF @ = "native" THEN "pending" ELSE "none"]
      PROVE  KeyIInv'
  <2>. DEFINE specs == [sweep.specs EXCEPT ![s] = IF sweep.specs[s] = "native" THEN "pending" ELSE "none"]
  <2>1. specs \in [KeySlotNumbers -> {"none", "upnp", "native", "pending"}] /\ \A t \in sweep.ghosts : specs[t] = "none"
    BY <1>0 DEF SweepType, KeyIInv, GhostsApart
  <2>2. sweep' = [sweep EXCEPT !.todo = sweep.todo \ {s}, !.specs = specs]
    BY <1>0, <1>3 DEF SweepType
  <2>3. sweep' \in SweepType /\ GhostsApart'
    <3>. HIDE DEF specs
    <3>. QED
      BY <1>0, <2>1, <2>2, TodoShrinks
  <2>. QED
    BY <1>0, <1>1, <1>3, <2>3, Writes, SweepMoves DEF KeyIInv, KeyTypes, SweepFrame
<1>. QED
  BY <1>2, <1>3 DEF SweepWrite, First

LEMMA SweepVerifyStep ==
  ASSUME KeyIInv, SweepVerify
  PROVE  KeyIInv'
<1>0. sweep \in SweepType /\ sweep.pc \in {"verify", "recheck"}
      /\ native \in [stale : BOOLEAN, latched : BOOLEAN, failures : 0..NativeFailureBudget, drops : 0..NativeDropBudget]
  BY DEF SweepVerify, KeyIInv, KeyTypes
<1>1. /\ UNCHANGED <<store, keys, radioReady, editor, pairing, seeding>> /\ (bootKeys' = bootKeys \/ bootKeys' = {})
      /\ native' \in {native, [native EXCEPT !.failures = 0]}
  BY DEF SweepVerify, Landed, Upset, NoUpset
<1>2. /\ native' \in [stale : BOOLEAN, latched : BOOLEAN, failures : 0..NativeFailureBudget, drops : 0..NativeDropBudget]
      /\ native'.failures = NativeFailureBudget => native'.latched
  BY <1>0, <1>1, KeySlotsAssumption DEF KeyIInv, KeyTypes
<1>3. sweep' \in SweepType /\ GhostsApart'
  <2>1. CASE sweep' = [sweep EXCEPT !.pc = "prune"]
    <3>1. sweep' = [sweep EXCEPT !.pc = "prune", !.todo = sweep.todo]
      BY <1>0, <2>1 DEF SweepType
    <3>. QED
      BY <1>0, <3>1, SweepGoes DEF KeyIInv, GhostsApart, SweepType
  <2>2. CASE sweep' = [sweep EXCEPT !.pc = IF @ = "verify" THEN "rewrite" ELSE "restore", !.todo = LostNow]
    <3>1. LostNow \subseteq KeySlotNumbers /\ LostNow \cap sweep.ghosts = {}
      BY DEF LostNow, Pending, KeyIInv, GhostsApart
    <3>2. sweep' = [sweep EXCEPT !.pc = "rewrite", !.todo = LostNow] \/ sweep' = [sweep EXCEPT !.pc = "restore", !.todo = LostNow]
      BY <2>2
    <3>. QED
      BY <3>1, <3>2, SweepGoes
  <2>. QED
    BY <2>1, <2>2 DEF SweepVerify
<1>. QED
  BY <1>0, <1>1, <1>2, <1>3, SweepMoves DEF KeyIInv, KeyTypes, SweepFrame

LEMMA SweepRewriteStep ==
  ASSUME KeyIInv, SweepRewrite
  PROVE  KeyIInv'
<1>0. sweep \in SweepType /\ sweep.pc = "rewrite" /\ sweep.specs \in [KeySlotNumbers -> {"none", "upnp", "native", "pending"}]
  BY DEF SweepRewrite, KeyIInv, KeyTypes, SweepType
<1>1. UNCHANGED <<store, radioReady, native, editor, pairing, seeding, bootKeys, upsets>>
  BY DEF SweepRewrite
<1>2. CASE sweep.todo = {} /\ sweep' = [sweep EXCEPT !.pc = "recheck"] /\ UNCHANGED keys
  <2>1. sweep' = [sweep EXCEPT !.pc = "recheck", !.todo = {}]
    BY <1>0, <1>2 DEF SweepType
  <2>. QED
    <3>1. SweepFrame
      BY <1>1, <1>2 DEF KeyIInv, KeyTypes, SweepFrame
    <3>. QED
      <4>1. {} \in SUBSET KeySlotNumbers /\ {} \cap sweep.ghosts = {}
        OBVIOUS
      <4>2. sweep' \in SweepType /\ GhostsApart'
        BY <2>1, <4>1, SweepGoes
      <4>3. /\ keys' \in [KeySlotNumbers -> {"none", "upnp", "native"}]
            /\ native' \in [stale : BOOLEAN, latched : BOOLEAN, failures : 0..NativeFailureBudget, drops : 0..NativeDropBudget]
            /\ native'.failures = NativeFailureBudget => native'.latched
        BY <1>1, <1>2 DEF KeyIInv, KeyTypes
      <4>. QED
        BY <1>0, <1>1, <3>1, <4>2, <4>3, SweepMoves
<1>3. ASSUME NEW s \in sweep.todo, NativeRefused(s) \/ NativeTaken(s), sweep' = [sweep EXCEPT !.todo = @ \ {s}]
      PROVE  KeyIInv'
  <2>1. sweep' = [sweep EXCEPT !.todo = sweep.todo \ {s}, !.specs = sweep.specs]
    BY <1>0, <1>3 DEF SweepType
  <2>2. sweep' \in SweepType /\ GhostsApart'
    BY <1>0, <2>1, TodoShrinks DEF KeyIInv, GhostsApart
  <2>. QED
    BY <1>0, <1>1, <1>3, <2>2, Writes, SweepMoves DEF KeyIInv, KeyTypes, SweepFrame, NoUpset
<1>. QED
  BY <1>2, <1>3 DEF SweepRewrite, First

LEMMA SweepRestoreStep ==
  ASSUME KeyIInv, SweepRestore
  PROVE  KeyIInv'
<1>0. sweep \in SweepType /\ sweep.pc = "restore" /\ sweep.specs \in [KeySlotNumbers -> {"none", "upnp", "native", "pending"}]
      /\ native \in [stale : BOOLEAN, latched : BOOLEAN, failures : 0..NativeFailureBudget, drops : 0..NativeDropBudget]
  BY DEF SweepRestore, KeyIInv, KeyTypes, SweepType
<1>1. UNCHANGED <<store, radioReady, editor, pairing, seeding>>
  BY DEF SweepRestore
<1>2. CASE sweep.todo = {} /\ sweep' = [sweep EXCEPT !.pc = "prune"] /\ CountFailure /\ UNCHANGED keys /\ NoUpset
  <2>1. sweep' = [sweep EXCEPT !.pc = "prune", !.todo = {}]
    BY <1>0, <1>2 DEF SweepType
  <2>2. /\ native' \in [stale : BOOLEAN, latched : BOOLEAN, failures : 0..NativeFailureBudget, drops : 0..NativeDropBudget]
        /\ native'.failures = NativeFailureBudget => native'.latched
    <3>1. /\ native'.failures = (IF native.failures < NativeFailureBudget THEN native.failures + 1 ELSE native.failures)
          /\ native'.latched = (native.latched \/ native.failures + 1 >= NativeFailureBudget)
          /\ native' = [stale |-> native.stale, latched |-> native'.latched, failures |-> native'.failures, drops |-> native.drops]
      BY <1>0, <1>2 DEF CountFailure
    <3>2. /\ native'.failures \in 0..NativeFailureBudget /\ native'.latched \in BOOLEAN
          /\ native.stale \in BOOLEAN /\ native.drops \in 0..NativeDropBudget
      BY <1>0, <3>1, KeySlotsAssumption
    <3>a. ASSUME NEW st \in BOOLEAN, NEW l \in BOOLEAN, NEW f \in 0..NativeFailureBudget, NEW d \in 0..NativeDropBudget
          PROVE  [stale |-> st, latched |-> l, failures |-> f, drops |-> d]
                   \in [stale : BOOLEAN, latched : BOOLEAN, failures : 0..NativeFailureBudget, drops : 0..NativeDropBudget]
      OBVIOUS
    <3>b. PICK l \in BOOLEAN, f \in 0..NativeFailureBudget :
            native' = [stale |-> native.stale, latched |-> l, failures |-> f, drops |-> native.drops]
      BY <3>1, <3>2
    <3>3. native' \in [stale : BOOLEAN, latched : BOOLEAN, failures : 0..NativeFailureBudget, drops : 0..NativeDropBudget]
      BY <3>2, <3>a, <3>b, Zenon
    <3>4. native'.failures = NativeFailureBudget => native.failures + 1 >= NativeFailureBudget
      BY <1>0, <3>1, KeySlotsAssumption
    <3>. QED
      BY <3>1, <3>3, <3>4
  <2>. QED
    <3>1. UNCHANGED <<keys, bootKeys, upsets>>
      BY <1>2 DEF NoUpset
    <3>2. SweepFrame
      BY <1>1, <2>2, <3>1 DEF KeyIInv, KeyTypes, SweepFrame
    <3>. QED
      <4>1. {} \in SUBSET KeySlotNumbers /\ {} \cap sweep.ghosts = {}
        OBVIOUS
      <4>2. sweep' \in SweepType /\ GhostsApart'
        BY <2>1, <4>1, SweepGoes
      <4>3. keys' \in [KeySlotNumbers -> {"none", "upnp", "native"}]
        BY <3>1 DEF KeyIInv, KeyTypes
      <4>. QED
        BY <1>0, <2>2, <3>1, <3>2, <4>2, <4>3, SweepMoves
<1>3. ASSUME NEW s \in sweep.todo, AddUpnp(s), sweep' = [sweep EXCEPT !.todo = @ \ {s}], UNCHANGED native
      PROVE  KeyIInv'
  <2>1. sweep' = [sweep EXCEPT !.todo = sweep.todo \ {s}, !.specs = sweep.specs]
    BY <1>0, <1>3 DEF SweepType
  <2>2. sweep' \in SweepType /\ GhostsApart'
    BY <1>0, <2>1, TodoShrinks DEF KeyIInv, GhostsApart
  <2>. QED
    BY <1>0, <1>1, <1>3, <2>2, Writes, SweepMoves DEF KeyIInv, KeyTypes, SweepFrame
<1>. QED
  BY <1>2, <1>3 DEF SweepRestore, First

LEMMA SweepPruneStep ==
  ASSUME KeyIInv, SweepPrune
  PROVE  KeyIInv'
<1>0. sweep \in SweepType /\ sweep.pc = "prune"
  BY DEF SweepPrune, KeyIInv, KeyTypes
<1>1. /\ UNCHANGED <<store, radioReady, native, editor, pairing, seeding>> /\ (bootKeys' = bootKeys \/ bootKeys' = {})
      /\ keys' \in [KeySlotNumbers -> {"none", "upnp", "native"}]
  BY DEF SweepPrune, Upset, NoUpset, KeyIInv, KeyTypes
<1>2. sweep' \in SweepType /\ GhostsApart'
  <2>1. CASE sweep' = IdleSweep
    BY <2>1, IdleSweepTyped DEF GhostsApart, IdleSweep
  <2>2. ASSUME NEW s, sweep' = [sweep EXCEPT !.ghosts = @ \ {s}] PROVE sweep' \in SweepType /\ GhostsApart'
    <3>1. sweep' \in SweepType /\ sweep'.ghosts = sweep.ghosts \ {s} /\ sweep'.todo = sweep.todo /\ sweep'.specs = sweep.specs /\ sweep'.pc = "prune"
      BY <1>0, <2>2 DEF SweepType
    <3>. QED
      BY <3>1 DEF KeyIInv, GhostsApart
  <2>. QED
    BY <2>1, <2>2 DEF SweepPrune
<1>. QED
  BY <1>0, <1>1, <1>2, SweepMoves DEF KeyIInv, KeyTypes, SweepFrame

\* A step that is not the sweep's.
LEMMA OtherMoves ==
  ASSUME KeyIInv, UNCHANGED <<sweep, seeding>>, bootKeys' = bootKeys \/ bootKeys' = {},
         store' \in [KeySlotNumbers -> Saved \cup {"none"}], keys' \in [KeySlotNumbers -> {"none", "upnp", "native"}],
         native' \in [stale : BOOLEAN, latched : BOOLEAN, failures : 0..NativeFailureBudget, drops : 0..NativeDropBudget],
         native'.failures = NativeFailureBudget => native'.latched,
         editor' \in EditorType, editor'.pc \in {"dedup", "set", "box"} => editor'.what \in Saved,
         editor'.pc = "sync" => editor'.what \in {"native", "upnp"},
         pairing' \in PairingType, seeding.pc = "first" => pairing'.pc = "first",
         bootKeys' # {} => UNCHANGED <<editor, store>> /\ (seeding.pc = "first" => UNCHANGED keys)
  PROVE  KeyIInv'
<1>1. KeyTypes'
  BY DEF KeyIInv, KeyTypes
<1>2. GhostsApart'
  BY DEF KeyIInv, GhostsApart
<1>3. Recovering'
  BY DEF KeyIInv, Recovering, Stored
<1>. QED
  BY <1>1, <1>2, <1>3 DEF KeyIInv

\* A step of the handler of the app: it was woken by a change, so there is no history any more.
LEMMA EditorMoves ==
  ASSUME KeyIInv, UNCHANGED <<radioReady, native, sweep, pairing, seeding>>, editor.pc # "idle" \/ bootKeys' = {},
         bootKeys' = bootKeys \/ bootKeys' = {},
         store' \in [KeySlotNumbers -> Saved \cup {"none"}], keys' \in [KeySlotNumbers -> {"none", "upnp", "native"}],
         editor' \in EditorType, editor'.pc \in {"dedup", "set", "box"} => editor'.what \in Saved,
         editor'.pc = "sync" => editor'.what \in {"native", "upnp"}
  PROVE  KeyIInv'
<1>1. bootKeys' = {}
  BY DEF KeyIInv, Recovering
<1>. QED
  BY <1>1, OtherMoves DEF KeyIInv, KeyTypes, Recovering

LEMMA IdleEditorTyped == IdleEditor \in EditorType /\ IdleEditor.pc = "idle"
  BY DEF IdleEditor, EditorType

LEMMA EditorGoesOn ==
  ASSUME KeyIInv, NEW pc \in {"set", "box"}, EditorGoes(pc), editor.pc \in {"dedup", "set"}
  PROVE  editor' \in EditorType /\ editor'.pc = pc /\ editor'.what = editor.what /\ editor.what \in Saved
  BY DEF EditorGoes, EditorType, KeyIInv, KeyTypes

LEMMA EditingStep ==
  ASSUME KeyIInv, Editing
  PROVE  KeyIInv'
<1>0. /\ store \in [KeySlotNumbers -> Saved \cup {"none"}] /\ keys \in [KeySlotNumbers -> {"none", "upnp", "native"}]
      /\ editor \in EditorType /\ (editor.pc \in {"dedup", "set", "box"} => editor.what \in Saved)
      /\ (editor.pc = "sync" => editor.what \in {"native", "upnp"})
  BY DEF KeyIInv, KeyTypes
<1>1. CASE SaveDedup
  <2>1. UNCHANGED <<radioReady, native, sweep, pairing, seeding>> /\ editor.pc = "dedup" /\ (bootKeys' = bootKeys \/ bootKeys' = {})
    BY <1>1 DEF SaveDedup, Upset, NoUpset
  <2>2. CASE Twins = {}
    <3>1. EditorGoes("set") /\ UNCHANGED <<store, keys>>
      BY <1>1, <2>2 DEF SaveDedup
    <3>. QED
      BY <1>0, <2>1, <3>1, EditorGoesOn, EditorMoves
  <2>3. CASE Twins # {}
    <3>1. PICK s \in Twins : /\ store' = [store EXCEPT ![s] = "none"] /\ UNCHANGED editor
                             /\ keys' = keys \/ keys' = [keys EXCEPT ![s] = "none"]
      BY <1>1, <2>3 DEF SaveDedup
    <3>2. store' \in [KeySlotNumbers -> Saved \cup {"none"}] /\ keys' \in [KeySlotNumbers -> {"none", "upnp", "native"}]
      BY <1>0, <3>1
    <3>. QED
      BY <1>0, <2>1, <3>1, <3>2, EditorMoves
  <2>. QED
    BY <2>2, <2>3
<1>2. CASE SaveSet
  <2>1. UNCHANGED <<keys, radioReady, native, sweep, pairing, seeding>> /\ editor.pc = "set" /\ (bootKeys' = bootKeys \/ bootKeys' = {})
    BY <1>2 DEF SaveSet, Upset, NoUpset
  <2>2. store' \in [KeySlotNumbers -> Saved \cup {"none"}]
    BY <1>0, <1>2, <2>1 DEF SaveSet
  <2>3. EditorGoes("box") \/ editor' = IdleEditor
    BY <1>2 DEF SaveSet
  <2>4. editor' \in EditorType /\ (editor'.pc \in {"dedup", "set", "box"} => editor'.what \in Saved) /\ editor'.pc # "sync"
    BY <2>1, <2>3, EditorGoesOn, IdleEditorTyped
  <2>. QED
    BY <1>0, <2>1, <2>2, <2>4, EditorMoves
<1>3. CASE SaveBox
  <2>1. /\ UNCHANGED <<store, radioReady, native, sweep, pairing, seeding>> /\ editor.pc = "box"
        /\ editor' = IdleEditor /\ Write(editor.slot, Form(editor.what))
    BY <1>3 DEF SaveBox
  <2>2. keys' \in [KeySlotNumbers -> {"none", "upnp", "native"}] /\ (bootKeys' = bootKeys \/ bootKeys' = {})
    BY <2>1, Writes
  <2>. QED
    BY <1>0, <2>1, <2>2, IdleEditorTyped, EditorMoves
<1>4. CASE DeleteBox
  <2>1. /\ UNCHANGED <<store, radioReady, native, sweep, pairing, seeding>> /\ editor.pc = "unbox" /\ editor' = IdleEditor
        /\ keys' \in [KeySlotNumbers -> {"none", "upnp", "native"}] /\ (bootKeys' = bootKeys \/ bootKeys' = {})
    BY <1>0, <1>4 DEF DeleteBox, Upset, NoUpset
  <2>. QED
    BY <1>0, <2>1, IdleEditorTyped, EditorMoves
<1>5. CASE SyncBox
  <2>1. UNCHANGED <<store, radioReady, native, sweep, pairing, seeding>> /\ editor.pc = "sync"
    BY <1>5 DEF SyncBox
  <2>2. CASE editor' = IdleEditor /\ UNCHANGED keys /\ NoUpset
    BY <1>0, <2>1, <2>2, IdleEditorTyped, EditorMoves DEF NoUpset
  <2>3. ASSUME NEW s, Write(s, editor.what), editor' = [editor EXCEPT !.todo = @ \ {s}] PROVE KeyIInv'
    <3>1. keys' \in [KeySlotNumbers -> {"none", "upnp", "native"}] /\ (bootKeys' = bootKeys \/ bootKeys' = {})
      BY <2>3, Writes
    <3>2. editor' \in EditorType /\ editor'.pc = "sync" /\ editor'.what = editor.what
      BY <1>0, <2>1, <2>3 DEF EditorType
    <3>. QED
      BY <1>0, <2>1, <3>1, <3>2, EditorMoves
  <2>. QED
    BY <1>5, <2>2, <2>3 DEF SyncBox
<1>. QED
  BY <1>1, <1>2, <1>3, <1>4, <1>5 DEF Editing

\* What the user asks for.
LEMMA RequestStep ==
  ASSUME KeyIInv, (\E s \in KeySlotNumbers : DeletePreset(s) \/ \E c \in Radios \cup Playlists : Save(s, c)) \/ SyncPresets
  PROVE  KeyIInv'
<1>0. store \in [KeySlotNumbers -> Saved \cup {"none"}] /\ keys \in [KeySlotNumbers -> {"none", "upnp", "native"}]
  BY DEF KeyIInv, KeyTypes
<1>1. ASSUME NEW s \in KeySlotNumbers, NEW c \in Saved, Save(s, c) PROVE KeyIInv'
  <2>1. /\ UNCHANGED <<store, keys, radioReady, native, sweep, pairing, seeding>> /\ bootKeys' = {}
        /\ editor' = [pc |-> "dedup", slot |-> s, what |-> c, todo |-> {}]
    BY <1>1 DEF Save, Edit, Upset
  <2>2. editor' \in EditorType /\ editor'.pc = "dedup" /\ editor'.what = c
    BY <2>1 DEF EditorType
  <2>. QED
    BY <1>0, <2>1, <2>2, EditorMoves
<1>2. ASSUME NEW s \in KeySlotNumbers, DeletePreset(s) PROVE KeyIInv'
  <2>1. /\ UNCHANGED <<keys, radioReady, native, sweep, pairing, seeding>> /\ bootKeys' = {}
        /\ store' = [store EXCEPT ![s] = "none"] /\ editor' = [IdleEditor EXCEPT !.pc = "unbox", !.slot = s]
    BY <1>2 DEF DeletePreset, Edit, Upset
  <2>2. editor' \in EditorType /\ editor'.pc = "unbox"
    BY <2>1 DEF EditorType, IdleEditor
  <2>3. store' \in [KeySlotNumbers -> Saved \cup {"none"}]
    BY <1>0, <2>1
  <2>. QED
    BY <1>0, <2>1, <2>2, <2>3, EditorMoves
<1>3. CASE SyncPresets
  <2>1. /\ UNCHANGED <<store, keys, radioReady, native, sweep, pairing, seeding>> /\ bootKeys' = {}
        /\ editor' = [IdleEditor EXCEPT !.pc = "sync", !.todo = Stored(store), !.what = IF Ready THEN "native" ELSE "upnp"]
    BY <1>3 DEF SyncPresets, Edit, Upset
  <2>2. editor' \in EditorType /\ editor'.pc = "sync" /\ editor'.what \in {"native", "upnp"}
    BY <2>1 DEF EditorType, IdleEditor, Stored
  <2>. QED
    BY <1>0, <2>1, <2>2, EditorMoves
<1>. QED
  BY <1>1, <1>2, <1>3 DEF Saved

LEMMA PairingStep ==
  ASSUME KeyIInv, Pairing
  PROVE  KeyIInv'
<1>0. /\ store \in [KeySlotNumbers -> Saved \cup {"none"}] /\ keys \in [KeySlotNumbers -> {"none", "upnp", "native"}]
      /\ editor \in EditorType /\ (editor.pc \in {"dedup", "set", "box"} => editor.what \in Saved)
      /\ (editor.pc = "sync" => editor.what \in {"native", "upnp"})
      /\ native \in [stale : BOOLEAN, latched : BOOLEAN, failures : 0..NativeFailureBudget, drops : 0..NativeDropBudget]
      /\ (native.failures = NativeFailureBudget => native.latched) /\ (seeding.pc = "first" => pairing.pc = "first") /\ pairing \in PairingType
  BY DEF KeyIInv, KeyTypes, Recovering
<1>1. CASE PairCheck
  <2>1. /\ UNCHANGED <<store, keys, radioReady, native, sweep, editor, seeding, bootKeys, upsets>> /\ seeding.pc # "first"
    BY <1>1 DEF PairCheck, MayPair
  <2>2. PICK clockSane \in BOOLEAN : pairing' = [pairing EXCEPT
       !.pc = IF clockSane /\ (pairing.pc = "first" \/ ~pairing.account) THEN "post" ELSE "idle",
       !.last = IF pairing.account THEN "yes" ELSE "no",
       !.resync = @ \/ (pairing.account /\ pairing.last = "no")]
    BY <1>1 DEF PairCheck
  <2>3. pairing' \in PairingType
    <3>1. PICK pc \in {"idle", "post"}, last \in {"yes", "no"}, r \in BOOLEAN : pairing' = [pairing EXCEPT !.pc = pc, !.last = last, !.resync = r]
      <4>1. (pairing.resync \/ (pairing.account /\ pairing.last = "no")) \in BOOLEAN
        OBVIOUS
      <4>. QED
        BY <1>0, <2>2, <4>1 DEF PairingType
    <3>. QED
      BY <1>0, <3>1 DEF PairingType
  <2>. QED
    BY <1>0, <2>1, <2>3, OtherMoves
<1>2. CASE PairPost
  <2>1. /\ UNCHANGED <<store, radioReady, native, sweep, editor, seeding>> /\ seeding.pc # "first" /\ (bootKeys' = bootKeys \/ bootKeys' = {})
    BY <1>0, <1>2 DEF PairPost, Upset, NoUpset
  <2>2. pairing' \in PairingType
    BY <1>0, <1>2 DEF PairPost, PairingType
  <2>3. keys' \in [KeySlotNumbers -> {"none", "upnp", "native"}]
    BY <1>0, <1>2 DEF PairPost, NoSpecs
  <2>. QED
    BY <1>0, <2>1, <2>2, <2>3, OtherMoves
<1>. QED
  BY <1>1, <1>2 DEF Pairing

LEMMA SeedingStep ==
  ASSUME KeyIInv, Seeding
  PROVE  KeyIInv'
<1>1. CASE SeedRead
  <2>1. /\ UNCHANGED <<store, keys, radioReady, native, sweep, editor, pairing>>
        /\ \/ seeding' = [pc |-> "recover", list |-> {s \in KeySlotNumbers : keys[s] \in Own}] /\ bootKeys' = bootKeys
           \/ seeding' = [seeding EXCEPT !.pc = "again"] /\ bootKeys' = {}
        /\ seeding.pc \in {"first", "again"}
    BY <1>1 DEF SeedRead, Upset, NoUpset
  <2>2. /\ seeding' \in [pc : {"first", "again", "recover", "over"}, list : SUBSET KeySlotNumbers]
        /\ seeding'.pc \in {"recover", "again"} /\ (seeding'.pc = "again" => bootKeys' = {})
        /\ seeding'.pc = "recover" => seeding'.list = {s \in KeySlotNumbers : keys[s] \in Own} /\ bootKeys' = bootKeys
    BY <2>1 DEF KeyIInv, KeyTypes
  <2>3. KeyTypes'
    BY <2>1, <2>2 DEF KeyIInv, KeyTypes
  <2>4. GhostsApart'
    BY <2>1 DEF KeyIInv, GhostsApart
  <2>5. Recovering'
    BY <2>1, <2>2 DEF KeyIInv, KeyTypes, Recovering
  <2>. QED
    BY <2>3, <2>4, <2>5 DEF KeyIInv
<1>2. CASE SeedRecover
  <2>1. /\ UNCHANGED <<keys, radioReady, native, sweep, editor, pairing, bootKeys, upsets>>
        /\ seeding.pc = "recover" /\ seeding' = [seeding EXCEPT !.pc = "over"]
    BY <1>2 DEF SeedRecover
  <2>2. PICK c \in Radios : store' = IF Stored(store) # {} THEN store
                                     ELSE [s \in KeySlotNumbers |-> IF s \in seeding.list THEN c ELSE "none"]
    BY <1>2 DEF SeedRecover
  <2>3. c # "none" /\ c \in Saved
    BY KeySlotsAssumption DEF Saved
  <2>4. store' \in [KeySlotNumbers -> Saved \cup {"none"}]
    BY <2>2, <2>3 DEF KeyIInv, KeyTypes
  <2>5. seeding' \in [pc : {"first", "again", "recover", "over"}, list : SUBSET KeySlotNumbers] /\ seeding'.pc = "over"
    BY <2>1 DEF KeyIInv, KeyTypes
  <2>6. KeyTypes'
    BY <2>1, <2>4, <2>5 DEF KeyIInv, KeyTypes
  <2>7. GhostsApart'
    BY <2>1 DEF KeyIInv, GhostsApart
  <2>8. bootKeys # {} => bootKeys \subseteq Stored(store)'
    <3>. SUFFICES ASSUME bootKeys # {} PROVE bootKeys \subseteq Stored(store)'
      OBVIOUS
    <3>1. store = NoSpecs /\ bootKeys \subseteq seeding.list /\ bootKeys \subseteq KeySlotNumbers
      BY <2>1 DEF KeyIInv, KeyTypes, Recovering
    <3>2. Stored(store) = {}
      BY <3>1 DEF Stored, NoSpecs
    <3>. QED
      BY <2>2, <2>3, <3>1, <3>2 DEF Stored
  <2>9. Recovering'
    BY <2>1, <2>5, <2>8 DEF KeyIInv, Recovering
  <2>. QED
    BY <2>6, <2>7, <2>9 DEF KeyIInv
<1>. QED
  BY <1>1, <1>2 DEF Seeding

LEMMA SpeakerChangesStep ==
  ASSUME KeyIInv, ForgetVerdict \/ NativeDropped \/ LoseAccount \/ RadioSourceChanges
  PROVE  KeyIInv'
<1>0. /\ store \in [KeySlotNumbers -> Saved \cup {"none"}] /\ keys \in [KeySlotNumbers -> {"none", "upnp", "native"}]
      /\ editor \in EditorType /\ (editor.pc \in {"dedup", "set", "box"} => editor.what \in Saved)
      /\ (editor.pc = "sync" => editor.what \in {"native", "upnp"})
      /\ native \in [stale : BOOLEAN, latched : BOOLEAN, failures : 0..NativeFailureBudget, drops : 0..NativeDropBudget]
      /\ (native.failures = NativeFailureBudget => native.latched)
      /\ (seeding.pc = "first" => pairing.pc = "first") /\ pairing \in PairingType
  BY DEF KeyIInv, KeyTypes, Recovering
<1>1. UNCHANGED <<store, keys, sweep, editor, seeding>> /\ (bootKeys' = bootKeys \/ bootKeys' = {})
  BY DEF ForgetVerdict, NativeDropped, LoseAccount, RadioSourceChanges, Upset
<1>2. pairing' = pairing \/ pairing' = [pairing EXCEPT !.account = FALSE]
  BY DEF ForgetVerdict, NativeDropped, LoseAccount, RadioSourceChanges
<1>3. pairing' \in PairingType /\ (seeding.pc = "first" => pairing'.pc = "first")
  BY <1>0, <1>2 DEF PairingType
<1>4. /\ native' \in [stale : BOOLEAN, latched : BOOLEAN, failures : 0..NativeFailureBudget, drops : 0..NativeDropBudget]
      /\ native'.failures = NativeFailureBudget => native'.latched
  <2>1. CASE ForgetVerdict
    BY <1>0, <2>1 DEF ForgetVerdict
  <2>2. CASE NativeDropped
    <3>1. /\ native.drops < NativeDropBudget
          /\ native' = [native EXCEPT !.drops = @ + 1, !.latched = @ \/ native.drops + 1 >= NativeDropBudget]
      BY <2>2 DEF NativeDropped
    <3>2. PICK l \in BOOLEAN, d \in 0..NativeDropBudget : /\ native' = [native EXCEPT !.drops = d, !.latched = l]
                                                          /\ native.latched => l
      <4>1. (native.latched \/ native.drops + 1 >= NativeDropBudget) \in BOOLEAN
        OBVIOUS
      <4>2. native.drops + 1 \in 0..NativeDropBudget
        BY <1>0, <3>1, KeySlotsAssumption
      <4>3. native' = [native EXCEPT !.drops = native.drops + 1, !.latched = (native.latched \/ native.drops + 1 >= NativeDropBudget)]
        BY <1>0, <3>1
      <4>. QED
        BY <4>1, <4>2, <4>3, Zenon
    <3>. QED
      BY <1>0, <3>2
  <2>3. CASE LoseAccount
    BY <1>0, <2>3 DEF LoseAccount
  <2>4. CASE RadioSourceChanges
    <3>1. PICK old \in {FALSE, ~native.stale} : native' = [native EXCEPT !.stale = old]
      BY <2>4 DEF RadioSourceChanges
    <3>2. old \in BOOLEAN
      BY <1>0
    <3>. QED
      BY <1>0, <3>1, <3>2
  <2>. QED
    BY <2>1, <2>2, <2>3, <2>4
<1>. QED
  BY <1>0, <1>1, <1>3, <1>4, OtherMoves

LEMMA KeyStep ==
  ASSUME KeyIInv, KeyNext
  PROVE  KeyIInv'
  BY EditingStep, RequestStep, PairingStep, SeedingStep, SpeakerChangesStep, SweepStartStep, SweepListStep, SweepWriteStep,
     SweepVerifyStep, SweepRewriteStep, SweepRestoreStep, SweepPruneStep DEF KeyNext, Sweeping

-----------------------------------------------------------------------------
(***************************************************************************)
(* The events of the speaker.                                              *)
(***************************************************************************)

FrameType == [kind : {"now", "activity", "press", "restore", "volume", "skip", "list"}, src : Sources \cup {"none"},
              by : {"user", "box", "agent", "firmware", "thumb"}, stop : BOOLEAN, ends : BOOLEAN]
ThumbType == [pending : BOOLEAN, by : {"nobody", "user", "box", "agent", "firmware", "thumb"}]
Shields == {"press", "invalid", "flap"}

BoxTypes ==
  /\ source \in Sources /\ lastSource \in Sources /\ wire \in Seq(FrameType) /\ episode \in BOOLEAN /\ insync \in BOOLEAN
  /\ fresh \subseteq {"press", "invalid", "flap", "upnp", "started", "native", "own", "key", "explained", "fired"}
  /\ thumb \in ThumbType /\ (thumb.pending <=> thumb.by # "nobody")
  /\ (episode => lastSource \in {"INVALID_SOURCE", "STANDBY"}) /\ bursts \in 0..MaxBursts

\* A stop that is not the user's is under way only behind what tells it apart.
StopsExplained ==
  \A i \in 1..Len(wire) : wire[i].stop /\ wire[i].by # "user" =>
    \/ fresh \cap Shields # {}
    \/ "own" \in fresh /\ "key" \notin fresh /\ Len(wire) = 1
    \/ \E j \in 1..(i - 1) : wire[j].kind = "press" \/ wire[j].src \in {"INVALID_SOURCE", "STANDBY"}

\* A key that is no thumb comes with what explains it, and so does a thumb that is none.
KeysExplained ==
  /\ \A i \in 1..Len(wire) : wire[i].kind = "activity" /\ wire[i].by # "thumb" =>
       "explained" \in fresh \/ \E j \in 1..Len(wire) : Explains(wire[j])
  /\ thumb.pending /\ thumb.by # "thumb" => \E j \in 1..Len(wire) : Explains(wire[j])

\* While the speaker plays for this agent the client knows, or will once it has read what is under way.
LastReport ==
  source \in {"UPNP", "INVALID_SOURCE"} =>
    \/ \E i \in 1..Len(wire) : wire[i].src = "UPNP" /\ \A j \in (i + 1)..Len(wire) : wire[j].src = "none"
    \/ /\ \A i \in 1..Len(wire) : wire[i].src \in {"none", "INVALID_SOURCE"}
       /\ insync => lastSource = "UPNP" \/ episode
EndsHeard ==
  \A i \in 1..Len(wire) : wire[i].ends =>
    /\ wire[i].src = "STANDBY" /\ wire[i].kind = "now"
    /\ \/ i > 1 /\ wire[i - 1].src = "UPNP"
       \/ (\A j \in 1..(i - 1) : wire[j].src = "none") /\ (insync => lastSource = "UPNP" \/ episode)

BoxIInv == BoxTypes /\ StopsExplained /\ KeysExplained /\ BoxInv /\ ("list" \notin BurstKinds => LastReport /\ EndsHeard)

\* What the invariants need of the frames w that reach the wire, with the source the speaker has then.
Shape(kind, src, w) ==
  /\ src \in Sources /\ w \in Seq(FrameType)
  /\ \A i \in 1..Len(w) : w[i].stop /\ w[i].by # "user" =>
       \E j \in 1..(i - 1) : w[j].kind = "press" \/ w[j].src \in {"INVALID_SOURCE", "STANDBY"}
  /\ \A i \in 1..Len(w) : w[i].kind = "activity" /\ w[i].by # "thumb" => \E j \in 1..Len(w) : Explains(w[j])
  /\ \A i \in 1..Len(w) : w[i].ends =>
       /\ w[i].src = "STANDBY" /\ w[i].kind = "now"
       /\ \/ i > 1 /\ w[i - 1].src = "UPNP"
          \/ (\A j \in 1..(i - 1) : w[j].src = "none") /\ source \in {"UPNP", "INVALID_SOURCE"}
  /\ src \in {"UPNP", "INVALID_SOURCE"} /\ kind # "list" =>
       \/ \E i \in 1..Len(w) : w[i].src = "UPNP" /\ \A j \in (i + 1)..Len(w) : w[j].src = "none"
       \/ source = src /\ \A i \in 1..Len(w) : w[i].src \in {"none", "INVALID_SOURCE"}

LEMMA OneFrame ==
  ASSUME source \in Sources, NEW a \in FrameType, ~a.ends, ~a.stop, NEW kind,
         a.kind = "activity" => a.by = "thumb", kind = "list" \/ a.src = "none"
  PROVE  Shape(kind, source, <<a>>)
  BY DEF Shape, Explains, Sources

LEMMA TwoFrames ==
  ASSUME NEW kind, NEW src \in Sources, NEW a \in FrameType, NEW b \in FrameType,
         ~a.stop, ~a.ends, b.stop /\ b.by # "user" => a.src = "INVALID_SOURCE",
         Explains(a) \/ Explains(b) \/ (a.kind # "activity" /\ b.kind # "activity"),
         b.ends => b.src = "STANDBY" /\ b.kind = "now" /\ a.src = "none" /\ source \in {"UPNP", "INVALID_SOURCE"},
         src \in {"UPNP", "INVALID_SOURCE"} => b.src = "UPNP" \/ (source = src /\ {a.src, b.src} \subseteq {"none", "INVALID_SOURCE"})
  PROVE  Shape(kind, src, <<a, b>>)
<1>. DEFINE w == <<a, b>>
<1>1. w \in Seq(FrameType) /\ Len(w) = 2 /\ w[1] = a /\ w[2] = b /\ 1..Len(w) = {1, 2}
  OBVIOUS
<1>. HIDE DEF w
<1>. QED
  BY <1>1 DEF Shape

LEMMA ThreeFrames ==
  ASSUME NEW kind, NEW src \in Sources, NEW a \in FrameType, NEW b \in FrameType, NEW c \in FrameType,
         ~a.stop, b.stop /\ b.by # "user" => a.src = "STANDBY", c.stop /\ c.by # "user" => b.src = "INVALID_SOURCE",
         Explains(b), ~b.ends,
         a.ends => a.src = "STANDBY" /\ a.kind = "now" /\ source \in {"UPNP", "INVALID_SOURCE"},
         c.ends => c.src = "STANDBY" /\ c.kind = "now" /\ b.src = "UPNP",
         src \in {"UPNP", "INVALID_SOURCE"} => c.src = "UPNP"
  PROVE  Shape(kind, src, <<a, b, c>>)
<1>. DEFINE w == <<a, b, c>>
<1>1. w \in Seq(FrameType) /\ Len(w) = 3 /\ w[1] = a /\ w[2] = b /\ w[3] = c /\ 1..Len(w) = {1, 2, 3}
  OBVIOUS
<1>. HIDE DEF w
<1>. QED
  BY <1>1 DEF Shape

LEMMA FiveFrames ==
  ASSUME NEW kind, NEW src \in Sources, NEW a \in FrameType, NEW b \in FrameType, NEW c \in FrameType, NEW d \in FrameType, NEW e \in FrameType,
         ~a.stop, ~b.stop, b.kind = "press", ~a.ends, ~b.ends, ~c.ends, ~d.ends, ~e.ends,
         src \in {"UPNP", "INVALID_SOURCE"} => e.src = "UPNP"
  PROVE  Shape(kind, src, <<a, b, c, d, e>>)
<1>. DEFINE w == <<a, b, c, d, e>>
<1>1. w \in Seq(FrameType) /\ Len(w) = 5 /\ w[1] = a /\ w[2] = b /\ w[3] = c /\ w[4] = d /\ w[5] = e /\ 1..Len(w) = {1, 2, 3, 4, 5}
  OBVIOUS
<1>. HIDE DEF w
<1>. QED
  BY <1>1 DEF Shape, Explains

\* The frames of the bursts.
LEMMA FrameFields ==
  ASSUME NEW kind \in {"now", "activity", "press", "restore", "volume", "skip", "list"}, NEW src \in Sources \cup {"none"},
         NEW by \in {"user", "box", "agent", "firmware", "thumb"}
  PROVE  LET f == Frame(kind, src, by)
         IN f \in FrameType /\ f.kind = kind /\ f.src = src /\ f.by = by /\ ~f.stop /\ ~f.ends
  BY DEF Frame, FrameType
LEMMA StoppedFields ==
  ASSUME NEW src \in Sources, NEW by \in {"user", "box", "agent", "firmware", "thumb"}
  PROVE  LET f == Stopped(src, by)
         IN f \in FrameType /\ f.kind = "now" /\ f.src = src /\ f.by = by /\ f.stop /\ ~f.ends
  BY DEF Stopped, Now, Frame, FrameType
LEMMA SleepFields ==
  ASSUME NEW by \in {"user", "box", "agent", "firmware", "thumb"}
  PROVE  LET f == Sleep(by)
         IN f \in FrameType /\ f.kind = "now" /\ f.src = "STANDBY" /\ f.by = by /\ ~f.stop /\ (f.ends => source \in {"UPNP", "INVALID_SOURCE"})
<1>1. (source \in {"UPNP", "INVALID_SOURCE"}) \in BOOLEAN
  OBVIOUS
<1>. QED
  BY <1>1 DEF Sleep, Now, Frame, FrameType, Sources

LEMMA BurstShape ==
  ASSUME source \in Sources, NEW b \in Bursts
  PROVE  Shape(b[1], b[2], b[3])
<1>. DEFINE Is(f, kind, src, by, stop) == f \in FrameType /\ f.kind = kind /\ f.src = src /\ f.by = by /\ f.stop = stop
<1>1. /\ \A kind \in {"press", "restore", "volume", "skip", "list"}, src \in Sources \cup {"none"}, by \in {"user", "box"} :
           Is(Frame(kind, src, by), kind, src, by, FALSE) /\ ~Frame(kind, src, by).ends
      /\ \A by \in {"user", "thumb"} : Is(Key(by), "activity", "none", by, FALSE) /\ ~Key(by).ends
      /\ \A src \in Sources, by \in {"user", "box", "firmware"} :
           Is(Now(src, by), "now", src, by, FALSE) /\ ~Now(src, by).ends
  BY FrameFields DEF Key, Now
<1>2. \A src \in Sources, by \in {"user", "box"} : Is(Stopped(src, by), "now", src, by, TRUE) /\ ~Stopped(src, by).ends
  BY StoppedFields
<1>3. \A by \in {"user", "box"} : Is(Sleep(by), "now", "STANDBY", by, FALSE) /\ (Sleep(by).ends => source \in {"UPNP", "INVALID_SOURCE"})
  BY SleepFields
<1>4. CASE b = <<"preset", "UPNP", <<Key("user"), Frame("press", "UPNP", "user"), Now("INVALID_SOURCE", "box"), Stopped("UPNP", "box"), Now("UPNP", "box")>> >>
  <2>1. /\ Is(Key("user"), "activity", "none", "user", FALSE) /\ ~Key("user").ends
        /\ Is(Frame("press", "UPNP", "user"), "press", "UPNP", "user", FALSE) /\ ~Frame("press", "UPNP", "user").ends
        /\ Is(Now("INVALID_SOURCE", "box"), "now", "INVALID_SOURCE", "box", FALSE) /\ ~Now("INVALID_SOURCE", "box").ends
        /\ Is(Stopped("UPNP", "box"), "now", "UPNP", "box", TRUE) /\ ~Stopped("UPNP", "box").ends
        /\ Is(Now("UPNP", "box"), "now", "UPNP", "box", FALSE) /\ ~Now("UPNP", "box").ends
    BY <1>1, <1>2, <1>3 DEF Sources
  <2>2. Shape("preset", "UPNP", <<Key("user"), Frame("press", "UPNP", "user"), Now("INVALID_SOURCE", "box"), Stopped("UPNP", "box"), Now("UPNP", "box")>>)
    BY <2>1, FiveFrames DEF Sources, Explains
  <2>. QED
    BY <1>4, <2>2
<1>5. CASE b = <<"preset", "RADIO", <<Key("user"), Frame("press", "RADIO", "user"), Now("UPNP", "box"), Stopped("UPNP", "box"), Now("RADIO", "box")>> >>
  <2>1. /\ Is(Key("user"), "activity", "none", "user", FALSE) /\ ~Key("user").ends
        /\ Is(Frame("press", "RADIO", "user"), "press", "RADIO", "user", FALSE) /\ ~Frame("press", "RADIO", "user").ends
        /\ Is(Now("UPNP", "box"), "now", "UPNP", "box", FALSE) /\ ~Now("UPNP", "box").ends
        /\ Is(Stopped("UPNP", "box"), "now", "UPNP", "box", TRUE) /\ ~Stopped("UPNP", "box").ends
        /\ Is(Now("RADIO", "box"), "now", "RADIO", "box", FALSE) /\ ~Now("RADIO", "box").ends
    BY <1>1, <1>2, <1>3 DEF Sources
  <2>2. Shape("preset", "RADIO", <<Key("user"), Frame("press", "RADIO", "user"), Now("UPNP", "box"), Stopped("UPNP", "box"), Now("RADIO", "box")>>)
    BY <2>1, FiveFrames DEF Sources, Explains
  <2>. QED
    BY <1>5, <2>2
<1>6. CASE b = <<"drop", "INVALID_SOURCE", <<Now("INVALID_SOURCE", "box"), Stopped("UPNP", "box")>> >>
  <2>1. /\ Is(Now("INVALID_SOURCE", "box"), "now", "INVALID_SOURCE", "box", FALSE) /\ ~Now("INVALID_SOURCE", "box").ends
        /\ Is(Stopped("UPNP", "box"), "now", "UPNP", "box", TRUE) /\ ~Stopped("UPNP", "box").ends
    BY <1>1, <1>2, <1>3 DEF Sources
  <2>2. Shape("drop", "INVALID_SOURCE", <<Now("INVALID_SOURCE", "box"), Stopped("UPNP", "box")>>)
    BY <2>1, TwoFrames DEF Sources, Explains
  <2>. QED
    BY <1>6, <2>2
<1>7. CASE b = <<"drop", "INVALID_SOURCE", <<Now("UPNP", "firmware"), Now("INVALID_SOURCE", "firmware"), Stopped("UPNP", "box")>> >>
  <2>1. /\ Is(Now("UPNP", "firmware"), "now", "UPNP", "firmware", FALSE) /\ ~Now("UPNP", "firmware").ends
        /\ Is(Now("INVALID_SOURCE", "firmware"), "now", "INVALID_SOURCE", "firmware", FALSE) /\ ~Now("INVALID_SOURCE", "firmware").ends
        /\ Is(Stopped("UPNP", "box"), "now", "UPNP", "box", TRUE) /\ ~Stopped("UPNP", "box").ends
    BY <1>1, <1>2, <1>3 DEF Sources
  <2>2. Shape("drop", "INVALID_SOURCE", <<Now("UPNP", "firmware"), Now("INVALID_SOURCE", "firmware"), Stopped("UPNP", "box")>>)
    BY <2>1, ThreeFrames DEF Sources, Explains
  <2>. QED
    BY <1>7, <2>2
<1>8. CASE b = <<"off", "STANDBY", <<Sleep("box"), Stopped("UPNP", "box"), Sleep("box")>> >>
  <2>1. /\ Is(Sleep("box"), "now", "STANDBY", "box", FALSE) /\ (Sleep("box").ends => source \in {"UPNP", "INVALID_SOURCE"})
        /\ Is(Stopped("UPNP", "box"), "now", "UPNP", "box", TRUE) /\ ~Stopped("UPNP", "box").ends
    BY <1>1, <1>2, <1>3 DEF Sources
  <2>2. Shape("off", "STANDBY", <<Sleep("box"), Stopped("UPNP", "box"), Sleep("box")>>)
    BY <2>1, ThreeFrames DEF Sources, Explains
  <2>. QED
    BY <1>8, <2>2
<1>9. CASE b = <<"off", "STANDBY", <<Key("user"), Sleep("user")>> >>
  <2>1. /\ Is(Key("user"), "activity", "none", "user", FALSE) /\ ~Key("user").ends
        /\ Is(Sleep("user"), "now", "STANDBY", "user", FALSE) /\ (Sleep("user").ends => source \in {"UPNP", "INVALID_SOURCE"})
    BY <1>1, <1>2, <1>3 DEF Sources
  <2>2. Shape("off", "STANDBY", <<Key("user"), Sleep("user")>>)
    BY <2>1, TwoFrames DEF Sources, Explains
  <2>. QED
    BY <1>9, <2>2
<1>10. CASE b = <<"stop", source, <<Key("user"), Stopped(source, "user")>> >>
  <2>1. /\ Is(Key("user"), "activity", "none", "user", FALSE) /\ ~Key("user").ends
        /\ Is(Stopped(source, "user"), "now", source, "user", TRUE) /\ ~Stopped(source, "user").ends
    BY <1>1, <1>2, <1>3 DEF Sources
  <2>2. Shape("stop", source, <<Key("user"), Stopped(source, "user")>>)
    BY <2>1, TwoFrames DEF Sources, Explains
  <2>. QED
    BY <1>10, <2>2
<1>11. CASE b = <<"on", "UPNP", <<Key("user"), Frame("restore", "INVALID_SOURCE", "user"), Now("UPNP", "user")>> >>
  <2>1. /\ Is(Key("user"), "activity", "none", "user", FALSE) /\ ~Key("user").ends
        /\ Is(Frame("restore", "INVALID_SOURCE", "user"), "restore", "INVALID_SOURCE", "user", FALSE) /\ ~Frame("restore", "INVALID_SOURCE", "user").ends
        /\ Is(Now("UPNP", "user"), "now", "UPNP", "user", FALSE) /\ ~Now("UPNP", "user").ends
    BY <1>1, <1>2, <1>3 DEF Sources
  <2>2. Shape("on", "UPNP", <<Key("user"), Frame("restore", "INVALID_SOURCE", "user"), Now("UPNP", "user")>>)
    BY <2>1, ThreeFrames DEF Sources, Explains
  <2>. QED
    BY <1>11, <2>2
<1>12. CASE b = <<"keys", source, <<Key("user"), Frame("volume", "none", "user")>> >>
  <2>1. /\ Is(Key("user"), "activity", "none", "user", FALSE) /\ ~Key("user").ends
        /\ Is(Frame("volume", "none", "user"), "volume", "none", "user", FALSE) /\ ~Frame("volume", "none", "user").ends
    BY <1>1, <1>2, <1>3 DEF Sources
  <2>2. Shape("keys", source, <<Key("user"), Frame("volume", "none", "user")>>)
    BY <2>1, TwoFrames DEF Sources, Explains
  <2>. QED
    BY <1>12, <2>2
<1>13. CASE b = <<"keys", source, <<Key("user"), Frame("skip", "none", "user")>> >>
  <2>1. /\ Is(Key("user"), "activity", "none", "user", FALSE) /\ ~Key("user").ends
        /\ Is(Frame("skip", "none", "user"), "skip", "none", "user", FALSE) /\ ~Frame("skip", "none", "user").ends
    BY <1>1, <1>2, <1>3 DEF Sources
  <2>2. Shape("keys", source, <<Key("user"), Frame("skip", "none", "user")>>)
    BY <2>1, TwoFrames DEF Sources, Explains
  <2>. QED
    BY <1>13, <2>2
<1>14. CASE b = <<"keys", source, <<Frame("volume", "none", "user"), Key("user")>> >>
  <2>1. /\ Is(Frame("volume", "none", "user"), "volume", "none", "user", FALSE) /\ ~Frame("volume", "none", "user").ends
        /\ Is(Key("user"), "activity", "none", "user", FALSE) /\ ~Key("user").ends
    BY <1>1, <1>2, <1>3 DEF Sources
  <2>2. Shape("keys", source, <<Frame("volume", "none", "user"), Key("user")>>)
    BY <2>1, TwoFrames DEF Sources, Explains
  <2>. QED
    BY <1>14, <2>2
<1>15. CASE b = <<"keys", source, <<Key("thumb")>> >>
  <2>1. /\ Is(Key("thumb"), "activity", "none", "thumb", FALSE) /\ ~Key("thumb").ends
    BY <1>1, <1>2, <1>3 DEF Sources
  <2>2. Shape("keys", source, <<Key("thumb")>>)
    BY <2>1, OneFrame DEF Sources, Explains
  <2>. QED
    BY <1>15, <2>2
<1>16. CASE b = <<"aux", "AUX", <<Key("user"), Now("AUX", "user")>> >>
  <2>1. /\ Is(Key("user"), "activity", "none", "user", FALSE) /\ ~Key("user").ends
        /\ Is(Now("AUX", "user"), "now", "AUX", "user", FALSE) /\ ~Now("AUX", "user").ends
    BY <1>1, <1>2, <1>3 DEF Sources
  <2>2. Shape("aux", "AUX", <<Key("user"), Now("AUX", "user")>>)
    BY <2>1, TwoFrames DEF Sources, Explains
  <2>. QED
    BY <1>16, <2>2
<1>17. ASSUME NEW s \in {"UPNP", "RADIO"}, b = <<"list", source, <<Frame("list", s, "box")>> >> PROVE Shape(b[1], b[2], b[3])
  <2>1. /\ Is(Frame("list", s, "box"), "list", s, "box", FALSE) /\ ~Frame("list", s, "box").ends
    BY <1>1, <1>2, <1>3 DEF Sources
  <2>2. Shape("list", source, <<Frame("list", s, "box")>>)
    BY <2>1, OneFrame DEF Sources, Explains
  <2>. QED
    BY <1>17, <2>2
<1>. QED
  BY <1>4, <1>5, <1>6, <1>7, <1>8, <1>9, <1>10, <1>11, <1>12, <1>13, <1>14, <1>15, <1>16, <1>17 DEF Bursts

LEMMA NoThumbTyped == NoThumb \in ThumbType /\ ~NoThumb.pending /\ NoThumb.by = "nobody"
  BY DEF NoThumb, ThumbType

LEMMA InitBox == BoxInit => BoxIInv
<1>. SUFFICES ASSUME BoxInit PROVE BoxIInv
  OBVIOUS
<1>1. wire \in Seq(FrameType) /\ Len(wire) = 0 /\ 1..Len(wire) = {}
  BY DEF BoxInit
<1>2. BoxTypes
  <2>1. source \in Sources /\ lastSource \in Sources /\ ~episode /\ episode \in BOOLEAN /\ insync \in BOOLEAN /\ fresh = {}
    BY DEF BoxInit, Sources
  <2>2. thumb \in ThumbType /\ (thumb.pending <=> thumb.by # "nobody") /\ bursts \in 0..MaxBursts
    BY BoxEventsAssumption, NoThumbTyped DEF BoxInit
  <2>. QED
    BY <1>1, <2>1, <2>2 DEF BoxTypes
<1>3. StopsExplained /\ KeysExplained /\ EndsHeard
  BY <1>1 DEF BoxInit, StopsExplained, KeysExplained, EndsHeard, NoThumb
<1>4. LastReport
  BY <1>1 DEF BoxInit, LastReport
<1>5. BoxInv
  BY <1>2 DEF BoxInit, BoxInv, BoxTypes, BoxTypeOK, NoPhantomStop, ThumbIsLone
<1>. QED
  BY <1>2, <1>3, <1>4, <1>5 DEF BoxIInv

LEMMA BoxInvOf ==
  ASSUME BoxTypes', \A c \in calls' : (c[1] = "OnUserStop" => c[2] = "user") /\ (c[1] = "OnThumbActivity" => c[2] = "thumb")
  PROVE  BoxInv'
  BY DEF BoxInv, BoxTypes, BoxTypeOK, NoPhantomStop, ThumbIsLone

LEMMA SpeakerSendsStep ==
  ASSUME BoxIInv, SpeakerSends
  PROVE  BoxIInv'
<1>1. wire = <<>> /\ bursts' = bursts + 1 /\ bursts < MaxBursts /\ calls' = {} /\ UNCHANGED <<lastSource, episode, fresh, thumb, insync>>
  BY DEF SpeakerSends
<1>2. PICK b \in Bursts : b[1] \in BurstKinds /\ source' = b[2] /\ wire' = b[3]
  BY DEF SpeakerSends
<1>3. Shape(b[1], source', wire')
  BY <1>2, BurstShape DEF BoxIInv, BoxTypes
<1>4. Len(wire) = 0 /\ 1..Len(wire) = {}
  BY <1>1
<1>5. BoxTypes'
  BY <1>1, <1>3, BoxEventsAssumption DEF BoxIInv, BoxTypes, Shape
<1>6. StopsExplained' /\ KeysExplained'
  BY <1>1, <1>3, <1>4 DEF BoxIInv, StopsExplained, KeysExplained, Shape, Explains
<1>7. ASSUME "list" \notin BurstKinds PROVE LastReport' /\ EndsHeard'
  <2>1. source \in {"UPNP", "INVALID_SOURCE"} /\ insync => lastSource = "UPNP" \/ episode
    BY <1>4, <1>7 DEF BoxIInv, LastReport
  <2>2. LastReport'
    BY <1>1, <1>2, <1>3, <1>7, <2>1 DEF LastReport, Shape
  <2>3. EndsHeard'
    BY <1>1, <1>3, <2>1 DEF EndsHeard, Shape
  <2>. QED
    BY <2>2, <2>3
<1>8. BoxInv'
  BY <1>1, <1>5, BoxInvOf
<1>. QED
  BY <1>5, <1>6, <1>7, <1>8 DEF BoxIInv

LEMMA OwnCommandStep ==
  ASSUME BoxIInv, OwnCommand
  PROVE  BoxIInv'
<1>1. /\ wire = <<>> /\ bursts' = bursts + 1 /\ bursts < MaxBursts /\ source = "UPNP" /\ "key" \notin fresh
      /\ fresh' = fresh \cup {"own"} /\ wire' = <<Stopped("UPNP", "agent")>> /\ calls' = {}
      /\ UNCHANGED <<source, lastSource, episode, thumb, insync>>
  BY DEF OwnCommand
<1>2. PICK f \in FrameType : wire' = <<f>> /\ f.kind = "now" /\ f.src = "UPNP" /\ ~f.ends
  BY <1>1, StoppedFields DEF Sources
<1>3. wire' \in Seq(FrameType) /\ Len(wire') = 1 /\ wire'[1] = f /\ 1..Len(wire') = {1}
  BY <1>2
<1>4. Len(wire) = 0 /\ 1..Len(wire) = {}
  BY <1>1
<1>5. BoxTypes'
  BY <1>1, <1>3, BoxEventsAssumption DEF BoxIInv, BoxTypes
<1>6. StopsExplained' /\ KeysExplained'
  BY <1>1, <1>2, <1>3, <1>4 DEF BoxIInv, StopsExplained, KeysExplained
<1>7. LastReport' /\ EndsHeard'
  BY <1>1, <1>2, <1>3 DEF LastReport, EndsHeard
<1>8. BoxInv'
  BY <1>1, <1>5, BoxInvOf
<1>. QED
  BY <1>5, <1>6, <1>7, <1>8 DEF BoxIInv

\* What is left of the wire, by index.
LEMMA Rest ==
  ASSUME NEW w \in Seq(FrameType), w # <<>>
  PROVE  /\ Tail(w) \in Seq(FrameType) /\ Len(Tail(w)) = Len(w) - 1 /\ Len(w) \in Nat \ {0}
         /\ \A i \in 1..Len(Tail(w)) : Tail(w)[i] = w[i + 1] /\ i + 1 \in 1..Len(w)
         /\ \A i \in 1..Len(w) : i = 1 \/ (i - 1 \in 1..Len(Tail(w)) /\ Tail(w)[i - 1] = w[i])
         /\ Head(w) = w[1] /\ w[1] \in FrameType
  OBVIOUS

LEMMA WindowsStep ==
  ASSUME BoxIInv, ThumbSettles \/ WindowEnds
  PROVE  BoxIInv'
<1>1. /\ wire = <<>> /\ UNCHANGED <<source, wire, lastSource, episode, insync, bursts>> /\ (thumb' = thumb \/ thumb' = NoThumb)
      /\ fresh' \subseteq fresh \cup {"fired"}
  BY DEF ThumbSettles, WindowEnds
<1>2. Len(wire) = 0 /\ 1..Len(wire) = {}
  BY <1>1
<1>3. thumb.pending => thumb.by = "thumb"
  BY <1>2 DEF BoxIInv, KeysExplained
<1>4. \A c \in calls' : c = <<"OnThumbActivity", "thumb">>
  BY <1>3 DEF ThumbSettles, WindowEnds, Calls
<1>5. BoxTypes'
  BY <1>1, NoThumbTyped DEF BoxIInv, BoxTypes
<1>6. StopsExplained' /\ KeysExplained' /\ EndsHeard'
  BY <1>1, <1>2, <1>3 DEF StopsExplained, KeysExplained, EndsHeard, NoThumb
<1>7. "list" \notin BurstKinds => LastReport'
  BY <1>1 DEF BoxIInv, LastReport
<1>8. BoxInv'
  BY <1>4, <1>5, BoxInvOf
<1>. QED
  BY <1>5, <1>6, <1>7, <1>8 DEF BoxIInv

LEMMA ReconnectStep ==
  ASSUME BoxIInv, Reconnect
  PROVE  BoxIInv'
<1>1. ~thumb.pending /\ wire' = <<>> /\ insync' = FALSE /\ calls' = Calls({"OnConnected"}, "agent") /\ UNCHANGED <<source, lastSource, episode, fresh, thumb, bursts>>
  BY DEF Reconnect
<1>2. Len(wire') = 0 /\ 1..Len(wire') = {} /\ wire' \in Seq(FrameType)
  BY <1>1
<1>3. BoxTypes'
  BY <1>1, <1>2 DEF BoxIInv, BoxTypes
<1>4. StopsExplained' /\ KeysExplained' /\ EndsHeard' /\ LastReport'
  BY <1>1, <1>2 DEF StopsExplained, KeysExplained, EndsHeard, LastReport
<1>5. \A c \in calls' : c[1] = "OnConnected"
  BY <1>1 DEF Calls
<1>6. BoxInv'
  BY <1>3, <1>5, BoxInvOf
<1>. QED
  BY <1>3, <1>4, <1>6 DEF BoxIInv

LEMMA EpisodeFacts ==
  ASSUME BoxTypes, NEW f \in FrameType
  PROVE  /\ UpnpEpisode(f) \in BOOLEAN
         /\ f.src = "none" => UpnpEpisode(f) = episode
         /\ f.src = "INVALID_SOURCE" => UpnpEpisode(f) = (episode \/ lastSource = "UPNP")
         /\ f.src = "STANDBY" => UpnpEpisode(f) = episode
         /\ f.src \notin {"none", "INVALID_SOURCE", "STANDBY"} => ~UpnpEpisode(f)
<1>1. (episode \/ lastSource = "UPNP") \in BOOLEAN /\ episode \in BOOLEAN
  BY DEF BoxTypes
<1>2. CASE f.src = "none"
  BY <1>1, <1>2 DEF UpnpEpisode
<1>3. CASE f.src = "INVALID_SOURCE"
  BY <1>1, <1>3 DEF UpnpEpisode
<1>4. CASE f.src = "STANDBY"
  BY <1>1, <1>4 DEF UpnpEpisode
<1>5. CASE f.src \notin {"none", "INVALID_SOURCE", "STANDBY"}
  BY <1>5 DEF UpnpEpisode
<1>. QED
  BY <1>2, <1>3, <1>4, <1>5

LEMMA StampFacts ==
  ASSUME NEW f \in FrameType
  PROVE  /\ SourceStamps(f) \subseteq {"invalid", "flap", "upnp", "started", "native"}
         /\ f.src = "INVALID_SOURCE" => "invalid" \in SourceStamps(f)
         /\ f.src = "STANDBY" => "flap" \in SourceStamps(f)
  BY DEF SourceStamps

\* What the handler makes of the first frame.
LEMMA Handled ==
  ASSUME BoxTypes, HandleMessage
  PROVE  \E f \in FrameType :
           /\ f = wire[1] /\ f = Head(wire) /\ wire # <<>> /\ wire' = Tail(wire) /\ UNCHANGED <<source, bursts>>
           /\ episode' = UpnpEpisode(f) /\ lastSource' = (IF f.src = "none" THEN lastSource ELSE f.src)
           /\ fresh \cup SourceStamps(f) \subseteq fresh'
           /\ fresh' = (fresh \cup SourceStamps(f)) \cup (IF f.kind = "press" THEN {"press"} ELSE {})
                         \cup (IF f.kind = "activity" THEN {"key"} ELSE {}) \cup (IF Explains(f) THEN {"explained"} ELSE {})
           /\ \/ thumb' = NoThumb
              \/ ~Explains(f) /\ thumb' = thumb
              \/ ~Explains(f) /\ f.kind = "activity" /\ "explained" \notin fresh /\ thumb' = [pending |-> TRUE, by |-> f.by]
           /\ insync' \in BOOLEAN /\ (insync' => insync \/ f.src \notin {"none", "INVALID_SOURCE"})
           /\ \A c \in calls' : c[1] # "OnThumbActivity"
           /\ \A c \in calls' : c[1] = "OnUserStop" => c[2] = f.by /\ f.stop /\ ~StopStateIsTeardown(f, fresh \cup SourceStamps(f))
           /\ \A c \in SourceCalls(f, fresh \cup SourceStamps(f)) : <<c, f.by>> \in calls'
<1>. DEFINE f == Head(wire)
<1>1. f \in FrameType /\ f = wire[1] /\ wire # <<>>
  BY Rest DEF HandleMessage, BoxTypes
<1>2. /\ wire' = Tail(wire) /\ UNCHANGED <<source, bursts>>
      /\ episode' = UpnpEpisode(f) /\ lastSource' = (IF f.src = "none" THEN lastSource ELSE f.src)
      /\ fresh' = (fresh \cup SourceStamps(f)) \cup (IF f.kind = "press" THEN {"press"} ELSE {})
                    \cup (IF f.kind = "activity" THEN {"key"} ELSE {}) \cup (IF Explains(f) THEN {"explained"} ELSE {})
      /\ insync' = (insync \/ f.src \notin {"none", "INVALID_SOURCE"})
  BY DEF HandleMessage
<1>3. \/ thumb' = NoThumb
      \/ ~Explains(f) /\ thumb' = thumb
      \/ ~Explains(f) /\ f.kind = "activity" /\ "explained" \notin fresh /\ thumb' = [pending |-> TRUE, by |-> f.by]
  BY DEF HandleMessage
<1>4. calls' = Calls(SourceCalls(f, fresh \cup SourceStamps(f)), f.by)
             \cup {c \in Calls({"OnUserStop"}, f.by) : f.kind = "now" /\ f.stop /\ ~StopStateIsTeardown(f, fresh \cup SourceStamps(f))}
             \cup {c \in Calls({"OnPresetSelected"}, f.by) : f.kind = "press"}
             \cup {c \in Calls({"OnPowerWake"}, f.by) : f.kind = "restore"}
             \cup {c \in Calls({"OnRemoteSkip"}, f.by) : f.kind = "skip"}
  BY DEF HandleMessage
<1>. HIDE DEF f
<1>5. SourceCalls(f, fresh \cup SourceStamps(f)) \subseteq {"OnSourceAux", "NativeDropped", "OnStandbyExit", "OnEnterStandby"}
  BY DEF SourceCalls
<1>6. \A c \in calls' : c[1] # "OnThumbActivity"
  BY <1>4, <1>5 DEF Calls
<1>7. \A c \in calls' : c[1] = "OnUserStop" => c[2] = f.by /\ f.stop /\ ~StopStateIsTeardown(f, fresh \cup SourceStamps(f))
  BY <1>4, <1>5 DEF Calls
<1>8. \A c \in SourceCalls(f, fresh \cup SourceStamps(f)) : <<c, f.by>> \in calls'
  BY <1>4 DEF Calls
<1>9. insync' \in BOOLEAN /\ (insync' => insync \/ f.src \notin {"none", "INVALID_SOURCE"})
  BY <1>2
<1>10. f = Head(wire)
  BY DEF f
<1>11. fresh \cup SourceStamps(f) \subseteq fresh'
  BY <1>2
<1>. QED
  BY <1>1, <1>2, <1>3, <1>6, <1>7, <1>8, <1>9, <1>10, <1>11

LEMMA HandleMessageStep ==
  ASSUME BoxIInv, HandleMessage
  PROVE  BoxIInv'
<1>0. BoxTypes
  BY DEF BoxIInv
<1>1. PICK f \in FrameType :
           /\ f = wire[1] /\ f = Head(wire) /\ wire # <<>> /\ wire' = Tail(wire) /\ UNCHANGED <<source, bursts>>
           /\ episode' = UpnpEpisode(f) /\ lastSource' = (IF f.src = "none" THEN lastSource ELSE f.src)
           /\ fresh \cup SourceStamps(f) \subseteq fresh'
           /\ fresh' = (fresh \cup SourceStamps(f)) \cup (IF f.kind = "press" THEN {"press"} ELSE {})
                         \cup (IF f.kind = "activity" THEN {"key"} ELSE {}) \cup (IF Explains(f) THEN {"explained"} ELSE {})
           /\ \/ thumb' = NoThumb
              \/ ~Explains(f) /\ thumb' = thumb
              \/ ~Explains(f) /\ f.kind = "activity" /\ "explained" \notin fresh /\ thumb' = [pending |-> TRUE, by |-> f.by]
           /\ insync' \in BOOLEAN /\ (insync' => insync \/ f.src \notin {"none", "INVALID_SOURCE"})
           /\ \A c \in calls' : c[1] # "OnThumbActivity"
           /\ \A c \in calls' : c[1] = "OnUserStop" => c[2] = f.by /\ f.stop /\ ~StopStateIsTeardown(f, fresh \cup SourceStamps(f))
           /\ \A c \in SourceCalls(f, fresh \cup SourceStamps(f)) : <<c, f.by>> \in calls'
  BY <1>0, Handled
<1>2. /\ wire' \in Seq(FrameType) /\ Len(wire') = Len(wire) - 1 /\ Len(wire) \in Nat \ {0}
      /\ \A i \in 1..Len(wire') : wire'[i] = wire[i + 1] /\ i + 1 \in 1..Len(wire)
      /\ \A i \in 1..Len(wire) : i = 1 \/ (i - 1 \in 1..Len(wire') /\ wire'[i - 1] = wire[i])
  BY <1>0, <1>1, Rest DEF BoxTypes
<1>3. SourceStamps(f) \subseteq {"invalid", "flap", "upnp", "started", "native"}
  BY StampFacts
<1>4. BoxTypes'
  <2>1. thumb' \in ThumbType /\ (thumb'.pending <=> thumb'.by # "nobody")
    <3>1. ASSUME thumb' = [pending |-> TRUE, by |-> f.by] PROVE thumb' \in ThumbType /\ thumb'.pending /\ thumb'.by # "nobody"
      <4>1. f.by \in {"user", "box", "agent", "firmware", "thumb"}
        BY DEF FrameType
      <4>. QED
        BY <3>1, <4>1 DEF ThumbType
    <3>. QED
      BY <1>0, <1>1, <3>1, NoThumbTyped DEF BoxTypes
  <2>2. lastSource' \in Sources /\ source' \in Sources
    BY <1>0, <1>1 DEF BoxTypes, FrameType
  <2>3. episode' \in BOOLEAN /\ (episode' => lastSource' \in {"INVALID_SOURCE", "STANDBY"})
    BY <1>0, <1>1, EpisodeFacts DEF BoxTypes
  <2>4. fresh' \subseteq {"press", "invalid", "flap", "upnp", "started", "native", "own", "key", "explained", "fired"}
    BY <1>0, <1>1, <1>3 DEF BoxTypes
  <2>. QED
    BY <1>0, <1>1, <1>2, <2>1, <2>2, <2>3, <2>4 DEF BoxTypes
<1>5. StopsExplained'
  <2>. SUFFICES ASSUME NEW i \in 1..Len(wire'), wire'[i].stop, wire'[i].by # "user"
                PROVE  fresh' \cap Shields # {} \/ \E j \in 1..(i - 1) : wire'[j].kind = "press" \/ wire'[j].src \in {"INVALID_SOURCE", "STANDBY"}
    BY <1>2 DEF StopsExplained
  <2>1. i \in Nat /\ i + 1 \in 1..Len(wire) /\ wire[i + 1].stop /\ wire[i + 1].by # "user" /\ i + 1 # 1
    BY <1>2
  <2>2. CASE fresh \cap Shields # {}
    BY <1>1, <2>2
  <2>3. ASSUME NEW j \in 1..i, wire[j].kind = "press" \/ wire[j].src \in {"INVALID_SOURCE", "STANDBY"}
        PROVE  fresh' \cap Shields # {} \/ \E k \in 1..(i - 1) : wire'[k].kind = "press" \/ wire'[k].src \in {"INVALID_SOURCE", "STANDBY"}
    <3>1. CASE j = 1
      BY <1>1, <2>3, <3>1, StampFacts DEF Shields
    <3>2. CASE j # 1
      <4>1. j - 1 \in 1..(i - 1) /\ wire'[j - 1] = wire[j]
        BY <1>2, <2>1, <2>3, <3>2
      <4>. QED
        BY <2>3, <4>1
    <3>. QED
      BY <3>1, <3>2
  <2>4. Len(wire) # 1 /\ (i + 1) - 1 = i
    BY <1>2, <2>1
  <2>. QED
    BY <2>1, <2>2, <2>3, <2>4 DEF BoxIInv, StopsExplained
<1>6. KeysExplained'
  <2>1. ASSUME \E j \in 1..Len(wire) : Explains(wire[j])
        PROVE  Explains(f) \/ \E j \in 1..Len(wire') : Explains(wire'[j])
    <3>1. PICK j \in 1..Len(wire) : Explains(wire[j])
      BY <2>1
    <3>2. CASE j = 1
      BY <1>1, <3>1, <3>2
    <3>3. CASE j # 1
      BY <1>2, <3>1, <3>3
    <3>. QED
      BY <3>2, <3>3
  <2>2. Explains(f) => "explained" \in fresh' /\ thumb' = NoThumb
    BY <1>1
  <2>3. ASSUME NEW i \in 1..Len(wire'), wire'[i].kind = "activity", wire'[i].by # "thumb"
        PROVE  "explained" \in fresh' \/ \E j \in 1..Len(wire') : Explains(wire'[j])
    <3>1. i + 1 \in 1..Len(wire) /\ wire[i + 1].kind = "activity" /\ wire[i + 1].by # "thumb"
      BY <1>2, <2>3
    <3>. QED
      BY <1>1, <2>1, <2>2, <3>1 DEF BoxIInv, KeysExplained
  <2>4. ASSUME thumb'.pending, thumb'.by # "thumb"
        PROVE  \E j \in 1..Len(wire') : Explains(wire'[j])
    <3>1. ~Explains(f) /\ thumb' # NoThumb
      BY <2>2, <2>4, NoThumbTyped
    <3>2. CASE thumb' = thumb
      BY <2>1, <2>4, <3>1, <3>2 DEF BoxIInv, KeysExplained
    <3>3. CASE f.kind = "activity" /\ "explained" \notin fresh /\ thumb' = [pending |-> TRUE, by |-> f.by]
      <4>1. f.by # "thumb" /\ 1 \in 1..Len(wire)
        BY <1>2, <2>4, <3>3
      <4>. QED
        BY <1>1, <2>1, <3>1, <3>3, <4>1 DEF BoxIInv, KeysExplained
    <3>. QED
      BY <1>1, <3>1, <3>2, <3>3
  <2>. QED
    BY <2>3, <2>4 DEF KeysExplained
<1>7. ASSUME "list" \notin BurstKinds PROVE LastReport' /\ EndsHeard'
  <2>1. LastReport /\ EndsHeard
    BY <1>7 DEF BoxIInv
  <2>2. ASSUME source' \in {"UPNP", "INVALID_SOURCE"}
        PROVE  \/ \E i \in 1..Len(wire') : wire'[i].src = "UPNP" /\ \A j \in (i + 1)..Len(wire') : wire'[j].src = "none"
               \/ /\ \A i \in 1..Len(wire') : wire'[i].src \in {"none", "INVALID_SOURCE"}
                  /\ insync' => lastSource' = "UPNP" \/ episode'
    <3>1. ASSUME NEW i \in 1..Len(wire), wire[i].src = "UPNP", \A j \in (i + 1)..Len(wire) : wire[j].src = "none", i # 1
          PROVE  \E k \in 1..Len(wire') : wire'[k].src = "UPNP" /\ \A j \in (k + 1)..Len(wire') : wire'[j].src = "none"
      <4>1. i - 1 \in 1..Len(wire') /\ wire'[i - 1].src = "UPNP"
        BY <1>2, <3>1
      <4>2. \A j \in ((i - 1) + 1)..Len(wire') : j \in 1..Len(wire') /\ j + 1 \in (i + 1)..Len(wire)
        BY <1>2, <3>1
      <4>3. \A j \in ((i - 1) + 1)..Len(wire') : wire'[j].src = "none"
        BY <1>2, <3>1, <4>2
      <4>. QED
        BY <4>1, <4>3
    <3>2. ASSUME wire[1].src = "UPNP", \A j \in 2..Len(wire) : wire[j].src = "none"
          PROVE  /\ \A i \in 1..Len(wire') : wire'[i].src \in {"none", "INVALID_SOURCE"}
                 /\ lastSource' = "UPNP"
      <4>1. \A i \in 1..Len(wire') : i + 1 \in 2..Len(wire)
        BY <1>2
      <4>. QED
        BY <1>1, <1>2, <3>2, <4>1
    <3>3. ASSUME \A i \in 1..Len(wire) : wire[i].src \in {"none", "INVALID_SOURCE"}, insync => lastSource = "UPNP" \/ episode
          PROVE  /\ \A i \in 1..Len(wire') : wire'[i].src \in {"none", "INVALID_SOURCE"}
                 /\ insync' => lastSource' = "UPNP" \/ episode'
      <4>1. 1 \in 1..Len(wire) /\ f.src \in {"none", "INVALID_SOURCE"}
        BY <1>1, <1>2, <3>3
      <4>2. insync' => insync
        BY <1>1, <4>1
      <4>3. insync => lastSource' = "UPNP" \/ episode'
        BY <1>0, <1>1, <3>3, <4>1, EpisodeFacts
      <4>. QED
        BY <1>2, <3>3, <4>2, <4>3
    <3>4. 1 + 1 = 2
      OBVIOUS
    <3>. QED
      BY <1>1, <2>1, <2>2, <3>1, <3>2, <3>3, <3>4 DEF LastReport
  <2>3. EndsHeard'
    <3>. SUFFICES ASSUME NEW i \in 1..Len(wire'), wire'[i].ends
                  PROVE  /\ wire'[i].src = "STANDBY" /\ wire'[i].kind = "now"
                         /\ \/ i > 1 /\ wire'[i - 1].src = "UPNP"
                            \/ (\A j \in 1..(i - 1) : wire'[j].src = "none") /\ (insync' => lastSource' = "UPNP" \/ episode')
      BY DEF EndsHeard
    <3>1. i + 1 \in 1..Len(wire) /\ wire[i + 1] = wire'[i] /\ i \in Nat /\ (i + 1) - 1 = i /\ i + 1 > 1
      BY <1>2
    <3>2. CASE wire[i].src = "UPNP" /\ i = 1
      BY <1>1, <2>1, <3>1, <3>2 DEF EndsHeard
    <3>3. CASE wire[i].src = "UPNP" /\ i > 1
      <4>1. wire'[i - 1] = wire[i]
        BY <1>2, <3>1, <3>3
      <4>. QED
        BY <2>1, <3>1, <3>3, <4>1 DEF EndsHeard
    <3>4. CASE (\A j \in 1..i : wire[j].src = "none") /\ (insync => lastSource = "UPNP" \/ episode)
      <4>1. f.src = "none"
        BY <1>1, <3>1, <3>4
      <4>2. lastSource' = lastSource /\ episode' = episode /\ (insync' => insync)
        BY <1>0, <1>1, <4>1, EpisodeFacts
      <4>3. \A j \in 1..(i - 1) : j + 1 \in 1..i /\ j \in 1..Len(wire')
        BY <3>1
      <4>4. \A j \in 1..(i - 1) : wire'[j].src = "none"
        BY <1>2, <3>4, <4>3
      <4>. QED
        BY <2>1, <3>1, <3>4, <4>2, <4>4 DEF EndsHeard
    <3>. QED
      BY <2>1, <3>1, <3>2, <3>3, <3>4 DEF EndsHeard
  <2>. QED
    BY <2>2, <2>3 DEF LastReport
<1>8. BoxInv'
  <2>1. \A c \in calls' : c[1] = "OnUserStop" => c[2] = "user"
    <3>. SUFFICES ASSUME NEW c \in calls', c[1] = "OnUserStop", f.by # "user" PROVE FALSE
      BY <1>1
    <3>a. f.stop /\ ~StopStateIsTeardown(f, fresh \cup SourceStamps(f))
      BY <1>1
    <3>1. 1 \in 1..Len(wire) /\ 1..(1 - 1) = {}
      BY <1>2
    <3>2. fresh \cap Shields # {} \/ ("own" \in fresh /\ "key" \notin fresh)
      BY <1>1, <3>a, <3>1 DEF BoxIInv, StopsExplained
    <3>. QED
      BY <1>3, <3>a, <3>2 DEF StopStateIsTeardown, Shields
  <2>. QED
    BY <1>1, <1>4, <2>1, BoxInvOf
<1>. QED
  BY <1>4, <1>5, <1>6, <1>7, <1>8 DEF BoxIInv

LEMMA BoxStep ==
  ASSUME BoxIInv, BoxNext
  PROVE  BoxIInv'
  BY SpeakerSendsStep, OwnCommandStep, HandleMessageStep, WindowsStep, ReconnectStep DEF BoxNext

\* The standby that ends what played for the agent is heard: the head of the wire has nothing before it.
LEMMA PowerOffHeard ==
  ASSUME BoxIInv, "list" \notin BurstKinds, HandleMessage, Head(wire).ends, insync, lastSource # "STANDBY"
  PROVE  \E c \in calls' : c[1] = "OnEnterStandby"
<1>0. BoxTypes /\ EndsHeard
  BY DEF BoxIInv
<1>1. PICK f \in FrameType : /\ f = wire[1] /\ f = Head(wire) /\ wire # <<>>
                             /\ \A c \in SourceCalls(f, fresh \cup SourceStamps(f)) : <<c, f.by>> \in calls'
  BY <1>0, Handled
<1>2. 1 \in 1..Len(wire) /\ ~(1 > 1)
  BY <1>0, <1>1, Rest DEF BoxTypes
<1>3. f.src = "STANDBY" /\ (lastSource = "UPNP" \/ episode)
  BY <1>0, <1>1, <1>2 DEF EndsHeard
<1>4. UpnpEpisode(f) = episode
  BY <1>0, <1>3, EpisodeFacts
<1>5. "OnEnterStandby" \in SourceCalls(f, fresh \cup SourceStamps(f))
  BY <1>3, <1>4 DEF SourceCalls, Changed
<1>6. <<"OnEnterStandby", f.by>> \in calls'
  BY <1>1, <1>5
<1>. QED
  BY <1>6

-----------------------------------------------------------------------------
(***************************************************************************)
(* The boots and the watchdogs.                                            *)
(***************************************************************************)

ProcStates == {"none", "starting", "hung", "serving", "redirected", "losing"}
BootTypes ==
  /\ procs \in [Agents -> ProcStates] /\ pidFile \in Agents \cup {0} /\ hosts \in BOOLEAN
  /\ fast \in [at : {"watch", "drain", "over"}, i : 0..Checks, restarts : 0..FastCap, again : BOOLEAN]
  /\ slow \in {"watch", "drain"} /\ heal \in [tried : BOOLEAN, count : 0..SelfhealMax]

\* Before the script no process lives and no watchdog is about to start one.
Unbooted == bin = "none" => fast.at # "drain" /\ slow # "drain" /\ \A a \in Agents : ~Alive(a)

\* The process of agent.pid is the only one, none while a watchdog waits to start it, and only one
\* watchdog waits; so its port was free, and nobody takes its redirect away.
LoneAgent ==
  ~late =>
    /\ \A a \in Agents : Alive(a) => a = pidFile /\ fast.at # "drain" /\ slow # "drain" /\ procs[a] # "losing"
    /\ ~(fast.at = "drain" /\ slow = "drain")
    /\ \A a \in Agents : procs[a] = "redirected" => hosts

BootIInv == BootTypes /\ Unbooted /\ LoneAgent

\* There is a first process.
LEMMA FirstAgent == \E a \in Agents : \A x \in Agents : a <= x
<1>. DEFINE R == OpToRel(<, Nat)
<1>1. IsWellFoundedOn(R, Nat) /\ Agents \subseteq Nat /\ Agents # {}
  BY NatLessThanWellFounded, BootAssumption
<1>2. \A x, y \in Nat : <<x, y>> \in R <=> x < y
  BY DEF OpToRel
<1>. HIDE DEF R
<1>3. PICK a \in Agents : \A y \in Agents : <<y, a>> \notin R
  BY <1>1, WFMin
<1>4. \A y \in Agents : ~(y < a)
  BY <1>1, <1>2, <1>3
<1>. QED
  BY <1>1, <1>4

LEMMA InitBoot == BootInit => BootIInv
<1>. SUFFICES ASSUME BootInit PROVE BootIInv
  OBVIOUS
<1>1. fast \in [at : {"watch", "drain", "over"}, i : 0..Checks, restarts : 0..FastCap, again : BOOLEAN] /\ fast.at = "watch"
  BY BootAssumption DEF BootInit, FastStart
<1>2. heal \in [tried : BOOLEAN, count : 0..SelfhealMax]
  BY BootAssumption DEF BootInit
<1>3. procs \in [Agents -> ProcStates] /\ (\A a \in Agents : procs[a] = "none") /\ pidFile \in Agents \cup {0} /\ hosts \in BOOLEAN /\ slow = "watch"
  BY DEF BootInit, ProcStates
<1>. QED
  BY <1>1, <1>2, <1>3 DEF BootIInv, BootTypes, Unbooted, LoneAgent, Alive

LEMMA BootHolds == BootIInv => BootInv
<1>. SUFFICES ASSUME BootIInv PROVE BootInv
  OBVIOUS
<1>1. BootTypeOK
  BY DEF BootIInv, BootTypes, BootTypeOK, ProcStates
<1>2. OneAgent
  <2>. SUFFICES ASSUME ~late PROVE Cardinality({a \in Agents : Alive(a)}) <= 1
    BY DEF OneAgent
  <2>1. {a \in Agents : Alive(a)} \in SUBSET {pidFile}
    BY DEF BootIInv, LoneAgent
  <2>2. IsFiniteSet({pidFile}) /\ Cardinality({pidFile}) = 1
    BY FS_Singleton
  <2>3. IsFiniteSet({a \in Agents : Alive(a)}) /\ Cardinality({a \in Agents : Alive(a)}) <= Cardinality({pidFile})
    BY <2>1, <2>2, FS_Subset
  <2>. QED
    BY <2>2, <2>3
<1>3. RedirectHeld
  BY DEF BootIInv, LoneAgent, RedirectHeld
<1>. QED
  BY <1>1, <1>2, <1>3 DEF BootInv

\* A launch starts the only process when none lives.
LEMMA LaunchTyped ==
  ASSUME BootIInv, NEW b, Launches(b)
  PROVE  /\ procs' \in [Agents -> ProcStates] /\ pidFile' \in Agents
         /\ (\A a \in Agents : ~Alive(a)) => \A a \in Agents : procs'[a] = "none" \/ (a = pidFile' /\ procs'[a] = "starting")
<1>1. PICK a \in Agents : procs[a] = "none" /\ pidFile' = a
                          /\ procs' = [procs EXCEPT ![a] = IF Launchable(b) \in Good THEN "starting" ELSE "none"]
  BY DEF Launches
<1>. QED
  BY <1>1 DEF BootIInv, BootTypes, ProcStates, Alive

LEMMA BootScriptStep ==
  ASSUME BootIInv, BootScript
  PROVE  BootIInv'
<1>1. /\ bin = "none" /\ UNCHANGED <<stickIn, hosts, fast, slow, heal, unstable, late, accidents>>
      /\ \A a \in Agents : procs[a] = "none"
  BY DEF BootScript, BootIInv, Unbooted, Alive
<1>2. PICK s \in Synced, b \in {"ram", "flash", "stick", "stopped"} :
        /\ bin' = b
        /\ IF b = "stopped" THEN UNCHANGED <<procs, pidFile>>
           ELSE /\ pidFile' = CHOOSE a \in Agents : \A x \in Agents : a <= x
                /\ procs' = [procs EXCEPT ![pidFile'] = IF b # "flash" \/ s.f.seen \in Good THEN "starting" ELSE "none"]
  BY DEF BootScript, BinChoices
<1>3. /\ procs' \in [Agents -> ProcStates] /\ pidFile' \in Agents \cup {0}
      /\ \A a \in Agents : procs'[a] = "none" \/ (a = pidFile' /\ procs'[a] = "starting")
  <2>1. CASE b = "stopped"
    BY <1>1, <1>2, <2>1 DEF BootIInv, BootTypes
  <2>2. CASE b # "stopped"
    <3>1. pidFile' \in Agents
      BY <1>2, <2>2, FirstAgent
    <3>. QED
      BY <1>1, <1>2, <2>2, <3>1 DEF BootIInv, BootTypes, ProcStates
  <2>. QED
    BY <2>1, <2>2
<1>4. bin' # "none" /\ fast.at # "drain" /\ slow # "drain"
  BY <1>1, <1>2 DEF BootIInv, Unbooted
<1>. QED
  BY <1>1, <1>3, <1>4 DEF BootIInv, BootTypes, Unbooted, LoneAgent, Alive

\* The agents: one that lives alone finds its port free, and no other takes its redirect away.
LEMMA AgentsStep ==
  ASSUME BootIInv, NEW a \in Agents, AgentRuns(a) \/ Crashes(a) \/ Hangs(a)
  PROVE  BootIInv'
<1>1. /\ UNCHANGED <<bin, pidFile, fast, slow, heal, late>> /\ Alive(a)
      /\ procs' \in [Agents -> ProcStates] /\ \A x \in Agents : x # a => procs'[x] = procs[x]
  BY DEF AgentRuns, Binds, AppliesHosts, Ends, Crashes, Hangs, AgentOnly, Alive, BootIInv, BootTypes, ProcStates
<1>2. hosts' \in BOOLEAN
  BY DEF AgentRuns, Binds, AppliesHosts, Ends, Apply, Restore, Crashes, Hangs, BootIInv, BootTypes
<1>3. BootTypes'
  BY <1>1, <1>2 DEF BootIInv, BootTypes
<1>4. Unbooted'
  BY <1>1 DEF BootIInv, Unbooted
<1>5. ASSUME ~late
      PROVE  procs'[a] # "losing" /\ (procs'[a] = "redirected" => hosts')
  <2>1. ~Bound \/ procs[a] # "starting"
    BY <1>1, <1>5 DEF BootIInv, LoneAgent, Bound, HasPort, Alive
  <2>2. procs[a] # "losing" /\ (procs[a] = "redirected" => hosts)
    BY <1>1, <1>5 DEF BootIInv, LoneAgent
  <2>. QED
    BY <1>1, <2>1, <2>2 DEF AgentRuns, Binds, AppliesHosts, Ends, Apply, Crashes, Hangs, BootIInv, BootTypes
<1>6. LoneAgent'
  BY <1>1, <1>5 DEF BootIInv, LoneAgent, Alive
<1>. QED
  BY <1>3, <1>4, <1>6 DEF BootIInv

\* What a watchdog leaves to show that starts nothing.
LEMMA Looks ==
  ASSUME BootIInv, UNCHANGED <<bin, procs, pidFile, hosts>>, bin # "none",
         fast' \in [at : {"watch", "drain", "over"}, i : 0..Checks, restarts : 0..FastCap, again : BOOLEAN],
         slow' \in {"watch", "drain"}, heal' \in [tried : BOOLEAN, count : 0..SelfhealMax], late => late',
         ~late' => \/ fast'.at # "drain" /\ slow' = slow
                   \/ (fast'.at = "drain" \/ slow' = "drain") /\ ~(fast'.at = "drain" /\ slow' = "drain") /\ ~FileAlive
  PROVE  BootIInv'
<1>1. BootTypes'
  BY DEF BootIInv, BootTypes
<1>2. Unbooted'
  BY DEF Unbooted
<1>3. ~late /\ ~FileAlive => \A a \in Agents : ~Alive(a)
  BY DEF BootIInv, LoneAgent, FileAlive, BootTypes
<1>4. LoneAgent'
  BY <1>3 DEF BootIInv, LoneAgent, Alive
<1>. QED
  BY <1>1, <1>2, <1>4 DEF BootIInv

LEMMA WatchingStep ==
  ASSUME BootIInv, Watching
  PROVE  BootIInv'
<1>0. /\ fast \in [at : {"watch", "drain", "over"}, i : 0..Checks, restarts : 0..FastCap, again : BOOLEAN]
      /\ heal \in [tried : BOOLEAN, count : 0..SelfhealMax] /\ slow \in {"watch", "drain"}
      /\ Checks \in Nat /\ FastCap \in Nat /\ SelfhealMax \in Nat /\ GraceChecks \in Nat
  BY BootAssumption DEF BootIInv, BootTypes
<1>1. CASE FastSkips
  <2>1. /\ UNCHANGED <<bin, procs, pidFile, hosts, slow, heal, late>> /\ bin # "none" /\ fast.at = "watch" /\ fast.i < Checks
        /\ fast' = [fast EXCEPT !.i = @ + 1]
    BY <1>1 DEF FastSkips, Up
  <2>2. fast' \in [at : {"watch", "drain", "over"}, i : 0..Checks, restarts : 0..FastCap, again : BOOLEAN] /\ fast'.at = "watch"
    BY <1>0, <2>1
  <2>. QED
    BY <1>0, <2>1, <2>2, Looks
<1>2. CASE FastFinds
  <2>1. /\ UNCHANGED <<bin, procs, pidFile, hosts, slow, heal>> /\ bin # "none" /\ fast.at = "watch" /\ fast.i < Checks /\ fast.restarts < FastCap
        /\ ~Fine(fast.i + 1) /\ fast' = [fast EXCEPT !.i = @ + 1, !.restarts = @ + 1, !.at = "drain"]
    BY <1>2 DEF FastFinds, Up
  <2>a. fast' = [at |-> "drain", i |-> fast.i + 1, restarts |-> fast.restarts + 1, again |-> fast.again]
    <3>1. fast' = [fast EXCEPT !.i = fast.i + 1, !.restarts = fast.restarts + 1, !.at = "drain"]
      BY <2>1
    <3>. QED
      BY <1>0, <3>1
  <2>b. fast.i + 1 \in 0..Checks /\ fast.restarts + 1 \in 0..FastCap /\ fast.again \in BOOLEAN
    BY <1>0, <2>1
  <2>2. fast' \in [at : {"watch", "drain", "over"}, i : 0..Checks, restarts : 0..FastCap, again : BOOLEAN] /\ fast'.at = "drain"
    BY <2>a, <2>b
  <2>3. ~late' => ~late /\ ~FileAlive /\ slow # "drain"
    <3>1. late' = (late \/ (FileAlive /\ fast.i + 1 >= GraceChecks) \/ slow = "drain")
      BY <1>2 DEF FastFinds
    <3>2. ~late' => ~late /\ ~(FileAlive /\ fast.i + 1 >= GraceChecks) /\ slow # "drain"
      BY <3>1
    <3>3. fast.i + 1 >= GraceChecks \/ fast.i + 1 < GraceChecks
      BY <1>0
    <3>. QED
      BY <2>1, <3>2, <3>3 DEF Fine
  <2>. QED
    BY <1>0, <2>1, <2>2, <2>3, Looks
<1>3. CASE FastLaunches
  <2>1. /\ fast.at = "drain" /\ Launches(bin) /\ fast' = [fast EXCEPT !.at = "watch"] /\ UNCHANGED <<bin, hosts, slow, heal, late>>
    BY <1>3 DEF FastLaunches
  <2>2. fast' \in [at : {"watch", "drain", "over"}, i : 0..Checks, restarts : 0..FastCap, again : BOOLEAN] /\ fast'.at = "watch"
    BY <1>0, <2>1
  <2>3. procs' \in [Agents -> ProcStates] /\ pidFile' \in Agents
    BY <2>1, LaunchTyped
  <2>4. ~late => slow # "drain" /\ \A a \in Agents : procs'[a] = "none" \/ (a = pidFile' /\ procs'[a] = "starting")
    <3>1. ~late => slow # "drain" /\ \A a \in Agents : ~Alive(a)
      BY <2>1 DEF BootIInv, LoneAgent
    <3>. QED
      BY <2>1, <3>1, LaunchTyped
  <2>5. bin # "none"
    BY <2>1 DEF BootIInv, Unbooted
  <2>. QED
    BY <2>1, <2>2, <2>3, <2>4, <2>5 DEF BootIInv, BootTypes, Unbooted, LoneAgent, Alive
<1>4. CASE FastHeals
  <2>1. /\ UNCHANGED <<bin, procs, pidFile, hosts, slow, late>> /\ bin # "none" /\ heal.count < SelfhealMax
        /\ heal' = [tried |-> TRUE, count |-> heal.count + 1] /\ fast' = [FastStart EXCEPT !.again = TRUE]
    BY <1>4 DEF FastHeals, Up, Healable
  <2>a. fast' = [at |-> "watch", i |-> 0, restarts |-> 0, again |-> TRUE]
    BY <2>1 DEF FastStart
  <2>2. fast' \in [at : {"watch", "drain", "over"}, i : 0..Checks, restarts : 0..FastCap, again : BOOLEAN] /\ fast'.at = "watch"
    BY <1>0, <2>a
  <2>3. heal' \in [tried : BOOLEAN, count : 0..SelfhealMax]
    BY <1>0, <2>1
  <2>. QED
    BY <1>0, <2>1, <2>2, <2>3, Looks
<1>5. CASE FastGivesUp
  <2>1. /\ UNCHANGED <<bin, procs, pidFile, hosts, slow, late>> /\ bin # "none"
        /\ heal' = [heal EXCEPT !.tried = TRUE] /\ fast' = [fast EXCEPT !.at = "over"]
    BY <1>5 DEF FastGivesUp, Up
  <2>2. fast' \in [at : {"watch", "drain", "over"}, i : 0..Checks, restarts : 0..FastCap, again : BOOLEAN] /\ fast'.at = "over"
    BY <1>0, <2>1
  <2>3. heal' \in [tried : BOOLEAN, count : 0..SelfhealMax]
    BY <1>0, <2>1
  <2>. QED
    BY <1>0, <2>1, <2>2, <2>3, Looks
<1>6. CASE FastOver
  <2>1. /\ UNCHANGED <<bin, procs, pidFile, hosts, slow, heal, late>> /\ bin # "none" /\ fast' = [fast EXCEPT !.at = "over"]
    BY <1>6 DEF FastOver, Up
  <2>2. fast' \in [at : {"watch", "drain", "over"}, i : 0..Checks, restarts : 0..FastCap, again : BOOLEAN] /\ fast'.at = "over"
    BY <1>0, <2>1
  <2>. QED
    BY <1>0, <2>1, <2>2, Looks
<1>. QED
  BY <1>1, <1>2, <1>3, <1>4, <1>5, <1>6 DEF Watching

LEMMA SlowWatchingStep ==
  ASSUME BootIInv, SlowWatching
  PROVE  BootIInv'
<1>0. /\ fast \in [at : {"watch", "drain", "over"}, i : 0..Checks, restarts : 0..FastCap, again : BOOLEAN]
      /\ heal \in [tried : BOOLEAN, count : 0..SelfhealMax]
  BY DEF BootIInv, BootTypes
<1>1. CASE SlowFinds
  <2>1. /\ UNCHANGED <<bin, procs, pidFile, hosts, fast, heal>> /\ bin # "none" /\ slow' = "drain" /\ ~FileAlive
        /\ late' = (late \/ fast.at = "drain")
    BY <1>1 DEF SlowFinds, Up
  <2>. QED
    BY <1>0, <2>1, Looks
<1>2. CASE SlowLaunches
  <2>1. slow = "drain" /\ Launches(bin) /\ slow' = "watch" /\ UNCHANGED <<bin, hosts, fast, heal, late>>
    BY <1>2 DEF SlowLaunches
  <2>2. procs' \in [Agents -> ProcStates] /\ pidFile' \in Agents
    BY <2>1, LaunchTyped
  <2>3. ~late => fast.at # "drain" /\ \A a \in Agents : procs'[a] = "none" \/ (a = pidFile' /\ procs'[a] = "starting")
    <3>1. ~late => fast.at # "drain" /\ \A a \in Agents : ~Alive(a)
      BY <2>1 DEF BootIInv, LoneAgent
    <3>. QED
      BY <2>1, <3>1, LaunchTyped
  <2>4. bin # "none"
    BY <2>1 DEF BootIInv, Unbooted
  <2>. QED
    BY <2>1, <2>2, <2>3, <2>4 DEF BootIInv, BootTypes, Unbooted, LoneAgent, Alive
<1>. QED
  BY <1>1, <1>2 DEF SlowWatching

LEMMA RebootsStep ==
  ASSUME BootIInv, Reboots
  PROVE  BootIInv'
<1>1. /\ procs' = [a \in Agents |-> "none"] /\ hosts' = FALSE /\ pidFile' = 0 /\ fast' = FastStart /\ slow' = "watch"
      /\ heal' = [heal EXCEPT !.tried = FALSE]
  BY DEF Reboots
<1>2. fast' \in [at : {"watch", "drain", "over"}, i : 0..Checks, restarts : 0..FastCap, again : BOOLEAN] /\ fast'.at = "watch"
  BY <1>1, BootAssumption DEF FastStart
<1>3. heal' \in [tried : BOOLEAN, count : 0..SelfhealMax]
  BY <1>1 DEF BootIInv, BootTypes
<1>. QED
  BY <1>1, <1>2, <1>3 DEF BootIInv, BootTypes, Unbooted, LoneAgent, Alive, ProcStates

LEMMA BootStep ==
  ASSUME BootIInv, BootNext
  PROVE  BootIInv'
<1>1. CASE MovesStick
  BY <1>1 DEF MovesStick, BootIInv, BootTypes, Unbooted, LoneAgent, Alive
<1>. QED
  BY <1>1, BootScriptStep, RebootsStep, WatchingStep, SlowWatchingStep, AgentsStep DEF BootNext

-----------------------------------------------------------------------------
(***************************************************************************)
(* The speaker.                                                            *)
(***************************************************************************)

\* The steps of the other parts.
LEMMA UpdateStays ==
  ASSUME ~MayOverlap, UpdateIInv, [UpdateNext]_updateVars
  PROVE  UpdateIInv'
<1>1. CASE UpdateNext
  BY <1>1, UpdateStep
<1>2. CASE UNCHANGED updateVars
  BY <1>2 DEF updateVars, UpdateIInv, UpdateTypes, OneUpload, NoneOutlives, Carried, PartialNeverLive, StampTellsEngine, Busy
<1>. QED
  BY <1>1, <1>2

LEMMA KeysStay ==
  ASSUME KeyIInv, [KeyNext]_keyVars
  PROVE  KeyIInv'
<1>1. CASE KeyNext
  BY <1>1, KeyStep
<1>2. CASE UNCHANGED keyVars
  BY <1>2 DEF keyVars, KeyIInv, KeyTypes, GhostsApart, Recovering
<1>. QED
  BY <1>1, <1>2

LEMMA BoxStays ==
  ASSUME BoxIInv, [BoxNext]_boxVars
  PROVE  BoxIInv'
<1>1. CASE BoxNext
  BY <1>1, BoxStep
<1>2. CASE UNCHANGED boxVars
  <2>1. BoxTypes' /\ StopsExplained' /\ KeysExplained'
    BY <1>2 DEF boxVars, BoxIInv, BoxTypes, StopsExplained, KeysExplained
  <2>2. BoxInv'
    BY <1>2 DEF boxVars, BoxIInv, BoxInv, BoxTypeOK, NoPhantomStop, ThumbIsLone
  <2>3. "list" \notin BurstKinds => LastReport' /\ EndsHeard'
    BY <1>2 DEF boxVars, BoxIInv, LastReport, EndsHeard
  <2>. QED
    BY <2>1, <2>2, <2>3 DEF BoxIInv
<1>. QED
  BY <1>1, <1>2

LEMMA BootStays ==
  ASSUME BootIInv, [BootNext]_bootVars
  PROVE  BootIInv'
<1>1. CASE BootNext
  BY <1>1, BootStep
<1>2. CASE UNCHANGED bootVars
  BY <1>2 DEF bootVars, BootIInv, BootTypes, Unbooted, LoneAgent, Alive
<1>. QED
  BY <1>1, <1>2

\* Where no upload overlaps another, no partial binary is ever live and the hash beside the engine is
\* its own; and always presets that were lost come back from the keys, no tear-down is taken for a
\* stop of the user, a thumb is a lone key, and there is one agent at a time.
THEOREM SpeakerSafe ==
  ASSUME ~MayOverlap
  PROVE  SpeakerSpec => []SpeakerInv
<1>. DEFINE Inv == UpdateIInv /\ KeyIInv /\ BoxIInv /\ BootIInv
<1>1. SpeakerInit => Inv
  BY InitUpdate, InitKeys, InitBox, InitBoot DEF SpeakerInit
<1>2. ASSUME Inv, [SpeakerNext]_<<part, updateVars, keyVars, boxVars, bootVars>> PROVE Inv'
  <2>1. [UpdateNext]_updateVars /\ [KeyNext]_keyVars /\ [BoxNext]_boxVars /\ [BootNext]_bootVars
    BY <1>2 DEF SpeakerNext, In
  <2>. QED
    BY <1>2, <2>1, UpdateStays, KeysStay, BoxStays, BootStays
<1>3. Inv => SpeakerInv
  BY UpdateHolds, KeysHold, BootHolds DEF SpeakerInv, BoxIInv
<1>. QED
  BY <1>1, <1>2, <1>3, PTL DEF SpeakerSpec

\* Where no upload overlaps another, a speaker that reboots for an update runs the binary of the upload
\* the reboot was for, or what the stick holds, whatever happened to the flash in between.
THEOREM RebootsSafe ==
  ASSUME ~MayOverlap
  PROVE  SpeakerSpec => RebootsIntoUpdate
<1>1. SpeakerInit => UpdateIInv
  BY InitUpdate DEF SpeakerInit
<1>2. ASSUME UpdateIInv, [SpeakerNext]_<<part, updateVars, keyVars, boxVars, bootVars>> PROVE UpdateIInv'
  BY <1>2, UpdateStays DEF SpeakerNext, In
<1>3. UpdateIInv => [\A p \in AgentPushes : Reboot(p) \/ HelperReboots(p) => bins.agent = p /\ running' \in {p, stick}]_updateVars
  BY RebootRuns
<1>. QED
  BY <1>1, <1>2, <1>3, PTL DEF SpeakerSpec, RebootsIntoUpdate

\* Unless the speaker reports its list of presets between two reports of what it plays, the message with
\* which it goes off while it plays for this agent has the client take it for off, whatever was lost,
\* repeated or read late before.
THEOREM PowerOffSafe ==
  ASSUME "list" \notin BurstKinds
  PROVE  SpeakerSpec => PowerOffSeen
<1>1. SpeakerInit => BoxIInv
  BY InitBox DEF SpeakerInit
<1>2. ASSUME BoxIInv, [SpeakerNext]_<<part, updateVars, keyVars, boxVars, bootVars>> PROVE BoxIInv'
  <2>1. [BoxNext]_boxVars
    BY <1>2 DEF SpeakerNext, In
  <2>. QED
    BY <1>2, <2>1, BoxStays
<1>3. BoxIInv => [HandleMessage /\ Head(wire).ends /\ insync /\ lastSource # "STANDBY" => \E c \in calls' : c[1] = "OnEnterStandby"]_boxVars
  BY PowerOffHeard
<1>. QED
  BY <1>1, <1>2, <1>3, PTL DEF SpeakerSpec, PowerOffSeen
=============================================================================
