------------------------------ MODULE AgentUpdate ------------------------------
(***************************************************************************)
(* Uploads of a new agent and of a new Spotify engine                      *)
(* (internal/webui/agent_admin.go, ota_lastresort.go, ota_stick.go): a     *)
(* temp file and a rename on a volume that runs full or turns read-only,   *)
(* a check of what reached the flash before the reboot, and, when two      *)
(* copies do not fit, a stage in RAM that a detached shell swaps in after  *)
(* the agent has exited.  An upload is named by the binary it carries; a   *)
(* power cut or a reboot ends every process and runs the boot script.      *)
(***************************************************************************)
EXTENDS Naturals, FiniteSets

CONSTANTS AgentPushes, EnginePushes,  \* the uploads, each made once
          MayOverlap,                 \* uploads are made while another is under way
          MaxFaults                   \* bound on power cuts and on volumes that turn read-only

ASSUME UpdateAssumption == MayOverlap \in BOOLEAN /\ MaxFaults \in Nat /\ AgentPushes \cap EnginePushes = {}
                           /\ {"none", "old", "part"} \cap (AgentPushes \cup EnginePushes) = {}

VARIABLES
  uploads,     \* per upload: where its handler is, and the temp file it has open
  temps,       \* dst + ".new" of each binary: the upload that created the file, or "none"
  written,     \* per upload: what the temp file it created holds
  bins,        \* the binaries on flash; "part" is one cut short
  engineSha,   \* the .sha256 next to the engine: its text, and whether it is as new as the engine
  nand,        \* the volume is writable
  marks,       \* the files ota-swap-failed and engine-dropped-for-update
  stage,       \* the stage in RAM
  helpers,     \* per upload: where its swap helper is
  agentUp,     \* the agent runs: "first" is the process that took the upload, "respawned" a later one
  stick,       \* the agent on an inserted stick, or "none"
  running,     \* the agent binary of the last boot
  updateFaults \* faults so far

updateVars == <<uploads, temps, written, bins, engineSha, nand, marks, stage, helpers, agentUp, stick, running, updateFaults>>

Uploads == AgentPushes \cup EnginePushes
Target_Agent(p) == "agent"
Target(p) == IF p \in AgentPushes THEN "agent" ELSE "engine"
Quiet == {"idle", "over"}
Held == {"wait", "copy", "copying", "check", "recopy", "recopying", "recheck", "reboot"}

UpdateInit ==
  /\ uploads = [p \in Uploads |-> [pc |-> "idle", tier |-> "first", fd |-> "none"]]
  /\ temps = [b \in {"agent", "engine"} |-> "none"] /\ written = [p \in Uploads |-> "none"]
  /\ bins = [agent |-> "old", engine |-> "old"] /\ engineSha = [text |-> "old", fresh |-> TRUE]
  /\ nand = "rw" /\ marks = {} /\ stage = "none" /\ helpers = [p \in AgentPushes |-> "none"]
  /\ agentUp = "first" /\ stick \in {"none", "old"} /\ running = "old" /\ updateFaults = 0

-----------------------------------------------------------------------------
(***************************************************************************)
(* The write shared by both handlers.                                      *)
(***************************************************************************)
At(p, pc) == agentUp = "first" /\ uploads[p].pc = pc
Goto(p, pc) == uploads' = [uploads EXCEPT ![p].pc = pc]

\* readUploadedELF: the body is in memory; streamUploadedELF: its first bytes are an ELF's.
Upload(p) ==
  /\ At(p, "idle")
  /\ MayOverlap \/ ((\A q \in Uploads : uploads[q].pc \in Quiet) /\ \A q \in AgentPushes : helpers[q] \notin Held)
  /\ \/ Goto(p, "prepare")
     \/ Goto(p, "over")
  /\ UNCHANGED <<temps, written, bins, engineSha, nand, marks, stage, helpers, agentUp, stick, running, updateFaults>>

\* prepareBinaryWrite: the temp of this binary, then every temp (reclaimNAND); a volume that looks
\* full gives up the engine too, after the engine has been stopped.  Nothing is deleted read-only.
Prepare(p) ==
  /\ At(p, "prepare") /\ Goto(p, "open")
  /\ IF nand = "ro" THEN UNCHANGED <<temps, bins, engineSha, marks>>
     ELSE /\ temps' = [b \in DOMAIN temps |-> "none"]
          /\ \/ UNCHANGED <<bins, engineSha, marks>>
             \/ /\ engineSha' = [text |-> "none", fresh |-> FALSE] /\ bins' = [bins EXCEPT !.engine = "none"]
                /\ marks' = IF bins.engine = "none" THEN marks ELSE marks \cup {"dropped"}
  /\ UNCHANGED <<written, nand, stage, helpers, agentUp, stick, running, updateFaults>>

\* What the handler does about a write that failed: a read-only volume is remounted once, a full
\* one sends an agent to RAM, anything else is answered with the error.
AfterFailure(p, why) ==
  \/ /\ p \in AgentPushes /\ uploads[p].tier = "first" /\ (why = "ro" \/ nand = "ro")
     /\ \/ nand' = "rw" /\ uploads' = [uploads EXCEPT ![p] = [pc |-> "prepare", tier |-> "remounted", fd |-> "none"]]
        \/ UNCHANGED nand /\ Goto(p, "over")
  \/ /\ p \in AgentPushes /\ uploads[p].tier # "rewrite" /\ why = "space"
     /\ ~(uploads[p].tier = "first" /\ nand = "ro")
     /\ Goto(p, "stage") /\ UNCHANGED nand
  \/ /\ p \in EnginePushes \/ uploads[p].tier = "rewrite" \/ why = "other"
     /\ ~(p \in AgentPushes /\ uploads[p].tier = "first" /\ nand = "ro")
     /\ Goto(p, "over") /\ UNCHANGED nand

\* O_CREATE|O_TRUNC: a temp another upload has made is emptied and shared.
OpenTemp(p) ==
  /\ At(p, "open")
  /\ IF nand = "ro" THEN AfterFailure(p, "ro") /\ UNCHANGED <<temps, written>>
     ELSE LET f == IF temps[Target(p)] = "none" THEN p ELSE temps[Target(p)]
          IN /\ temps' = [temps EXCEPT ![Target(p)] = f] /\ written' = [written EXCEPT ![f] = "part"]
             /\ uploads' = [uploads EXCEPT ![p].pc = "write", ![p].fd = f] /\ UNCHANGED nand
  /\ UNCHANGED <<bins, engineSha, marks, stage, helpers, agentUp, stick, running, updateFaults>>

\* The bytes, then fsync.  A file another upload writes too holds a mixture.
Shared(p) == \E q \in Uploads \ {p} : uploads[q].pc \in {"write", "rename"} /\ uploads[q].fd = uploads[p].fd
WriteTemp(p) ==
  /\ At(p, "write")
  /\ \/ /\ nand = "rw" /\ Goto(p, "rename")
        /\ written' = [written EXCEPT ![uploads[p].fd] = IF Shared(p) THEN "part" ELSE p]
        /\ UNCHANGED <<temps, nand>>
     \/ /\ \E why \in IF nand = "ro" THEN {"ro"} ELSE {"space", "other"} : AfterFailure(p, why)
        /\ temps' = IF nand = "ro" THEN temps ELSE [temps EXCEPT ![Target(p)] = "none"]
        /\ UNCHANGED written
  /\ UNCHANGED <<bins, engineSha, marks, stage, helpers, agentUp, stick, running, updateFaults>>

\* finishBinaryWrite renames whatever file has the temp's name now.  The flash may still keep the
\* binary it had ("UBIFS + these boxes have burned us"), which the check after it is for.
RenameTemp_InPlace(p) ==
  /\ At(p, "write") /\ uploads' = [uploads EXCEPT ![p].pc = "verify"] /\ bins' = [bins EXCEPT ![Target(p)] = "part"]
  /\ UNCHANGED <<temps, written, engineSha, nand, marks, stage, helpers, agentUp, stick, running, updateFaults>>
RenameTemp(p) ==
  /\ At(p, "rename")
  /\ LET f == temps[Target(p)]
     IN \/ /\ f # "none" /\ nand = "rw"
           /\ bins' \in {[bins EXCEPT ![Target(p)] = written[f]]} \cup (IF p \in AgentPushes THEN {bins} ELSE {})
           /\ engineSha' = IF p \in EnginePushes THEN [engineSha EXCEPT !.fresh = FALSE] ELSE engineSha
           /\ Goto(p, IF p \in AgentPushes THEN "verify" ELSE "stamp") /\ UNCHANGED nand
        \/ f = "none" /\ AfterFailure(p, "other") /\ UNCHANGED <<bins, engineSha>>
        \/ f # "none" /\ nand = "ro" /\ AfterFailure(p, "ro") /\ UNCHANGED <<bins, engineSha>>
  /\ temps' = [temps EXCEPT ![Target(p)] = "none"]
  /\ UNCHANGED <<written, marks, stage, helpers, agentUp, stick, running, updateFaults>>

-----------------------------------------------------------------------------
(***************************************************************************)
(* The agent: check, answer, reboot.                                       *)
(***************************************************************************)
\* verifyBinaryOnFlash; a first mismatch rewrites, a second refuses to reboot.
OnFlash_Assumed(p) == TRUE
OnFlash(p) == bins.agent = p
Verify(p) ==
  /\ At(p, "verify")
  /\ \/ OnFlash(p) /\ Goto(p, "answered") /\ marks' = marks \ {"swapFailed"}
     \/ /\ ~OnFlash(p) /\ UNCHANGED marks
        /\ IF uploads[p].tier = "rewrite" THEN Goto(p, "over")
           ELSE uploads' = [uploads EXCEPT ![p] = [pc |-> "prepare", tier |-> "rewrite", fd |-> "none"]]
  /\ UNCHANGED <<temps, written, bins, engineSha, nand, stage, helpers, agentUp, stick, running, updateFaults>>

\* refreshStickAgentBinary: a stick that is still there gets the same binary, if its write works.
Refreshed(p) == stick' \in IF stick = "none" THEN {stick} ELSE {stick, p}

RefreshStick(p) ==
  /\ At(p, "answered") /\ Goto(p, "refreshed") /\ Refreshed(p)
  /\ UNCHANGED <<temps, written, bins, engineSha, nand, marks, stage, helpers, agentUp, running, updateFaults>>

\* Everything in RAM is gone; the boot script installs the agent of an inserted stick.  The
\* agent, once it runs, deletes the temps (ReclaimNAND).
Booted ==
  /\ uploads' = [p \in Uploads |-> [uploads[p] EXCEPT !.pc = IF @ = "idle" THEN @ ELSE "over"]]
  /\ helpers' = [p \in AgentPushes |-> IF helpers[p] \in Held THEN "none" ELSE helpers[p]]
  /\ bins' = [bins EXCEPT !.agent = IF stick = "none" THEN @ ELSE stick]
  /\ running' = bins'.agent
  /\ agentUp' = IF running' = "part" THEN "down" ELSE "first"
  /\ temps' = IF running' = "part" THEN temps ELSE [b \in DOMAIN temps |-> "none"]
  /\ stage' = "none" /\ nand' = "rw" /\ UNCHANGED <<written, engineSha, stick>>

Reboot(p) == At(p, "refreshed") /\ Booted /\ UNCHANGED <<marks, updateFaults>>

\* The engine: its stamp, then the marker that asked for it back; it is restarted in place.
StampEngine(p) ==
  /\ At(p, "stamp") /\ Goto(p, "over")
  /\ engineSha' \in {[text |-> p, fresh |-> TRUE], engineSha}
  /\ marks' = IF nand = "ro" THEN marks ELSE marks \ {"dropped"}
  /\ UNCHANGED <<temps, written, bins, nand, stage, helpers, agentUp, stick, running, updateFaults>>

\* goLibrespotStamp, on a version poll: a stamp that is not as new as the engine is computed again.
Trusted_Any == engineSha.text # "none"
Trusted == engineSha.fresh
VersionPoll ==
  /\ agentUp = "first" /\ nand = "rw" /\ bins.engine # "none"
  /\ MayOverlap \/ \A p \in Uploads : uploads[p].pc \in Quiet
  /\ engineSha' = IF Trusted THEN [engineSha EXCEPT !.fresh = TRUE] ELSE [text |-> bins.engine, fresh |-> TRUE]
  /\ UNCHANGED <<uploads, temps, written, bins, nand, marks, stage, helpers, agentUp, stick, running, updateFaults>>

-----------------------------------------------------------------------------
(***************************************************************************)
(* The swap through RAM.                                                   *)
(***************************************************************************)
\* stageAndSwapViaRAM: the stage is written and the helper started, or the space error stands.
Stage(p) ==
  /\ At(p, "stage")
  /\ \/ Goto(p, "over") /\ UNCHANGED <<stage, helpers>>
     \/ Goto(p, "staged") /\ stage' = p /\ helpers' = [helpers EXCEPT ![p] = "wait"]
  /\ UNCHANGED <<temps, written, bins, engineSha, nand, marks, agentUp, stick, running, updateFaults>>

\* The handler has answered: the stick, then os.Exit, which ends every other handler with it.
Exit(p) ==
  /\ At(p, "staged") /\ agentUp' = "down" /\ Refreshed(p)
  /\ uploads' = [q \in Uploads |-> [uploads[q] EXCEPT !.pc = IF @ = "idle" THEN @ ELSE "over"]]
  /\ UNCHANGED <<temps, written, bins, engineSha, nand, marks, stage, helpers, running, updateFaults>>

\* The watchdog of the boot script starts the agent again, if its binary runs.
Respawn ==
  /\ agentUp = "down" /\ bins.agent # "part" /\ agentUp' = "respawned"
  /\ UNCHANGED <<uploads, temps, written, bins, engineSha, nand, marks, stage, helpers, stick, running, updateFaults>>

Helper(p, from, to) == helpers[p] = from /\ helpers' = [helpers EXCEPT ![p] = to]
GivesUp(p, from) == Helper(p, from, "none") /\ marks' = marks \cup {"swapFailed"} /\ stage' = "none"

\* After 90 s the agent is killed; one that lives on ends the swap.
HelperWaits(p) ==
  /\ \/ /\ agentUp # "first" /\ Helper(p, "wait", "copy") /\ UNCHANGED <<uploads, marks, stage, agentUp>>
     \/ /\ agentUp = "first" /\ Helper(p, "wait", "copy") /\ agentUp' = "down"
        /\ uploads' = [q \in Uploads |-> [uploads[q] EXCEPT !.pc = IF @ = "idle" THEN @ ELSE "over"]]
        /\ UNCHANGED <<marks, stage>>
     \/ agentUp = "first" /\ GivesUp(p, "wait") /\ UNCHANGED <<uploads, agentUp>>
  /\ UNCHANGED <<temps, written, bins, engineSha, nand, stick, running, updateFaults>>

\* cp over the live binary: a running one is busy, a missing stage or a read-only volume leaves it alone.
HelperCopies(p, from, during, after) ==
  /\ \/ /\ agentUp = "down" /\ stage # "none" /\ nand = "rw"
        /\ Helper(p, from, during) /\ bins' = [bins EXCEPT !.agent = "part"]
     \/ /\ agentUp # "down" \/ stage = "none" \/ nand = "ro"
        /\ Helper(p, from, after) /\ UNCHANGED bins
  /\ UNCHANGED <<uploads, temps, written, engineSha, nand, marks, stage, agentUp, stick, running, updateFaults>>
HelperCopied(p, during, after) ==
  /\ Helper(p, during, after)
  /\ bins' \in {bins} \cup (IF stage = "none" THEN {} ELSE {[bins EXCEPT !.agent = stage]})
  /\ UNCHANGED <<uploads, temps, written, engineSha, nand, marks, stage, agentUp, stick, running, updateFaults>>

\* verify_flash by the hash; the first mismatch kills an agent that holds the binary and copies again.
HelperChecks(p) ==
  /\ IF bins.agent = p THEN Helper(p, "check", "reboot") /\ UNCHANGED agentUp
     ELSE Helper(p, "check", "recopy") /\ agentUp' = "down"
  /\ UNCHANGED <<uploads, temps, written, bins, engineSha, nand, marks, stage, stick, running, updateFaults>>
HelperRechecks_Reboots(p) ==
  /\ Helper(p, "recheck", "reboot")
  /\ UNCHANGED <<uploads, temps, written, bins, engineSha, nand, marks, stage, agentUp, stick, running, updateFaults>>
HelperRechecks(p) ==
  /\ IF bins.agent = p THEN Helper(p, "recheck", "reboot") /\ UNCHANGED <<marks, stage>> ELSE GivesUp(p, "recheck")
  /\ UNCHANGED <<uploads, temps, written, bins, engineSha, nand, agentUp, stick, running, updateFaults>>
HelperReboots(p) ==
  /\ helpers[p] = "reboot" /\ Booted /\ marks' = marks \ {"swapFailed"} /\ UNCHANGED updateFaults

Helping(p) ==
  \/ HelperWaits(p) \/ HelperChecks(p) \/ HelperRechecks(p) \/ HelperReboots(p)
  \/ HelperCopies(p, "copy", "copying", "check") \/ HelperCopied(p, "copying", "check")
  \/ HelperCopies(p, "recopy", "recopying", "recheck") \/ HelperCopied(p, "recopying", "recheck")

-----------------------------------------------------------------------------
Faulty == updateFaults < MaxFaults /\ updateFaults' = updateFaults + 1
PowerCut == Faulty /\ Booted /\ UNCHANGED marks
TurnsReadOnly ==
  /\ Faulty /\ nand = "rw" /\ nand' = "ro"
  /\ UNCHANGED <<uploads, temps, written, bins, engineSha, marks, stage, helpers, agentUp, stick, running>>

Handling(p) == Prepare(p) \/ OpenTemp(p) \/ WriteTemp(p) \/ RenameTemp(p) \/ StampEngine(p)
Updating(p) == Verify(p) \/ RefreshStick(p) \/ Reboot(p) \/ Stage(p) \/ Exit(p)

UpdateNext ==
  \/ \E p \in Uploads : Upload(p) \/ Handling(p)
  \/ \E p \in AgentPushes : Updating(p) \/ Helping(p)
  \/ VersionPoll \/ Respawn \/ PowerCut \/ TurnsReadOnly

UpdateSpec == UpdateInit /\ [][UpdateNext]_updateVars

-----------------------------------------------------------------------------
UpdateTypeOK ==
  /\ DOMAIN uploads = Uploads /\ \A p \in Uploads : uploads[p].fd \in Uploads \cup {"none"}
  /\ bins.agent \in AgentPushes \cup {"old", "part"} /\ bins.engine \in EnginePushes \cup {"old", "part", "none"}
  /\ \A b \in DOMAIN temps : temps[b] = "none" \/ Target(temps[b]) = b
  /\ marks \subseteq {"dropped", "swapFailed"} /\ updateFaults \in 0..MaxFaults

\* "A partial write never becomes the live binary" (agent_admin.go:645): at every moment the power
\* may fail, the agent on flash is whole, except under the copy of the swap helper, and after two
\* copies failed, which the speaker reports.
PartialNeverLive ==
  bins.agent = "part" => "swapFailed" \in marks \/ running = "part"
                         \/ \E p \in AgentPushes : helpers[p] \in {"copying", "check", "recopy", "recopying", "recheck"}

\* "Prove the binary is ON FLASH before any reboot" (agent_admin.go:406): a reboot made for an
\* update runs that update, whatever the flash kept, whichever tier carried it; only a stick that
\* could not be rewritten takes it back.
RebootsIntoUpdate ==
  [][\A p \in AgentPushes : Reboot(p) \/ HelperReboots(p) => bins.agent = p /\ running' \in {p, stick}]_updateVars

\* The hash the speaker reports for its engine is the engine's, across drops, power cuts between
\* the rename and the stamp, and stamps that could not be written (agent_admin.go:262).
StampTellsEngine == engineSha.fresh => engineSha.text = bins.engine

\* What holds of the files and of what is said about them.
UpdateInv == UpdateTypeOK /\ PartialNeverLive /\ StampTellsEngine

\* An armed swap ends: the speaker reboots or reports the failure (ota_lastresort.go:114-165).
SwapEnds == \A p \in AgentPushes : helpers[p] = "wait" ~> helpers[p] = "none"
=============================================================================
