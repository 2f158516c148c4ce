------------------------------- MODULE Installer -------------------------------
(***************************************************************************)
(* How the app puts STR on a speaker and takes it off again                *)
(* (desktop-app/install_str.go, uninstall_str.go, telnet_enable_ssh.go,    *)
(* telnet_bootstrap_marge.go), with the script that runs on the speaker    *)
(* (usb-stick/install.sh) and the boots between.  SSH is open while a      *)
(* stick is in; without one it is opened by an injection into the cloud    *)
(* URLs, of which the speaker keeps three: what its SDK runs with, the     *)
(* file the SDK boots from, and the switch of the setup shell.             *)
(***************************************************************************)
EXTENDS Naturals

CONSTANTS Overlap,       \* an installation and a removal at a time
          MaxInstalls,   \* bound on presses of Install, Repair and Remove
          MaxTroubles    \* bound on power cuts, sticks moved, closings of the app

ASSUME InstallerAssumption == Overlap \in BOOLEAN /\ MaxInstalls \in Nat /\ MaxTroubles \in Nat

Flows == {"install", "remove"}
Files == {"rc", "run", "bin"}

VARIABLES
  box,       \* up, going down; tap: the setup shell is open; http: its agent can be reached from the LAN;
             \* usb: the stick in it; ssh; acct: an account; agent: none, booted before or after the script's end
  urls,      \* sdk: what runs, file: what is booted from, switch: each "stock" or "injected"
  nand,      \* per file: "none", "part", "whole"
  script,    \* install.sh: where it reads from, and the step it is at
  flow,      \* per flow: at, how the files come, retried, and the verdict of the last one
  left,      \* a restore of the URLs failed, or the app was closed before it
  kept,      \* "all": an installation ended well, with the agent of the new boot; "files": the cloud
             \* URLs have been injected since; "none"
  installs, troubles

instVars == <<box, urls, nand, script, flow, left, kept, installs, troubles>>

Still == [at |-> "idle", how |-> "none", tries |-> 0, verdict |-> "none"]
StockURLs == [sdk |-> "stock", file |-> "stock", switch |-> "stock"]
Clean == [f \in Files |-> "none"]
Whole == [f \in Files |-> "whole"]
AtRest(f) == flow[f].at = "idle"

InstInit ==
  /\ box \in [up : {TRUE}, going : {FALSE}, tap : BOOLEAN, http : BOOLEAN, usb : {"none", "good", "bad"},
              ssh : BOOLEAN, acct : BOOLEAN, agent : {"none", "old"}]
  /\ box.ssh = (box.usb # "none")
  /\ nand = (IF box.agent = "old" THEN Whole ELSE Clean)
  /\ urls = StockURLs /\ script = [from |-> "none", step |-> "none"]
  /\ flow = [f \in Flows |-> Still] /\ left = FALSE /\ kept = "none" /\ installs = 0 /\ troubles = 0

GoesOn(f, at) == flow' = [flow EXCEPT ![f].at = at]
Ends(f, verdict) == flow' = [flow EXCEPT ![f] = [Still EXCEPT !.verdict = verdict]]
Copies(f, how) == flow' = [flow EXCEPT ![f].at = "stage", ![f].how = how]

SSH == box.up /\ box.ssh
Shell == box.up /\ box.tap
Answers == box.up /\ box.agent # "none" /\ box.http
InstalledProbe == Answers \/ (SSH /\ box.agent # "none")
BoxSame == UNCHANGED <<box, urls, nand, script>>
Counted == UNCHANGED <<installs, troubles>>

-----------------------------------------------------------------------------
(***************************************************************************)
(* The speaker: it goes down, boots, and runs the script.                  *)
(***************************************************************************)
Dies == IF script.step \in {"none", "ok", "error"} THEN UNCHANGED script
        ELSE script' = [script EXCEPT !.step = "error"]
Torn == IF script.step \in {"rc", "run"} THEN {nand, [nand EXCEPT ![script.step] = "part"]} ELSE {nand}
GoesDown ==
  /\ box.up /\ box.going /\ box' = [box EXCEPT !.up = FALSE, !.going = FALSE, !.ssh = FALSE, !.agent = "none"]
  /\ nand' \in Torn /\ Dies /\ UNCHANGED <<urls, flow, left, kept>> /\ Counted

\* The boot: what STR finds of itself on flash, once the boot hook has copied what is on a stick over it,
\* whole or not; SSH with a stick, or by the injection on a speaker with an account; run.sh heals the file,
\* too late for this boot.
SelfUpdate == IF nand.rc # "whole" THEN {nand}
              ELSE CASE box.usb = "good" -> {Whole} [] box.usb = "bad" -> {nand, [nand EXCEPT !.run = "part"]} [] OTHER -> {nand}
Runs == nand' = Whole
Boots ==
  /\ ~box.up /\ nand' \in SelfUpdate
  /\ \E fires \in BOOLEAN :
       /\ fires => box.acct /\ (urls.file = "injected" \/ urls.switch = "injected")
       /\ box' = [box EXCEPT !.up = TRUE, !.ssh = box.usb # "none" \/ fires, !.agent = IF Runs THEN "new" ELSE "none"]
  /\ urls' = [urls EXCEPT !.sdk = urls.file, !.file = IF Runs THEN "stock" ELSE @]
  /\ kept' = (IF box.usb = "bad" THEN "none" ELSE kept) /\ UNCHANGED <<script, flow, left>> /\ Counted

\* phase1_install: the boot hook, the boot script (whose copy is not checked), the binary beside the
\* live one and renamed, and the file of the SDK.  A bad stick gives the small files only, if those.
After == [rc |-> "run", run |-> "bin", bin |-> "heal", heal |-> "ok"]
Readable(step) == script.from = "stage" \/ (box.usb # "none" /\ (step = "bin" => box.usb = "good"))
Steps(to) == script' = [script EXCEPT !.step = to]
Step ==
  /\ box.up /\ script.step \in DOMAIN After
  /\ LET s == script.step IN
     \/ /\ s \in Files /\ Readable(s) /\ nand' = [nand EXCEPT ![s] = "whole"] /\ Steps(After[s])
        /\ UNCHANGED <<box, urls>>
     \/ /\ s \in Files /\ ~Readable(s) /\ Steps(IF s = "run" THEN "bin" ELSE "error")
        /\ nand' \in (IF s = "bin" THEN {nand} ELSE {nand, [nand EXCEPT ![s] = "part"]}) /\ UNCHANGED <<box, urls>>
     \/ /\ s = "run" /\ nand' = [nand EXCEPT !.run = "part"] /\ Steps("bin") /\ UNCHANGED <<box, urls>>
     \/ /\ s = "rc" /\ script.from = "stick" /\ box.usb = "bad" /\ Steps("error") /\ UNCHANGED <<box, urls, nand>>
     \/ /\ s = "heal" /\ Steps("ok") /\ urls' = [urls EXCEPT !.file = "stock"]
        /\ box' = [box EXCEPT !.agent = IF @ = "none" THEN @ ELSE "old"] /\ UNCHANGED nand
  /\ UNCHANGED <<flow, left, kept>> /\ Counted

-----------------------------------------------------------------------------
(***************************************************************************)
(* The unlock without a stick, of both flows.                              *)
(***************************************************************************)
\* Account, then the configuration of the SDK, which its file takes; a transport that fails ends it.
Inject(f) ==
  /\ flow[f].at = "inject"
  /\ \/ ~Shell /\ GoesOn(f, "recover") /\ UNCHANGED <<box, urls, kept>>
     \/ /\ Shell /\ urls' = [urls EXCEPT !.sdk = "injected", !.file = "injected"]
        /\ kept' = (IF kept = "all" THEN "files" ELSE kept)
        /\ box' \in {box, [box EXCEPT !.acct = TRUE]} /\ (GoesOn(f, "switch") \/ GoesOn(f, "recover"))
  /\ UNCHANGED <<nand, script, left>> /\ Counted

\* envswitch, and sys reboot.
Switch(f) ==
  /\ flow[f].at = "switch"
  /\ \/ ~Shell /\ GoesOn(f, "recover") /\ UNCHANGED <<box, urls>>
     \/ /\ Shell /\ urls' = [urls EXCEPT !.switch = "injected"] /\ GoesOn(f, "open") /\ box' = [box EXCEPT !.going = TRUE]
  /\ UNCHANGED <<nand, script, left, kept>> /\ Counted

\* waitForSSHOpen; without it the removal tries the bootstrap against this PC, which is the same injection.
Opens(f) ==
  /\ flow[f].at = "open" /\ ~box.going
  /\ \/ SSH /\ GoesOn(f, "reset")
     \/ ~SSH /\ f = "remove" /\ flow[f].tries = 0 /\ flow' = [flow EXCEPT ![f].at = "inject", ![f].tries = 1]
     \/ ~SSH /\ (f = "install" \/ flow[f].tries = 1) /\ GoesOn(f, "recover")
  /\ BoxSame /\ UNCHANGED <<left, kept>> /\ Counted

\* resetBoseURLsViaTelnet: the switch first; what the configuration is set to need not reach the file.
Reset_SwitchOnly == {[urls EXCEPT !.sdk = "stock", !.file = "stock"]}
ResetURLs == {[sdk |-> "stock", file |-> x, switch |-> "stock"] : x \in {"stock", urls.file}}
PartReset == {urls, [urls EXCEPT !.switch = "stock"]}
Reset(f) ==
  /\ flow[f].at = "reset"
  /\ IF f = "install" THEN Copies(f, "unlock") ELSE GoesOn(f, "clear")
  /\ \/ Shell /\ urls' \in ResetURLs /\ UNCHANGED left
     \/ urls' \in PartReset /\ left' = TRUE
  /\ UNCHANGED <<box, nand, script, kept>> /\ Counted

\* restoreStockBoseURLsAndReboot.
Recover(f) ==
  /\ flow[f].at = "recover" /\ Ends(f, "closed")
  /\ \/ Shell /\ urls' \in ResetURLs /\ box' = [box EXCEPT !.going = TRUE] /\ UNCHANGED left
     \/ urls' \in PartReset /\ left' = TRUE /\ UNCHANGED box
  /\ UNCHANGED <<nand, script, kept>> /\ Counted

-----------------------------------------------------------------------------
(***************************************************************************)
(* The installation.                                                       *)
(***************************************************************************)
Allowed(f) == AtRest(f) /\ installs < MaxInstalls /\ (Overlap \/ \A g \in Flows : AtRest(g))
Begin(f, at, how) ==
  /\ Allowed(f)
  /\ flow' = [g \in Flows |-> IF g = f THEN [Still EXCEPT !.at = at, !.how = how]
                             ELSE IF AtRest(g) THEN Still ELSE flow[g]]
  /\ installs' = installs + 1 /\ BoxSame /\ UNCHANGED <<left, kept, troubles>>
PressInstall == Begin("install", "preflight", "none")
PressRepair == Begin("install", "stage", "button")

CheckFirst ==
  /\ flow["install"].at = "preflight"
  /\ \/ SSH /\ GoesOn("install", "probe")
     \/ ~SSH /\ Answers /\ Ends("install", "already")
     \/ ~SSH /\ ~Answers /\ Shell /\ GoesOn("install", "inject")
     \/ ~SSH /\ ~Answers /\ ~Shell /\ Ends("install", "closed")
  /\ BoxSame /\ UNCHANGED <<left, kept>> /\ Counted

\* The handshake, and twenty looks for the stick; the script on it, or the files over SSH.
Begins(from) == script' = [from |-> from, step |-> "rc"] /\ kept' = "none"
Probe ==
  /\ flow["install"].at = "probe"
  /\ \/ SSH /\ box.usb # "none" /\ Begins("stick")
        /\ flow' = [flow EXCEPT !["install"].at = "run", !["install"].how = "stick"]
     \/ SSH /\ box.usb = "none" /\ Copies("install", "ota") /\ UNCHANGED <<script, kept>>
     \/ Ends("install", "ssh") /\ UNCHANGED <<script, kept>>
  /\ UNCHANGED <<box, urls, nand, left>> /\ Counted

\* RepairInstallViaSSH: the files staged in RAM and counted, then the script from there.
StageFiles ==
  /\ flow["install"].at = "stage"
  /\ \/ SSH /\ Begins("stage") /\ GoesOn("install", "run")
     \/ Ends("install", "failed") /\ UNCHANGED <<script, kept>>
  /\ UNCHANGED <<box, urls, nand, left>> /\ Counted

\* The end of the script as the app sees it; a stick that cannot be read is bypassed.  The end of the
\* app's patience ends the session, and the script with it.
FromStick == flow["install"].how = "stick"
ScriptEnds ==
  /\ flow["install"].at = "run"
  /\ \/ script.step = "ok" /\ SSH /\ GoesOn("install", "reboot")
     \/ script.step = "error" /\ FromStick /\ SSH /\ box.usb = "bad" /\ Copies("install", "bypass")
     \/ script.step = "error" /\ ~(FromStick /\ SSH /\ box.usb = "bad") /\ Ends("install", "failed")
     \/ ~SSH /\ Ends("install", "failed")
  /\ BoxSame /\ UNCHANGED <<left, kept>> /\ Counted
RunTimesOut ==
  /\ flow["install"].at = "run" /\ Ends("install", "timeout") /\ Dies /\ nand' \in Torn
  /\ UNCHANGED <<box, urls, left, kept>> /\ Counted

\* boxReboot does not hear whether it was heard.
Signals == box' \in {box, [box EXCEPT !.going = box.up]}
Reboot ==
  /\ flow["install"].at = "reboot" /\ Signals
  /\ IF flow["install"].how = "button" THEN Ends("install", "sent") ELSE GoesOn("install", "wait")
  /\ UNCHANGED <<urls, nand, script, left, kept>> /\ Counted

\* waitForAgent asks the agent, and over SSH for its process.
Sees ==
  /\ flow["install"].at = "wait" /\ InstalledProbe /\ Ends("install", "ok")
  /\ kept' = (IF box.agent = "new" THEN "all" ELSE "none") /\ BoxSame /\ UNCHANGED left /\ Counted

CopyFailed == nand.bin # "whole" /\ box.usb = "bad"
WaitOver ==
  /\ flow["install"].at = "wait" /\ ~InstalledProbe /\ ~box.going
  /\ \/ FromStick /\ flow["install"].tries = 0 /\ SSH /\ CopyFailed /\ Copies("install", "bypass") /\ UNCHANGED box
     \/ /\ FromStick /\ flow["install"].tries = 0 /\ SSH /\ ~CopyFailed /\ Signals
        /\ flow' = [flow EXCEPT !["install"].tries = 1]
     \/ ~(FromStick /\ flow["install"].tries = 0 /\ SSH) /\ Ends("install", "not up") /\ UNCHANGED box
  /\ UNCHANGED <<urls, nand, script, left, kept>> /\ Counted

-----------------------------------------------------------------------------
(***************************************************************************)
(* The removal.                                                            *)
(***************************************************************************)
PressRemove == Begin("remove", "shake", "none")

\* SSH; else the agent opens it; else the unlock.
Shake ==
  /\ flow["remove"].at = "shake"
  /\ \/ SSH /\ GoesOn("remove", "clear") /\ UNCHANGED box
     \/ ~SSH /\ Answers /\ GoesOn("remove", "clear") /\ box' = [box EXCEPT !.ssh = TRUE]
     \/ ~SSH /\ Shell /\ GoesOn("remove", "inject") /\ UNCHANGED box
     \/ ~SSH /\ ~Shell /\ Ends("remove", "closed") /\ UNCHANGED box
  /\ UNCHANGED <<urls, nand, script, left, kept>> /\ Counted

\* One script; it leaves everything when a stick is in.
Clear ==
  /\ flow["remove"].at = "clear"
  /\ \/ /\ SSH /\ box.usb = "none" /\ nand' = Clean /\ kept' = "none"
        /\ \E going \in BOOLEAN : box' = [box EXCEPT !.agent = "none", !.going = @ \/ going]
        /\ Ends("remove", IF nand = Clean THEN "nothing" ELSE "removed")
     \/ SSH /\ box.usb # "none" /\ Ends("remove", "stick") /\ UNCHANGED <<box, nand, kept>>
     \/ Ends("remove", "closed") /\ UNCHANGED <<box, nand, kept>>
  /\ UNCHANGED <<urls, script, left>> /\ Counted

-----------------------------------------------------------------------------
Trouble == troubles < MaxTroubles /\ troubles' = troubles + 1 /\ UNCHANGED installs
PowerCut ==
  /\ Trouble /\ box.up /\ box' = [box EXCEPT !.up = FALSE, !.going = FALSE, !.ssh = FALSE, !.agent = "none"]
  /\ nand' \in Torn /\ Dies /\ UNCHANGED <<urls, flow, left, kept>>
MovesUSB ==
  /\ Trouble /\ box' \in {[box EXCEPT !.usb = u] : u \in {"none", "good", "bad"} \ {box.usb}}
  /\ UNCHANGED <<urls, nand, script, flow, left, kept>>
AppCloses ==
  /\ Trouble /\ \E f \in Flows : ~AtRest(f)
  /\ flow' = [f \in Flows |-> IF AtRest(f) THEN flow[f] ELSE [Still EXCEPT !.verdict = "closed"]]
  /\ left' = (left \/ urls # StockURLs) /\ Dies /\ nand' \in Torn /\ UNCHANGED <<box, urls, kept>>

Unlocking(f) == Inject(f) \/ Switch(f) \/ Opens(f) \/ Reset(f) \/ Recover(f)
Installing == CheckFirst \/ Probe \/ StageFiles \/ ScriptEnds \/ RunTimesOut \/ Reboot \/ Sees \/ WaitOver
Removing == Shake \/ Clear
BoxMoves == GoesDown \/ Boots \/ Step
InstNext ==
  \/ BoxMoves \/ Installing \/ Removing \/ PressInstall \/ PressRepair \/ PressRemove
  \/ PowerCut \/ MovesUSB \/ AppCloses \/ \E f \in Flows : Unlocking(f)

-----------------------------------------------------------------------------
(***************************************************************************)
(* Properties.                                                             *)
(***************************************************************************)
InstTypeOK ==
  /\ nand \in [Files -> {"none", "part", "whole"}]
  /\ urls \in [{"sdk", "file", "switch"} -> {"stock", "injected"}]
  /\ script.step \in DOMAIN After \cup {"none", "ok", "error"}

\* "returns OK only once STR is actually running": after it the speaker has the whole of STR on
\* flash, to boot without a stick, until the next installation begins, STR is removed, or a stick
\* that cannot be read is in at a boot.
OkIsInstalled == kept # "none" => nand = Whole

\* And its firmware runs, and will boot, with the stock URLs that the redirect of STR can catch, until
\* another unlock injects its own.
OkBootsStock == kept = "all" /\ ~left => urls = StockURLs

\* "so the box is never left marge-checking a dead host": no end of either flow leaves the switch
\* injected, unless the restore itself failed.
Restored == (\A f \in Flows : AtRest(f)) /\ ~left => urls.switch = "stock"

\* A speaker reported as rid of STR has nothing of it, and starts nothing, until it is installed again.
RemovedIsClean == flow["remove"].verdict = "removed" => nand = Clean /\ box.agent = "none"

InstallInv == InstTypeOK /\ OkIsInstalled /\ OkBootsStock /\ Restored /\ RemovedIsClean

\* "restore stock cloud URLs on EVERY exit": the file the SDK boots from included (does not hold:
\* the reset need not reach it, and no failed unlock, and no removal, mends it).
FileRestored == (\A f \in Flows : AtRest(f)) /\ ~left => urls.file = "stock"
=============================================================================
