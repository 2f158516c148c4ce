------------------------------- MODULE AgentBoot -------------------------------
(***************************************************************************)
(* How the boot script brings the agent up and keeps it up                 *)
(* (usb-stick/run.sh), and the agent's own start and end                   *)
(* (cmd/agent/main.go): the binary is copied from an inserted stick and    *)
(* read back from the flash, run from there, from RAM or from the stick;   *)
(* a fast watchdog looks at the process and its port for two minutes, a    *)
(* slow one at the process for ever.  Both wait for the ports to clear     *)
(* between their look and a launch.  An agent applies the redirect of the  *)
(* hosts file once, and takes it away when it ends in order.               *)
(***************************************************************************)
EXTENDS Naturals, FiniteSets

CONSTANTS Agents,        \* the processes alive at once; a number is used again after its end
          Checks,        \* looks of the fast watchdog (24)
          GraceChecks,   \* looks within the 30 s in which an agent need not have its port (6)
          FastCap,       \* respawns of the fast watchdog (6)
          SelfhealMax,   \* SELFHEAL_MAX
          MaxAccidents   \* bound on crashes, hangs, reboots and sticks moved

ASSUME BootAssumption == /\ Agents # {} /\ Agents \subseteq Nat \ {0} /\ Checks \in Nat \ {0}
                         /\ GraceChecks \in Nat /\ FastCap \in Nat /\ SelfhealMax \in Nat /\ MaxAccidents \in Nat

VARIABLES
  flash,      \* disk: the agent on flash; seen: what a process reads of it, from the page cache
  stickIn,    \* a stick with a new agent is mounted
  bin,        \* BIN of this boot: "flash", "ram", "stick"; "none" before the script, "stopped" without any
  procs,      \* per process: "none", "starting", "hung", "serving", "redirected", "losing"
  pidFile,    \* agent.pid: a process of this boot, or 0
  hosts,      \* the redirect is in the hosts file
  fast,       \* the watchdog of phase A: where it is, its looks and respawns, a second round after a heal
  slow,       \* the watchdog of phase B
  heal,       \* tried: in this boot; count: on flash, over all of them
  unstable,   \* agent-unstable.txt
  late,       \* an agent was without its port after the grace, or both watchdogs respawned at once
  accidents

bootVars == <<flash, stickIn, bin, procs, pidFile, hosts, fast, slow, heal, unstable, late, accidents>>

Good == {"old", "new"}
Launchable(b) == CASE b = "flash" -> flash.seen [] b = "ram" -> "new" [] OTHER -> IF stickIn THEN "new" ELSE "none"
FastStart == [at |-> "watch", i |-> 0, restarts |-> 0, again |-> FALSE]

BootInit ==
  /\ flash \in [disk : {"old", "bad", "none"}, seen : {"old", "bad", "none"}] /\ flash.seen = flash.disk
  /\ stickIn \in BOOLEAN /\ bin = "none" /\ procs = [a \in Agents |-> "none"] /\ pidFile = 0
  /\ hosts = FALSE /\ fast = FastStart /\ slow = "watch" /\ heal = [tried |-> FALSE, count |-> 0]
  /\ unstable = FALSE /\ late = FALSE /\ accidents = 0

Alive(a) == procs[a] # "none"
HasPort(a) == procs[a] \in {"serving", "redirected"}
Bound == \E a \in Agents : HasPort(a)
FileAlive_ByName == pidFile # 0
FileAlive == pidFile \in Agents /\ Alive(pidFile)

-----------------------------------------------------------------------------
(***************************************************************************)
(* The script, up to the first launch.                                     *)
(***************************************************************************)
\* start_agent: the process that dies of its binary is gone at the next look.
Launches(b) ==
  \E a \in Agents : /\ procs[a] = "none" /\ \A x \in 1..(a - 1) : x \in Agents => procs[x] # "none"
                    /\ procs' = [procs EXCEPT ![a] = IF Launchable(b) \in Good THEN "starting" ELSE "none"]
                    /\ pidFile' = a

\* sync_stick_to_nand_always: no stick; copied and read back from the flash; in the page cache only,
\* as the flash shows; not copied, the file on flash stays.
Synced == IF ~stickIn THEN {[f |-> flash, corrupt |-> FALSE]}
          ELSE {[f |-> [disk |-> "new", seen |-> "new"], corrupt |-> FALSE],
                [f |-> [disk |-> "bad", seen |-> "bad"], corrupt |-> TRUE],
                [f |-> flash, corrupt |-> FALSE]}

\* NAND_BIN_CORRUPT and stage_ram_binary; then the cache on flash; then the stick itself.
BinChoices(f, corrupt) ==
  (IF corrupt THEN {"ram"} ELSE {}) \cup
  {IF f.disk # "none" THEN "flash" ELSE IF stickIn THEN "stick" ELSE "stopped"}

\* The boot: the sync, the choice, the agent in agent.pid stopped, the first launch.
BootScript ==
  /\ bin = "none"
  /\ \E s \in Synced : \E b \in BinChoices(s.f, s.corrupt) :
       /\ flash' = s.f /\ bin' = b
       /\ IF b = "stopped" THEN UNCHANGED <<procs, pidFile>>
          ELSE /\ pidFile' = CHOOSE a \in Agents : \A x \in Agents : a <= x
               /\ procs' = [procs EXCEPT ![pidFile'] = IF b # "flash" \/ s.f.seen \in Good THEN "starting" ELSE "none"]
  /\ UNCHANGED <<stickIn, hosts, fast, slow, heal, unstable, late, accidents>>

Up == bin \in {"flash", "ram", "stick"}

-----------------------------------------------------------------------------
(***************************************************************************)
(* The agent.                                                              *)
(***************************************************************************)
AgentOnly == UNCHANGED <<flash, stickIn, bin, pidFile, fast, slow, heal, unstable, late>>

\* The marked block of the hosts file; it is one, whoever wrote it.
Apply == hosts' = TRUE
Restore == hosts' = FALSE

\* It listens, unless another process has the port: then it shuts itself down.
Binds(a) ==
  /\ procs[a] = "starting"
  /\ procs' = [procs EXCEPT ![a] = IF Bound THEN "losing" ELSE "serving"]
  /\ UNCHANGED <<hosts, accidents>> /\ AgentOnly

\* The deferred redirect, once, when the endpoint accepts or after 30 s without.
AppliesHosts(a) ==
  /\ procs[a] = "serving" /\ procs' = [procs EXCEPT ![a] = "redirected"] /\ Apply
  /\ UNCHANGED accidents /\ AgentOnly

\* After the subsystem error: the goroutines have ended, and hostsMgr.Restore takes the block away.
Ends(a) ==
  /\ procs[a] = "losing" /\ procs' = [procs EXCEPT ![a] = "none"] /\ Restore
  /\ UNCHANGED accidents /\ AgentOnly

\* A panic, the OOM killer; or a start that never comes to its listener.
Accident == accidents < MaxAccidents /\ accidents' = accidents + 1
Crashes(a) ==
  /\ Alive(a) /\ Accident /\ procs' = [procs EXCEPT ![a] = "none"] /\ UNCHANGED hosts /\ AgentOnly
Hangs(a) ==
  /\ procs[a] = "starting" /\ Accident /\ procs' = [procs EXCEPT ![a] = "hung"] /\ UNCHANGED hosts /\ AgentOnly

-----------------------------------------------------------------------------
(***************************************************************************)
(* The watchdogs.                                                          *)
(***************************************************************************)
\* What a look of phase A is content with.
Fine(i) == FileAlive /\ (Bound \/ i < GraceChecks)

FastSkips ==
  /\ Up /\ fast.at = "watch" /\ fast.i < Checks /\ Fine(fast.i + 1)
  /\ fast' = [fast EXCEPT !.i = @ + 1]
  /\ UNCHANGED <<flash, stickIn, bin, procs, pidFile, hosts, slow, heal, unstable, late, accidents>>

FastFinds ==
  /\ Up /\ fast.at = "watch" /\ fast.i < Checks /\ ~Fine(fast.i + 1) /\ fast.restarts < FastCap
  /\ fast' = [fast EXCEPT !.i = @ + 1, !.restarts = @ + 1, !.at = "drain"]
  /\ late' = (late \/ (FileAlive /\ fast.i + 1 >= GraceChecks) \/ slow = "drain")
  /\ UNCHANGED <<flash, stickIn, bin, procs, pidFile, hosts, slow, heal, unstable, accidents>>

\* wait_ports_clear, ten seconds at most, and start_agent.
FastLaunches ==
  /\ fast.at = "drain" /\ Launches(bin)
  /\ fast' = [fast EXCEPT !.at = "watch"]
  /\ UNCHANGED <<flash, stickIn, bin, hosts, slow, heal, unstable, late, accidents>>

\* redeploy_agent_from_stick: once per boot and SelfhealMax times in all, from a stick whose agent
\* is another than the one on flash; what it reads back comes from the page cache.
Healable == ~heal.tried /\ heal.count < SelfhealMax /\ stickIn /\ flash.seen # "new"
FastHeals ==
  /\ Up /\ fast.at = "watch" /\ fast.i < Checks /\ ~Fine(fast.i + 1) /\ fast.restarts >= FastCap
  /\ Healable /\ heal' = [tried |-> TRUE, count |-> heal.count + 1]
  /\ flash' \in {[disk |-> "new", seen |-> "new"], [disk |-> "bad", seen |-> "new"]}
  /\ fast' = [FastStart EXCEPT !.again = TRUE]
  /\ UNCHANGED <<stickIn, bin, procs, pidFile, hosts, slow, unstable, late, accidents>>

\* The cap without a heal: the marker, and the end of phase A.
FastGivesUp ==
  /\ Up /\ fast.at = "watch" /\ fast.i < Checks /\ ~Fine(fast.i + 1) /\ fast.restarts >= FastCap
  /\ heal' = [heal EXCEPT !.tried = TRUE] /\ unstable' = TRUE /\ fast' = [fast EXCEPT !.at = "over"]
  /\ UNCHANGED <<flash, stickIn, bin, procs, pidFile, hosts, slow, late, accidents>>
FastOver ==
  /\ Up /\ fast.at = "watch" /\ fast.i = Checks /\ fast' = [fast EXCEPT !.at = "over"]
  /\ UNCHANGED <<flash, stickIn, bin, procs, pidFile, hosts, slow, heal, unstable, late, accidents>>

\* Phase B looks first 230 s after the launch: phase A is over by then, unless it healed.
SlowMayLook == fast.at = "over" \/ fast.again
SlowFinds ==
  /\ Up /\ SlowMayLook /\ slow = "watch" /\ ~FileAlive /\ slow' = "drain"
  /\ late' = (late \/ fast.at = "drain")
  /\ UNCHANGED <<flash, stickIn, bin, procs, pidFile, hosts, fast, heal, unstable, accidents>>
SlowLaunches ==
  /\ slow = "drain" /\ Launches(bin) /\ slow' = "watch"
  /\ UNCHANGED <<flash, stickIn, bin, hosts, fast, heal, unstable, late, accidents>>

-----------------------------------------------------------------------------
\* The hosts file is a copy in RAM; agent.pid is on flash, and names no process of the new boot.
Reboots ==
  /\ Accident /\ bin # "none" /\ bin' = "none" /\ procs' = [a \in Agents |-> "none"] /\ hosts' = FALSE
  /\ pidFile' = 0 /\ flash' = [flash EXCEPT !.seen = flash.disk]
  /\ fast' = FastStart /\ slow' = "watch" /\ heal' = [heal EXCEPT !.tried = FALSE] /\ late' = FALSE
  /\ UNCHANGED <<stickIn, unstable>>
MovesStick ==
  /\ Accident /\ stickIn' = ~stickIn
  /\ UNCHANGED <<flash, bin, procs, pidFile, hosts, fast, slow, heal, unstable, late>>

Watching == FastSkips \/ FastFinds \/ FastLaunches \/ FastHeals \/ FastGivesUp \/ FastOver
SlowWatching == SlowFinds \/ SlowLaunches
AgentRuns(a) == Binds(a) \/ AppliesHosts(a) \/ Ends(a)

BootNext ==
  \/ BootScript \/ Reboots \/ MovesStick \/ Watching \/ SlowWatching
  \/ \E a \in Agents : AgentRuns(a) \/ Crashes(a) \/ Hangs(a)

BootFairness ==
  /\ WF_bootVars(BootScript) /\ WF_bootVars(Watching) /\ WF_bootVars(SlowWatching)
  /\ \A a \in Agents : WF_bootVars(AgentRuns(a))
BootSpec == BootInit /\ [][BootNext]_bootVars /\ BootFairness

-----------------------------------------------------------------------------
(***************************************************************************)
(* Properties.                                                             *)
(***************************************************************************)
BootTypeOK ==
  /\ procs \in [Agents -> {"none", "starting", "hung", "serving", "redirected", "losing"}]
  /\ pidFile \in Agents \cup {0}
  /\ fast.i \in 0..Checks /\ fast.restarts \in 0..FastCap /\ heal.count \in 0..SelfhealMax

\* "so the two loops do not both reach start_agent at exactly the same instant (which would
\* double-launch and fail the second bind)": one agent at a time, unless one was without its port
\* when it should have had it.
OneAgent == ~late => Cardinality({a \in Agents : Alive(a)}) <= 1

\* Then the redirect of the agent that has applied it stands: nobody takes it away from it.
RedirectHeld == ~late => \A a \in Agents : procs[a] = "redirected" => hosts

BootInv == BootTypeOK /\ OneAgent /\ RedirectHeld

\* An agent serves again and again, whatever crashes and hangs: unless the binary of this boot is
\* none that runs, or the agent hangs when nobody looks at its port any more.
Launchless == ~Up \/ Launchable(bin) \notin Good
Unnoticed == fast.at = "over" /\ pidFile \in Agents /\ procs[pidFile] = "hung"
AgentServes == []<>(Bound \/ Launchless \/ Unnoticed)
=============================================================================
