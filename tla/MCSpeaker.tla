------------------------------ MODULE MCSpeaker ------------------------------
(***************************************************************************)
(* What keeps a speaker in order, on small instances that TLC explores in  *)
(* one run; they share nothing, and `part' says which one a behaviour      *)
(* belongs to: the updates of the agent's binaries (AgentUpdate), the      *)
(* presets behind the keys (KeySlots), the speaker's events (BoxEvents),   *)
(* its boots and the watchdogs of the agent (AgentBoot).                   *)
(* The variables of the other parts stay as they are initially.            *)
(***************************************************************************)
EXTENDS AgentUpdate, KeySlots, BoxEvents, AgentBoot

VARIABLE part

SpeakerInit ==
  /\ UpdateInit /\ KeyInit /\ BoxInit /\ BootInit /\ part \in {"update", "keys", "events", "boot"}
  /\ part # "update" => stick = "none"
  /\ part # "keys" => store = NoSpecs /\ keys = NoSpecs
  /\ part # "events" => source = "UPNP"
  /\ part # "boot" => flash.disk = "old" /\ ~stickIn

In(p, A) == part = p /\ A /\ UNCHANGED part
SpeakerNext ==
  \/ In("update", UpdateNext) /\ UNCHANGED <<keyVars, boxVars, bootVars>>
  \/ In("keys", KeyNext) /\ UNCHANGED <<updateVars, boxVars, bootVars>>
  \/ In("events", BoxNext) /\ UNCHANGED <<updateVars, keyVars, bootVars>>
  \/ In("boot", BootNext) /\ UNCHANGED <<updateVars, keyVars, boxVars>>

\* A swap helper that has been started runs on, and so do the goroutines at the keys, the boot
\* script, its watchdogs and the agents.
SpeakerSpec ==
  /\ SpeakerInit /\ [][SpeakerNext]_<<part, updateVars, keyVars, boxVars, bootVars>>
  /\ \A p \in AgentPushes : WF_updateVars(Helping(p))
  /\ WF_keyVars(In("keys", Sweeping)) /\ WF_keyVars(In("keys", Editing))
  /\ WF_keyVars(In("keys", Pairing)) /\ WF_keyVars(In("keys", Seeding))
  /\ WF_bootVars(In("boot", BootScript)) /\ WF_bootVars(In("boot", Watching)) /\ WF_bootVars(In("boot", SlowWatching))
  /\ \A a \in Agents : WF_bootVars(In("boot", AgentRuns(a)))

\* The invariants of the four: no partial binary is live and the hash beside the engine is its own;
\* presets that were lost come back from the keys; no tear-down is taken for a stop of the user, and
\* a thumb is a lone key; and there is one agent at a time.
SpeakerInv == UpdateInv /\ KeySlotsInv /\ BoxInv /\ BootInv

\* What has been started comes to rest: a swap of the binary ends with the agent back or the speaker
\* down, the keys hold what the store has, and an agent serves after whatever happened to the last.
SpeakerSettles == SwapEnds /\ KeysSettle /\ AgentServes
=============================================================================
