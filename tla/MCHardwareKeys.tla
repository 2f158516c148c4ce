---------------------------- MODULE MCHardwareKeys ----------------------------
(***************************************************************************)
(* The hardware keys, on small instances that TLC explores in one run;     *)
(* they share nothing, and `part' says which one a behaviour belongs to:   *)
(* the recall of a pressed key against the plays of the app                *)
(* (HardwareRecall), or the healing of keys the firmware has forgotten     *)
(* (KeyResync).  The variables of the other part stay as they are          *)
(* initially.                                                              *)
(***************************************************************************)
EXTENDS HardwareRecall, KeyResync, TLC

VARIABLE part

recallVars == vars

KeysInit ==
  /\ Init /\ ResyncInit /\ part \in {"recall", "healing"}
  /\ part # "recall" => power = "on"
  /\ part # "healing" => source = "STANDBY" /\ listed = {}

KeysNext ==
  /\ UNCHANGED part
  /\ \/ part = "recall" /\ Next /\ UNCHANGED resyncVars
     \/ part = "healing" /\ ResyncNext /\ UNCHANGED recallVars

KeysSpec == KeysInit /\ [][KeysNext]_<<part, recallVars, resyncVars>>

\* What must happen in the end is checked of one part at a time, under the fairness of that part.
RecallInit == KeysInit /\ part = "recall"
HealingInit == KeysInit /\ part = "healing"
FairRecallSpec == RecallInit /\ [][KeysNext]_<<part, recallVars, resyncVars>> /\ Fairness
FairHealingSpec == HealingInit /\ [][KeysNext]_<<part, recallVars, resyncVars>> /\ ResyncFairness

\* Askers are interchangeable: what is checked here is safety.
AskerSymmetry == Permutations(Asker)

=============================================================================
