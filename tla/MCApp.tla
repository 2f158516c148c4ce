--------------------------------- MODULE MCApp ---------------------------------
(***************************************************************************)
(* The desktop app, on small instances that TLC explores in one run; they  *)
(* share nothing, and `part' says which one a behaviour belongs to: the    *)
(* updates of speakers (FleetUpdate), the list of speakers (Discovery), or  *)
(* an installation and a removal of STR (Installer).  The variables of the *)
(* other parts stay as they are initially.                                 *)
(***************************************************************************)
EXTENDS FleetUpdate, Discovery, Installer

VARIABLE part

AppInit ==
  /\ FleetInit /\ DiscInit /\ InstInit /\ part \in {"updates", "list", "install"}
  /\ part # "updates" => speaker.run = "old" /\ speaker.engine = "none" /\ speaker.room = "wide" /\ speaker.capable /\ ~speaker.unsure
  /\ \A d \in Devices : (\A h \in Hosts : h < net[d].at => At(h) # {}) /\ (part # "list" => net[d].sw = "str")
  /\ box.tap /\ ~box.acct
  /\ part # "install" => box.usb = "none" /\ box.agent = "none" /\ box.http

AppNext ==
  /\ UNCHANGED part
  /\ \/ part = "updates" /\ FleetNext /\ UNCHANGED <<discVars, instVars>>
     \/ part = "list" /\ DiscNext /\ UNCHANGED <<fleetVars, instVars>>
     \/ part = "install" /\ InstNext /\ UNCHANGED <<fleetVars, discVars>>

\* A flow of an update that has been started runs on.
AppSpec ==
  /\ AppInit /\ [][AppNext]_<<part, fleetVars, discVars, instVars>>
  /\ \A p \in Presses : WF_fleetVars(Flow(p))

\* The invariants of the three: an update that has been begun is on record until it is seen done, and has
\* one writer; a speaker that has been rid of STR is not remembered as one that has it; and an installation
\* or a removal that ended well, or gave up, leaves the speaker's files and cloud URLs as they should be.
AppInv == FleetInv /\ Forgotten /\ InstallInv
=============================================================================
