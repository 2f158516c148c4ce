---------------------------- MODULE MCGroupZones ----------------------------
(* GroupZones on a small instance. *)
EXTENDS GroupZones
=============================================================================
