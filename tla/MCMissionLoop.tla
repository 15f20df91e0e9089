---------------------------- MODULE MCMissionLoop ----------------------------
(* Instances of MissionLoop for TLC.                                       *)
EXTENDS MissionLoop
=============================================================================
