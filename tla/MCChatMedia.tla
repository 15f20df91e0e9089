---------------------------- MODULE MCChatMedia ----------------------------
(* Instances of ChatMedia for TLC.                                         *)
EXTENDS ChatMedia
=============================================================================
