----------------------------- MODULE MCChatRelay -----------------------------
(* Instances of ChatRelay for TLC.                                         *)
EXTENDS ChatRelay

CONSTANTS q1, q2, h1, h2, none
=============================================================================
