----------------------- MODULE MCChatResponseStream -----------------------
(* Instances of ChatResponseStream for TLC.                               *)
EXTENDS ChatResponseStream

CONSTANTS c1, c2, e1, e2
=============================================================================
