--------------------------- MODULE MCChatSessions ---------------------------
(* Instances of ChatSessions for TLC.                                      *)
EXTENDS ChatSessions, TLC

CONSTANTS d1, d2, d3, s1, s2

\* Devices and sockets are interchangeable.
Symmetry == Permutations(Devices) \cup Permutations(Sockets)
=============================================================================
