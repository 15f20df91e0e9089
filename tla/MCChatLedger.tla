---------------------------- MODULE MCChatLedger ----------------------------
(* Instances of ChatLedger for TLC.  The calls are interchangeable, and so  *)
(* are the events when none of them is in the old format.                  *)
EXTENDS ChatLedgerInv, TLC

CONSTANTS c1, c2, c3, e1, e2, m1

CallSymmetry == Permutations(Calls)
=============================================================================
