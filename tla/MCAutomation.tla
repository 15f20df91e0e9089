---------------------------- MODULE MCAutomation ----------------------------
(* Instances of Automation for TLC.                                        *)
EXTENDS Automation, TLC

CONSTANTS c1, c2, r1, r2

CallSymmetry == Permutations(Calls)
=============================================================================
