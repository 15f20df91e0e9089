---------------------------- MODULE MCWorkRuntime ----------------------------
(* Instances of WorkRuntime for TLC.  The works are interchangeable.       *)
EXTENDS WorkRuntime, TLC

CONSTANTS w1, w2, w3, s1, s2, quit, owner, sms

WorkSymmetry == Permutations(Works)
=============================================================================
