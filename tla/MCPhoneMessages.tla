--------------------------- MODULE MCPhoneMessages ---------------------------
(* Instances of PhoneMessages for TLC.                                     *)
EXTENDS PhoneMessages

CONSTANTS sms, yes, no, none
=============================================================================
