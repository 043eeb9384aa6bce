---------------------------- MODULE MCPhoneLink ----------------------------
(* PhoneLink for TLC: two Macs, one call, two user commands, two failures.   *)
EXTENDS PhoneLink
=============================================================================
