---------------------------- MODULE MCBleStream ----------------------------
(* A magic of one number; frames of one, two or three notifications, and   *)
(* one that is too long to be queued.                                      *)
EXTENDS BleStream

MCMagic == <<77>>
=============================================================================
