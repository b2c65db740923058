---------------------------- MODULE MCUsbStream ----------------------------
(* A magic of one number; payloads of one and two numbers and one that is  *)
(* longer than the reader takes.                                           *)
EXTENDS UsbStream

MCMagic == <<77>>
=============================================================================
