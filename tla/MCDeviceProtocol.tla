-------------------------- MODULE MCDeviceProtocol --------------------------
(* DeviceProtocol with two workers; a unit of time is a minute, so that the   *)
(* limits of 120 and 300 seconds are 2 and 5.                                 *)
EXTENDS DeviceProtocol
=============================================================================
