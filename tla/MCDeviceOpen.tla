---------------------------- MODULE MCDeviceOpen ----------------------------
(* DeviceOpen for TLC.                                                     *)
EXTENDS DeviceOpen
==============================================================================
