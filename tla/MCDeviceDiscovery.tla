------------------------- MODULE MCDeviceDiscovery -------------------------
(***************************************************************************)
(* Four callers of an account with two heat pumps.                         *)
(***************************************************************************)
EXTENDS DeviceDiscovery, TLC

CONSTANTS t1, t2, t3, t4, pump1, pump2

Pumps == <<pump1, pump2>>
=============================================================================
