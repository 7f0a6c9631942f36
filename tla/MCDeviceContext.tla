--------------------------- MODULE MCDeviceContext ---------------------------
(* DeviceContext for TLC.                                                   *)
EXTENDS DeviceContext

==============================================================================
