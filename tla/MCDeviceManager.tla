--------------------------- MODULE MCDeviceManager ---------------------------
(* Two devices of every kind. *)
EXTENDS DeviceManager
CONSTANTS event0, event1
=============================================================================
