------------------------- MODULE MCSecurityMonitor -------------------------
(* Instance of SecurityMonitor for TLC. *)
EXTENDS SecurityMonitor
=============================================================================
