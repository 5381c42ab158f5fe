---------------------------- MODULE MCWebSession ----------------------------
(* Instance of WebSession for TLC. *)
EXTENDS WebSession
=============================================================================
