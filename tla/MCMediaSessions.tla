-------------------------- MODULE MCMediaSessions --------------------------
(* A small instance of MediaSessions for TLC: two sessions of one device.  *)
EXTENDS MediaSessions
=============================================================================
