--------------------------- MODULE MCCastSessions ---------------------------
(* Instances of CastSessions for TLC.                                      *)
EXTENDS CastSessions
CONSTANTS s1, s2
=============================================================================
