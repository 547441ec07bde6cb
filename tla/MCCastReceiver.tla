--------------------------- MODULE MCCastReceiver ---------------------------
(* Instances of CastReceiver for TLC.                                      *)
EXTENDS CastReceiver
=============================================================================
