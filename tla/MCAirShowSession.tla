--------------------------- MODULE MCAirShowSession ---------------------------
(* Instances of AirShowSession for TLC.                                    *)
EXTENDS AirShowSession
CONSTANTS c1, c2
=============================================================================
