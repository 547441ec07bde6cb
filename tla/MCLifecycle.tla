----------------------------- MODULE MCLifecycle -----------------------------
(* Instances of Lifecycle for TLC.                                         *)
EXTENDS Lifecycle, TLC
CONSTANTS c1, c2, w1
MCHandlers == <<"DLNA", "AirPlay", "Cast">>
MCCodecOf == c1 :> "alac" @@ c2 :> "aac"
=============================================================================
