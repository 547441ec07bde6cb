--------------------------- MODULE MCSenderSession ---------------------------
(* Instances of SenderSession for TLC: the bounds are in the cfg files.    *)
EXTENDS SenderSession
\* Activity.RESULT_OK on Android.
AndroidResultOk == -1
=============================================================================
