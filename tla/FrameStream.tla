---------------------------- MODULE FrameStream ----------------------------
(***************************************************************************)
(* What a stream of CastStreamingReceiver promises its decoder, without    *)
(* packets, frame IDs modulo 256, windows or reports: frames come out in   *)
(* the order they were sent, each once, whole and with its own content; a  *)
(* hole is only jumped to a key frame, if the stream is video; and the     *)
(* picture is never more than a window behind what is sent.                *)
(* CastReceiver implements this specification.                             *)
(***************************************************************************)
EXTENDS Integers

CONSTANTS Video, Packet, Window

VARIABLES
  sent,       \* frames sent
  shown,      \* the newest frame handed to the decoder, or -1
  keysAhead,  \* key frames sent that it has not passed
  batch       \* what the latest step handed over: packets of frames

streamVars == <<sent, shown, keysAhead, batch>>

Init == sent = 0 /\ shown = -1 /\ keysAhead = {} /\ batch = {}

\* The first frame is a key frame; a sender that is a window ahead waits.
Send(key) ==
  /\ sent <= shown + Window
  /\ sent = 0 => key
  /\ sent' = sent + 1
  /\ keysAhead' = IF key THEN keysAhead \union {sent} ELSE keysAhead
  /\ batch' = {}
  /\ UNCHANGED shown

HandOver(from, to) ==
  /\ shown < from /\ from <= to /\ to < sent
  /\ Video /\ from > shown + 1 => from \in keysAhead
  /\ batch' = (from .. to) \X Packet
  /\ shown' = to
  /\ keysAhead' = {f \in keysAhead : f > to}
  /\ UNCHANGED sent

Wait == batch' = {} /\ UNCHANGED <<sent, shown, keysAhead>>

Next ==
  \/ \E key \in BOOLEAN : Send(key)
  \/ \E from, to \in 0 .. sent : HandOver(from, to)
  \/ Wait

Spec == Init /\ [][Next]_streamVars
=============================================================================
