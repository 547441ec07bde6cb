---------------------------- MODULE CastReceiver ----------------------------
(***************************************************************************)
(* One stream of CastStreamingReceiver: 8-bit frame IDs, reassembly in a   *)
(* bounded window, in-order delivery, skipping of lost frames, and the     *)
(* RTCP feedback, together with the sender (openscreen, external) and a    *)
(* UDP network that loses, duplicates and reorders.                        *)
(*                                                                         *)
(* A chunk carries the frame it was really sent for (origin) beside the    *)
(* frame ID the receiver filed it under (id): on the wire there are only   *)
(* the low bits, and the two must agree.                                   *)
(*                                                                         *)
(* RTCP travels through a register holding the newest report: it may be    *)
(* read late, several times or never, but not out of order.  Frames have   *)
(* the same number of packets, so "inconsistent with earlier packets" never *)
(* applies, and few enough (at most 9) for one loss entry per frame.       *)
(***************************************************************************)
EXTENDS Integers, FiniteSets

CONSTANTS
  Video,        \* CastStream::Kind::Video (TRUE) or Audio (FALSE)
  Modulus,      \* 256: frame IDs on the wire are uint8_t
  MaxAhead,     \* kMaxFramesAhead, 120, also openscreen's kMaxUnackedFrames
  AckBits,      \* 16: bits in the ACK vector
  MaxLosses,    \* 255: entries in a feedback packet
  Packets,      \* packets per frame
  Lifetime,     \* a packet is gone once this many newer frames were sent
  MaxFrame      \* bound: the sender stops after this frame

ASSUME ReceiverAssumption ==
  /\ Video \in BOOLEAN
  /\ Modulus \in Nat /\ MaxAhead \in Nat /\ AckBits \in Nat /\ MaxLosses \in Nat
  /\ Packets \in Nat /\ Lifetime \in Nat /\ MaxFrame \in Nat
  /\ Modulus % 2 = 0
  /\ Packets > 0 /\ MaxLosses > 0
  /\ MaxAhead < Lifetime
  /\ 2 * Lifetime <= Modulus

Packet == 0 .. Packets - 1
Frame  == 0 .. MaxFrame
Last   == Packets - 1

VARIABLES
  next, acked,       \* the sender: next frame to send, newest checkpoint seen
  held, keys,        \* the sender: frames kept for retransmission, key frames
  wantKey,           \* the sender: a PLI arrived, the next frame will be a key
  net,               \* RTP packets in flight
  feedback,          \* newest RTCP report in flight
  senderKnown,       \* m_senderPort # 0
  highestFrameId, checkpoint, pliPending,
  chunks,            \* StreamState::frames, as its chunks
  stalled,           \* stalledSince is set
  last,              \* history: newest frame handed to the callback
  out                \* what the latest step handed to the callback

sender   == <<next, acked, held, keys, wantKey>>
receiver == <<senderKnown, highestFrameId, checkpoint, pliPending, chunks, stalled>>
vars == <<next, acked, held, keys, wantKey, net, feedback, senderKnown,
          highestFrameId, checkpoint, pliPending, chunks, stalled, last, out>>

Rtp   == [frame : Frame, packet : Packet, key : BOOLEAN]
Chunk == [id : Frame, packet : Packet, origin : Frame, key : BOOLEAN]
NoReport == [checkpoint |-> 0, acks |-> {}, losses |-> {}, pli |-> FALSE, sent |-> FALSE]

TypeOK ==
  /\ next \in 0 .. MaxFrame + 1 /\ acked \in -1 .. MaxFrame
  /\ held \subseteq Frame /\ keys \subseteq Frame
  /\ wantKey \in BOOLEAN
  /\ net \subseteq Rtp
  /\ feedback \in [checkpoint : 0 .. Modulus - 1, acks : SUBSET (0 .. AckBits - 1),
                   losses : SUBSET ((0 .. Modulus - 1) \X Packet), pli : BOOLEAN,
                   sent : BOOLEAN]
  /\ senderKnown \in BOOLEAN
  /\ highestFrameId \in Frame /\ checkpoint \in -1 .. MaxFrame
  /\ pliPending \in BOOLEAN /\ stalled \in BOOLEAN
  /\ chunks \subseteq Chunk
  /\ last \in -1 .. MaxFrame
  /\ out \subseteq Chunk

Init ==
  /\ next = 0 /\ acked = -1 /\ held = {} /\ keys = {} /\ wantKey = FALSE
  /\ net = {} /\ feedback = NoReport /\ senderKnown = FALSE
  /\ highestFrameId = 0 /\ checkpoint = -1 /\ pliPending = FALSE
  /\ chunks = {} /\ stalled = FALSE
  /\ last = -1 /\ out = {}

-----------------------------------------------------------------------------
(* Pure parts.                                                             *)

\* Mutant: the correction for results past the window is missing.
ExpandOneSided(reference, truncated) ==
  LET max == reference + Modulus \div 2 - 1 IN (max - (max % Modulus)) + truncated

\* expandFrameId(): the value nearest reference with these low bits.
Expand(reference, truncated) ==
  LET max    == reference + Modulus \div 2 - 1
      result == (max - (max % Modulus)) + truncated
  IN  IF result > max THEN result - Modulus ELSE result

Of(ch, f) == {c \in ch : c.id = f}

\* Mutant: received >= maxPacketId.
CompleteShort(ch, f) == Of(ch, f) # {} /\ Cardinality(Of(ch, f)) >= Last

\* PendingFrame::complete()
Complete(ch, f) == \A p \in Packet : \E c \in Of(ch, f) : c.packet = p

\* PendingFrame::keyFrame, the flag of packet 0.
IsKey(ch, f) == \E c \in Of(ch, f) : c.packet = 0 /\ c.key

MissingFrom(ch, f) == {p \in Packet : \A c \in Of(ch, f) : c.packet # p}

\* Losses of a report: frames in (checkpoint, highest) lacking packets, the
\* first MaxLosses of them.
LossesOver(ch, first, highest) ==
  LET missing == {f \in first .. highest - 1 : ~Complete(ch, f)}
      listed  == {f \in missing : Cardinality({g \in missing : g < f}) < MaxLosses}
  IN  UNION {{<<f % Modulus, p>> : p \in MissingFrom(ch, f)} : f \in listed}

\* Mutant: the loop starts one frame late.
LossesLate(ch, cp, highest) == LossesOver(ch, cp + 2, highest)

Losses(ch, cp, highest) == LossesOver(ch, cp + 1, highest)

\* Mutant: complete() is not asked, a frame with one packet is acknowledged.
AcksPartial(ch, cp) == {b \in 0 .. AckBits - 1 : \E c \in ch : c.id = cp + 2 + b}

\* Bit b acknowledges frame checkpoint + 2 + b.
Acks(ch, cp) ==
  {b \in 0 .. AckBits - 1 : \E c \in ch : c.id = cp + 2 + b /\ Complete(ch, c.id)}

\* sendRtcp(), the feedback packet and the PLI.
Report(ch, cp, highest, pli) ==
  [checkpoint |-> cp % Modulus, acks |-> Acks(ch, cp),
   losses |-> Losses(ch, cp, highest), pli |-> pli, sent |-> TRUE]

SendRtcp ==
  feedback' = IF senderKnown'
              THEN Report(chunks', checkpoint', highestFrameId', pliPending')
              ELSE feedback

-----------------------------------------------------------------------------
(* The sender and the network (external: openscreen's sender over UDP).    *)

SendFrame(key) ==
  /\ next <= MaxFrame
  /\ next <= acked + MaxAhead
  /\ wantKey \/ next = 0 => key
  /\ next' = next + 1
  /\ held' = held \union {next}
  /\ keys' = IF key THEN keys \union {next} ELSE keys
  /\ wantKey' = (wantKey /\ ~key)
  /\ net' = {p \in net : p.frame > next - Lifetime}
              \union [frame : {next}, packet : Packet, key : {key}]
  /\ out' = {}
  /\ UNCHANGED <<acked, feedback, receiver, last>>

\* The sender reads the newest report: checkpoint at most the newest frame
\* sent, NACKed frames just above it.
ReceiveReport ==
  LET newest == next - 1
      cp     == newest - ((newest - feedback.checkpoint) % Modulus)
      gone   == {f \in held : f <= cp \/ \E b \in feedback.acks : f = cp + 2 + b}
      again  == {f \in held \ gone : f < cp + Modulus}
  IN /\ feedback.sent
     /\ acked' = IF cp > acked THEN cp ELSE acked
     /\ held' = held \ gone
     /\ keys' = keys \ gone
     /\ wantKey' = (wantKey \/ feedback.pli)
     /\ net' = net \union {p \in Rtp : /\ p.frame \in again
                                       /\ <<p.frame % Modulus, p.packet>> \in feedback.losses
                                       /\ p.key = (p.frame \in keys)}
     /\ out' = {}
     /\ UNCHANGED <<next, feedback, receiver, last>>

\* A sender that hears nothing retransmits the last packet of its newest frame.
Kickstart ==
  /\ next - 1 \in held
  /\ net' = net \union {[frame |-> next - 1, packet |-> Last, key |-> next - 1 \in keys]}
  /\ out' = {}
  /\ UNCHANGED <<sender, feedback, receiver, last>>

Lose(p) ==
  /\ p \in net
  /\ net' = net \ {p}
  /\ out' = {}
  /\ UNCHANGED <<sender, feedback, receiver, last>>

-----------------------------------------------------------------------------
(* Delivery.                                                               *)

\* Frames from .. to of ch are handed to the callback and forgotten.
HandOver(ch, from, to) ==
  /\ out' = {c \in ch : c.id \in from .. to}
  /\ chunks' = {c \in ch : c.id > to}
  /\ checkpoint' = to
  /\ last' = to
  /\ pliPending' = (pliPending /\ \A f \in from .. to : ~IsKey(ch, f))
  /\ stalled' = FALSE

\* deliverReadyFrames(): from is complete; go on while the next one is.
Deliver(ch, from) ==
  \E to \in from .. highestFrameId' :
    /\ \A f \in from .. to : Complete(ch, f)
    /\ ~Complete(ch, to + 1)
    /\ HandOver(ch, from, to)

Keep(ch) ==
  /\ chunks' = ch
  /\ out' = {}
  /\ UNCHANGED <<checkpoint, last, pliPending, stalled>>

-----------------------------------------------------------------------------
(* Events of the receiver.                                                 *)

\* Mutant: "frameId < s.checkpoint", a late duplicate of the checkpoint frame
\* opens it again.
AcceptableAgain(id) == id >= checkpoint /\ id <= checkpoint + MaxAhead

\* Frames already passed, and frames too far ahead, are dropped.
Acceptable(id) == id > checkpoint /\ id <= checkpoint + MaxAhead

\* handleRtp() for a packet of this stream; keep: the network holds a duplicate.
HandleRtp(p, keep) ==
  LET id  == Expand(highestFrameId, p.frame % Modulus)
      new == [id |-> id, packet |-> p.packet, origin |-> p.frame, key |-> p.key]
      dup == \E c \in Of(chunks, id) : c.packet = p.packet
      ch  == IF dup THEN chunks ELSE chunks \union {new}
  IN /\ p \in net
     /\ net' = IF keep THEN net ELSE net \ {p}
     /\ senderKnown' = TRUE
     /\ IF Acceptable(id)
        THEN /\ highestFrameId' = IF id > highestFrameId THEN id ELSE highestFrameId
             /\ IF ~dup /\ Complete(ch, id) /\ id = checkpoint + 1
                THEN Deliver(ch, id) /\ SendRtcp
                ELSE Keep(ch) /\ UNCHANGED feedback
        ELSE Keep(chunks) /\ UNCHANGED <<highestFrameId, feedback>>
     /\ UNCHANGED sender

\* handleRtcp(): a Sender Report is answered at once.
HandleSenderReport ==
  /\ senderKnown' = TRUE
  /\ UNCHANGED <<sender, net, highestFrameId>>
  /\ Keep(chunks)
  /\ SendRtcp

Blocked == ~Complete(chunks, checkpoint + 1) /\ highestFrameId > checkpoint + 1

\* Mutant: video resumes at any complete frame.
ResumableAny(f) == Complete(chunks, f)

\* Where skipStalledFrames() may jump to.
Resumable(f) == Complete(chunks, f) /\ (Video => IsKey(chunks, f))

Skip(f) ==
  /\ Resumable(f)
  /\ \A g \in checkpoint + 1 .. f - 1 : ~Resumable(g)
  /\ Deliver({c \in chunks : c.id >= f}, f)
  /\ SendRtcp

\* nextRtcp is due or not.
Periodic(due) == IF due THEN SendRtcp ELSE UNCHANGED feedback

\* onTick(): skipStalledFrames(), then the periodic report.  limit says that the
\* stall has lasted max(targetDelayMs, 250) ms.
OnTick(limit, due) ==
  /\ UNCHANGED <<sender, net, senderKnown, highestFrameId>>
  /\ \/ /\ ~Blocked \/ ~stalled
        /\ stalled' = Blocked
        /\ out' = {}
        /\ UNCHANGED <<chunks, checkpoint, last, pliPending>>
        /\ Periodic(due)
     \/ /\ Blocked /\ stalled /\ ~limit
        /\ Keep(chunks) /\ Periodic(due)
     \/ /\ Blocked /\ stalled /\ limit
        /\ \E f \in checkpoint + 1 .. highestFrameId : Skip(f)
     \/ /\ Blocked /\ stalled /\ limit
        /\ \A f \in checkpoint + 1 .. highestFrameId : ~Resumable(f)
        /\ pliPending' = (pliPending \/ Video)
        /\ out' = {}
        /\ UNCHANGED <<chunks, checkpoint, last, stalled>>
        /\ Periodic(due \/ (Video /\ ~pliPending))

Next ==
  \/ \E key \in BOOLEAN : SendFrame(key)
  \/ ReceiveReport
  \/ Kickstart
  \/ \E p \in net : Lose(p) \/ \E keep \in BOOLEAN : HandleRtp(p, keep)
  \/ HandleSenderReport
  \/ \E limit, due \in BOOLEAN : OnTick(limit, due)

(***************************************************************************)
(* The 10 ms timer fires and, now and then, nextRtcp is due; a sender that *)
(* is sent reports again and again reads some, retransmits on its own when *)
(* it hears nothing, and a packet that is in the network again and again   *)
(* arrives some time.  The sender need not send new frames.                *)
(***************************************************************************)
Fairness ==
  /\ WF_vars(\E limit \in BOOLEAN : OnTick(limit, TRUE))
  /\ SF_vars(ReceiveReport)
  /\ WF_vars(Kickstart)
  /\ \A p \in Rtp : SF_vars(HandleRtp(p, FALSE))

Spec == Init /\ [][Next]_vars /\ Fairness

-----------------------------------------------------------------------------
(* Properties.                                                             *)

\* All packets of f are there.
Whole(ch, f) == {c.packet : c \in Of(ch, f)} = Packet

\* A frame under reassembly holds chunks of one frame only, the one its ID
\* names, although the wire carries the ID modulo 256 and packets arrive late,
\* twice or out of order, and it is a frame the window admits.
ChunksFiledRight ==
  \A c \in chunks :
    /\ c.id = c.origin
    /\ c.id \in checkpoint + 1 .. checkpoint + MaxAhead

\* The sender still holds every frame that it has sent, the receiver lacks and
\* has not passed: no checkpoint or ACK bit, however late it is read and
\* although it goes out as 8 bits, makes it forget one.
SenderHoldsWhatIsMissing ==
  \A f \in checkpoint + 1 .. next - 1 : ~Whole(chunks, f) => f \in held

\* "Delivered in frame-ID order" (CastStreamingReceiver.h:27): a step hands over
\* whole frames, newer than every frame handed over before it, without a hole.
InOrderStep ==
  out' # {} =>
    \E from \in last + 1 .. last' :
      /\ \A f \in from .. last' : Whole(out', f)
      /\ \A c \in out' : c.id = c.origin /\ c.id \in from .. last'
InOrder == [][InOrderStep]_vars

\* After frames were skipped the first one handed to a video decoder is a key
\* frame, whatever mixture of retransmissions arrived during the stall.
ResumesAtKeyFrameStep ==
  Video /\ out' # {} /\ last' > last =>
    \E from \in last + 1 .. last' :
      /\ \A c \in out' : c.id >= from
      /\ Whole(out', from)
      /\ from > last + 1 => IsKey(out', from)
ResumesAtKeyFrame == [][ResumesAtKeyFrameStep]_vars

\* The detailed design implements FrameStream: the decoder sees none of losses,
\* duplicates, reordering, truncated IDs, or reports out of date.
KeysAhead == {f \in checkpoint + 1 .. next - 1 : f \in keys \/ IsKey(chunks, f)}
Stream == INSTANCE FrameStream WITH
  Window <- MaxAhead, sent <- next, shown <- last, keysAhead <- KeysAhead,
  batch <- {<<c.origin, c.packet>> : c \in out}
ImplementsStream == Stream!Spec

\* Liveness: a hole below the newest frame seen is closed, by retransmission or
\* by skipping, even if the sender sends nothing new.
HolesClose == \A f \in Frame : highestFrameId > f ~> checkpoint >= f

\* Liveness: the sender's window of unacknowledged frames never stays full, so
\* mirroring goes on after any burst of losses, although the missing packets of
\* the newest frame are never NACKed.
WindowReopens == []<>(next <= acked + MaxAhead)
=============================================================================
