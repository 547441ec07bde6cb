------------------------- MODULE CastReceiverProofs -------------------------
(***************************************************************************)
(* CastReceiver for any window, packet count, ID space and length of the   *)
(* stream: frames never mix although their IDs travel modulo Modulus, the  *)
(* sender keeps what the receiver lacks, and frames come out whole, in     *)
(* order, and after a gap from a key frame on.  Then that it implements    *)
(* FrameStream, and that a hole can always be asked for and filled.        *)
(*                                                                         *)
(* First the arithmetic of truncated numbers, then an inductive invariant: *)
(* how far apart sender, receiver, packets and reports can be.             *)
(***************************************************************************)
EXTENDS CastReceiver, FiniteSetTheorems, TLAPS

-----------------------------------------------------------------------------
(* Numbers that travel truncated.                                          *)

\* Division with remainder.
LEMMA Division ==
  ASSUME NEW x \in Int, NEW m \in Nat, m > 0
  PROVE  /\ x \div m \in Int /\ x % m \in 0 .. m - 1
         /\ x = m * (x \div m) + (x % m)
  BY SMT

\* Two multiples of m less than m apart are equal.
LEMMA SameMultiple ==
  ASSUME NEW i \in Int, NEW j \in Int, NEW m \in Nat, m > 0,
         m * i - m * j < m, m * j - m * i < m
  PROVE  i = j
<1>1. m * (i - j) < m /\ m * (j - i) < m
  BY SMT
<1>2. ~ (i - j >= 1)
  BY <1>1, SMT
<1>3. ~ (j - i >= 1)
  BY <1>1, SMT
<1> QED BY <1>2, <1>3

\* The frames above a and below b.
LEMMA Between ==
  ASSUME NEW a \in Int, NEW b \in Int, NEW f \in a + 1 .. b - 1
  PROVE  f \in Int /\ f > a /\ f < b
  OBVIOUS

\* The window and the life of a packet fit in half the ID space.
LEMMA ModulusIs ==
  \E h \in Nat : Modulus \div 2 = h /\ Modulus = 2 * h /\ h > MaxAhead /\ h >= Lifetime
  BY ReceiverAssumption

\* A remainder taken again, with multiples of m added.
LEMMA ShiftedRemainder ==
  ASSUME NEW k \in Int, NEW m \in Nat, m > 0, NEW r \in 0 .. m - 1
  PROVE  (m * k + r) % m = r
<1> DEFINE x == m * k + r
           i == x \div m
           s == x % m
<1>1. m * k \in Int
  OBVIOUS
<1>2. x \in Int /\ i \in Int /\ s \in 0 .. m - 1 /\ x = m * i + s
  BY <1>1, Division
<1>3. m * k - m * i < m /\ m * i - m * k < m
  <2>1. m * i \in Int
    BY <1>2
  <2> QED BY <1>1, <1>2, <2>1
<1>4. k = i
  BY <1>2, <1>3, SameMultiple
<1>5. m * k + r = m * k + s
  BY <1>2, <1>4
<1> QED BY <1>1, <1>2, <1>5

\* expandFrameId() is exact for every frame less than half the ID space away:
\* reference - h .. reference + h - 1, h being half of 256.
LEMMA ExpandExact ==
  ASSUME NEW reference \in Int, NEW f \in Int, NEW h \in Nat, Modulus = 2 * h, h > 0,
         f >= reference - h, f < reference + h
  PROVE  Expand(reference, f % Modulus) = f
<1> DEFINE max == reference + h - 1
           q == max \div Modulus
           j == f \div Modulus
           r == f % Modulus
           result == Modulus * q + r
<1>1. Modulus \in Nat /\ Modulus > 0 /\ Modulus \div 2 = h
  OBVIOUS
<1>2. /\ q \in Int /\ max \in Int /\ max = Modulus * q + (max % Modulus)
      /\ max % Modulus \in 0 .. Modulus - 1
  BY <1>1, Division
<1>3. j \in Int /\ f = Modulus * j + r /\ r \in 0 .. Modulus - 1
  BY <1>1, Division
<1>4. Expand(reference, r) = IF result > max THEN result - Modulus ELSE result
  BY <1>1, <1>2 DEF Expand
<1>5. max < f + Modulus /\ f <= max
  OBVIOUS
<1> HIDE DEF max, q, j, r
<1> DEFINE a == Modulus * q
           b == Modulus * j
<1>6. a \in Int /\ b \in Int /\ a <= max /\ max < a + Modulus
  BY <1>1, <1>2, <1>3
<1>7. Modulus * (q - 1) = a - Modulus /\ q - 1 \in Int
  BY <1>1, <1>2
<1> HIDE DEF a, b
<1>8. CASE result > max
  <2>1. (a - Modulus) - b < Modulus /\ b - (a - Modulus) < Modulus
    BY <1>1, <1>2, <1>3, <1>5, <1>6, <1>8 DEF a, b
  <2>2. q - 1 = j
    BY <1>1, <1>3, <1>7, <2>1, SameMultiple DEF b
  <2> QED BY <1>1, <1>2, <1>3, <1>4, <1>7, <1>8, <2>2 DEF a, r
<1>9. CASE ~(result > max)
  <2>1. a - b < Modulus /\ b - a < Modulus
    BY <1>1, <1>2, <1>3, <1>5, <1>6, <1>9 DEF a, b
  <2>2. q = j
    BY <1>1, <1>2, <1>3, <2>1, SameMultiple DEF a, b
  <2> QED BY <1>1, <1>2, <1>3, <1>4, <1>9, <2>2 DEF r
<1> QED BY <1>8, <1>9

\* The sender restores a checkpoint from its low bits: it is less than one turn of
\* the ID space behind the newest frame.
LEMMA CheckpointExact ==
  ASSUME NEW newest \in Int, NEW c \in Int, NEW m \in Nat, m > 0,
         c <= newest, newest - c < m
  PROVE  newest - ((newest - (c % m)) % m) = c
<1> DEFINE k == c \div m
           r == c % m
<1>1. k \in Int /\ c = m * k + r /\ r \in 0 .. m - 1
  BY Division
<1>2. m * k \in Int
  BY <1>1
<1>3. newest - r = m * k + (newest - c) /\ newest - c \in 0 .. m - 1
  BY <1>1, <1>2
<1>4. (newest - r) % m = newest - c
  BY <1>1, <1>3, ShiftedRemainder
<1> QED BY <1>4

-----------------------------------------------------------------------------
(* The inductive invariant.                                                *)

\* Positions: the sender knows less than the receiver, and runs ahead of what it
\* knows by one window at most.
Positions ==
  /\ next \in 0 .. MaxFrame + 1 /\ acked \in Int /\ checkpoint \in Int /\ highestFrameId \in Nat
  /\ -1 <= acked /\ acked <= checkpoint /\ checkpoint <= highestFrameId /\ checkpoint < next
  /\ next - 1 <= acked + MaxAhead
  /\ highestFrameId < next \/ highestFrameId = 0
  /\ last = checkpoint

\* No packet in flight is older than a packet lives.
InFlight == net \subseteq Rtp /\ \A p \in net : p.frame < next /\ p.frame > next - 1 - Lifetime

Holding == held \subseteq Frame /\ \A f \in held : f > acked /\ f < next

Filed == chunks \subseteq Chunk /\ ChunksFiledRight

\* The report in flight is about a checkpoint the receiver really had, none the
\* sender has passed; what it acknowledges is still complete or was delivered.
Truthful(report, from, cp, ch) ==
  report.sent =>
    \E c \in from .. cp :
      /\ report.checkpoint = c % Modulus
      /\ \A b \in report.acks : b \in Nat /\ (c + 2 + b <= cp \/ Complete(ch, c + 2 + b))

IInv ==
  /\ Positions
  /\ InFlight
  /\ Holding
  /\ Filed
  /\ SenderHoldsWhatIsMissing
  /\ Truthful(feedback, acked, checkpoint, chunks)

-----------------------------------------------------------------------------
(* Chunks.                                                                 *)

\* complete() counts packets; they are all packets of the frame.
LEMMA WholeIsComplete ==
  ASSUME NEW ch \in SUBSET Chunk, NEW f
  PROVE  Whole(ch, f) <=> Complete(ch, f)
  BY DEF Whole, Complete, Of, Chunk

\* A frame stays complete as long as its chunks are kept.
LEMMA CompleteStays ==
  ASSUME NEW ch, NEW kept, NEW f, Complete(ch, f), \A c \in Of(ch, f) : c \in kept
  PROVE  Complete(kept, f)
  BY DEF Complete, Of

\* What a delivery hands over: the frames from .. checkpoint', whole and nothing else.
LEMMA DeliverGives ==
  ASSUME NEW ch \in SUBSET Chunk, NEW from \in Int, highestFrameId' \in Int, Deliver(ch, from)
  PROVE  /\ checkpoint' \in from .. highestFrameId' /\ last' = checkpoint'
         /\ chunks' = {c \in ch : c.id > checkpoint'}
         /\ out' = {c \in ch : c.id \in from .. checkpoint'}
         /\ \A f \in from .. checkpoint' : Complete(ch, f) /\ Whole(out', f) /\ Of(out', f) = Of(ch, f)
<1>1. PICK to \in from .. highestFrameId' :
        (\A f \in from .. to : Complete(ch, f)) /\ HandOver(ch, from, to)
  BY DEF Deliver
<1>2. /\ checkpoint' = to /\ last' = to /\ chunks' = {c \in ch : c.id > to}
      /\ out' = {c \in ch : c.id \in from .. to}
  BY <1>1 DEF HandOver
<1>3. ASSUME NEW f \in from .. to PROVE Whole(out', f) /\ Of(out', f) = Of(ch, f)
  <2>1. Of(out', f) = Of(ch, f)
    BY <1>2 DEF Of
  <2>2. Whole(ch, f)
    BY <1>1, WholeIsComplete
  <2> QED BY <2>1, <2>2 DEF Whole
<1> QED BY <1>1, <1>2, <1>3

\* A report of the receiver's state is truthful.
LEMMA RtcpIsTruthful ==
  ASSUME Truthful(feedback, acked, checkpoint', chunks'), SendRtcp \/ UNCHANGED feedback,
         acked \in Int, checkpoint' \in Int, acked <= checkpoint', chunks' \in SUBSET Chunk
  PROVE  Truthful(feedback', acked, checkpoint', chunks')
<1>1. CASE feedback' = feedback
  BY <1>1
<1>2. CASE feedback' = Report(chunks', checkpoint', highestFrameId', pliPending')
  <2>1. feedback'.checkpoint = checkpoint' % Modulus /\ feedback'.acks = Acks(chunks', checkpoint')
    BY <1>2 DEF Report
  <2>2. \A b \in feedback'.acks : b \in Nat /\ Complete(chunks', checkpoint' + 2 + b)
    BY <2>1, ReceiverAssumption DEF Acks
  <2>3. checkpoint' \in acked .. checkpoint'
    OBVIOUS
  <2> QED BY <2>1, <2>2, <2>3 DEF Truthful
<1> QED BY <1>1, <1>2 DEF SendRtcp

\* What a step of the receiver has to show: no chunk is lost but those of frames it
\* has passed.
LEMMA ReceiverKeeps ==
  ASSUME IInv, UNCHANGED sender, Positions', InFlight', Filed', checkpoint' >= checkpoint,
         \A c \in chunks : c.id > checkpoint' => c \in chunks',
         SendRtcp \/ UNCHANGED feedback
  PROVE  IInv'
<1>1. /\ next' = next /\ acked' = acked /\ held' = held
      /\ next \in Int /\ acked \in Int /\ checkpoint \in Int /\ checkpoint' \in Int
      /\ chunks \in SUBSET Chunk /\ chunks' \in SUBSET Chunk
  BY DEF sender, IInv, Positions, Filed
<1>2. ASSUME NEW f \in Int, f > checkpoint', Complete(chunks, f) PROVE Complete(chunks', f)
  <2>1. \A c \in Of(chunks, f) : c \in chunks'
    BY <1>2 DEF Of
  <2> QED BY <1>2, <2>1, CompleteStays
<1>3. Holding'
  BY <1>1 DEF IInv, Holding
<1>4. SenderHoldsWhatIsMissing'
  <2> SUFFICES ASSUME NEW f \in checkpoint' + 1 .. next - 1, ~Whole(chunks', f) PROVE f \in held
    BY <1>1 DEF SenderHoldsWhatIsMissing
  <2>1. f \in checkpoint + 1 .. next - 1 /\ f \in Int /\ f > checkpoint'
    <3>1. f \in Int /\ f > checkpoint' /\ f < next
      BY <1>1, Between
    <3> QED BY <1>1, <3>1
  <2>2. ~Whole(chunks, f)
    BY <1>1, <1>2, <2>1, WholeIsComplete
  <2> QED BY <2>1, <2>2 DEF IInv, SenderHoldsWhatIsMissing
<1>5. Truthful(feedback, acked, checkpoint', chunks')
  <2> SUFFICES ASSUME feedback.sent PROVE Truthful(feedback, acked, checkpoint', chunks')
    BY DEF Truthful
  <2>1. PICK c \in acked .. checkpoint :
          /\ feedback.checkpoint = c % Modulus
          /\ \A b \in feedback.acks :
               b \in Nat /\ (c + 2 + b <= checkpoint \/ Complete(chunks, c + 2 + b))
    BY DEF IInv, Truthful
  <2>2. \A b \in feedback.acks :
          b \in Nat /\ (c + 2 + b <= checkpoint' \/ Complete(chunks', c + 2 + b))
    BY <1>1, <1>2, <2>1
  <2>3. c \in acked .. checkpoint'
    BY <1>1
  <2> QED BY <2>1, <2>2, <2>3 DEF Truthful
<1>6. acked <= checkpoint'
  BY <1>1 DEF IInv, Positions
<1>7. Truthful(feedback', acked', checkpoint', chunks')
  BY <1>1, <1>5, <1>6, RtcpIsTruthful
<1> QED BY <1>3, <1>4, <1>7 DEF IInv

-----------------------------------------------------------------------------
(* The steps.                                                              *)

\* Before the first frame nothing is known or sent.
LEMMA InitOK == Init => IInv
  BY ReceiverAssumption DEF Init, IInv, Positions, InFlight, Holding, Filed, ChunksFiledRight,
     SenderHoldsWhatIsMissing, Truthful, NoReport

\* A new frame: packets too old to arrive leave the network with it.
LEMMA SendFrameKeeps == ASSUME IInv, NEW key \in BOOLEAN, SendFrame(key) PROVE IInv'
<1>1. /\ next' = next + 1 /\ next <= MaxFrame /\ next <= acked + MaxAhead /\ held' = held \union {next}
      /\ net' = {p \in net : p.frame > next - Lifetime} \union [frame : {next}, packet : Packet, key : {key}]
      /\ UNCHANGED <<acked, feedback, checkpoint, highestFrameId, chunks, last>>
  BY DEF SendFrame, receiver
<1>2. Positions'
  BY <1>1, ReceiverAssumption DEF IInv, Positions
<1>3. next \in Frame /\ next \in Int /\ Lifetime \in Nat /\ Lifetime > 0
  BY <1>1, ReceiverAssumption DEF IInv, Positions, Frame
<1>4. InFlight'
  <2>1. \A p \in [frame : {next}, packet : Packet, key : {key}] : p \in Rtp /\ p.frame = next
    BY <1>3 DEF Rtp
  <2>2. \A p \in net : p \in Rtp /\ p.frame \in Int /\ p.frame < next
    BY DEF IInv, InFlight, Rtp, Frame
  <2> QED BY <1>1, <1>3, <2>1, <2>2 DEF InFlight
<1>5. Holding'
  BY <1>1, <1>3 DEF IInv, Holding, Frame, Positions
<1>6. Filed'
  BY <1>1 DEF IInv, Filed, ChunksFiledRight
<1>7. SenderHoldsWhatIsMissing'
  BY <1>1, <1>3 DEF IInv, SenderHoldsWhatIsMissing, Positions
<1>8. Truthful(feedback', acked', checkpoint', chunks')
  BY <1>1 DEF IInv, Truthful
<1> QED BY <1>2, <1>4, <1>5, <1>6, <1>7, <1>8 DEF IInv

\* The sender reads a report, however old: it restores the checkpoint the receiver
\* had, and forgets only what that report truthfully acknowledges.
LEMMA ReceiveReportKeeps == ASSUME IInv, ReceiveReport PROVE IInv'
<1> DEFINE cp == (next - 1) - (((next - 1) - feedback.checkpoint) % Modulus)
           gone == {f \in held : f <= cp \/ \E b \in feedback.acks : f = cp + 2 + b}
<1>1. /\ feedback.sent /\ acked' = (IF cp > acked THEN cp ELSE acked) /\ held' = held \ gone
      /\ \A p \in net' : p \in net \/ (p \in Rtp /\ p.frame \in held \ gone)
      /\ UNCHANGED <<next, feedback, checkpoint, highestFrameId, chunks, last>>
  BY DEF ReceiveReport, receiver
<1>2. PICK c \in acked .. checkpoint :
        /\ feedback.checkpoint = c % Modulus
        /\ \A b \in feedback.acks :
             b \in Nat /\ (c + 2 + b <= checkpoint \/ Complete(chunks, c + 2 + b))
  BY <1>1 DEF IInv, Truthful
<1>3. /\ next \in Int /\ acked \in Int /\ checkpoint \in Int /\ c \in Int
      /\ acked <= c /\ c <= checkpoint /\ checkpoint <= next - 1 /\ next - 1 <= acked + MaxAhead
      /\ MaxAhead \in Nat /\ Lifetime \in Nat /\ MaxAhead < Lifetime
      /\ Modulus \in Nat /\ Modulus > 0 /\ MaxAhead < Modulus
  BY <1>2, ReceiverAssumption DEF IInv, Positions
<1>4. cp = c
  <2>1. c <= next - 1 /\ (next - 1) - c < Modulus
    BY <1>3
  <2> QED BY <1>2, <1>3, <2>1, CheckpointExact
<1>5. acked' = c
  BY <1>1, <1>3, <1>4
<1>6. \A f \in held : f \in Int /\ f > acked /\ f < next
  BY DEF IInv, Holding, Frame
<1> HIDE DEF cp
<1>7. Positions'
  BY <1>1, <1>3, <1>5 DEF IInv, Positions
<1>8. Holding'
  BY <1>1, <1>3, <1>4, <1>5, <1>6 DEF IInv, Holding
<1>9. InFlight'
  <2>1. \A p \in net : p \in Rtp /\ p.frame < next /\ p.frame > next - 1 - Lifetime
    BY DEF IInv, InFlight
  <2>2. \A f \in held : f < next /\ f > next - 1 - Lifetime
    BY <1>3, <1>6
  <2> QED BY <1>1, <2>1, <2>2 DEF InFlight
<1>10. Filed'
  BY <1>1 DEF IInv, Filed, ChunksFiledRight
<1>11. SenderHoldsWhatIsMissing'
  <2> SUFFICES ASSUME NEW f \in checkpoint + 1 .. next - 1, ~Whole(chunks, f)
               PROVE  f \in held /\ f \notin gone
    BY <1>1 DEF SenderHoldsWhatIsMissing
  <2>1. f \in held
    BY DEF IInv, SenderHoldsWhatIsMissing
  <2>2. ~Complete(chunks, f)
    BY WholeIsComplete DEF IInv, Filed
  <2>3. ~(f <= cp)
    BY <1>3, <1>4
  <2>4. ASSUME NEW b \in feedback.acks, f = cp + 2 + b PROVE FALSE
    BY <1>2, <1>3, <1>4, <2>2, <2>4
  <2> QED BY <2>1, <2>3, <2>4
<1>12. Truthful(feedback', acked', checkpoint', chunks')
  <2>1. c \in acked' .. checkpoint
    BY <1>3, <1>5
  <2> QED BY <1>1, <1>2, <2>1 DEF Truthful
<1> QED BY <1>7, <1>8, <1>9, <1>10, <1>11, <1>12 DEF IInv

\* A step that touches the network only.
LEMMA NetKeeps ==
  ASSUME IInv, InFlight', UNCHANGED <<sender, feedback, receiver, last>>
  PROVE  IInv'
<1>1. UNCHANGED <<next, acked, held, feedback, checkpoint, highestFrameId, chunks, last>>
  BY DEF sender, receiver
<1> QED BY <1>1 DEF IInv, Positions, Holding, Filed, ChunksFiledRight, SenderHoldsWhatIsMissing, Truthful

\* The newest frame again.
LEMMA KickstartKeeps == ASSUME IInv, Kickstart PROVE IInv'
<1> DEFINE p == [frame |-> next - 1, packet |-> Last, key |-> next - 1 \in keys]
<1>1. /\ next - 1 \in held /\ net' = net \union {p} /\ next' = next
      /\ UNCHANGED <<sender, feedback, receiver, last>>
  BY DEF Kickstart, sender
<1>2. next \in Int /\ Lifetime \in Nat /\ Lifetime > 0 /\ Last \in Packet /\ next - 1 \in Frame
  BY <1>1, ReceiverAssumption DEF IInv, Positions, Holding, Last, Packet
<1>3. p \in Rtp /\ p.frame < next /\ p.frame > next - 1 - Lifetime
  BY <1>2 DEF Rtp
<1>4. InFlight'
  BY <1>1, <1>3 DEF IInv, InFlight
<1> QED BY <1>1, <1>4, NetKeeps

\* A packet less.
LEMMA LoseKeeps == ASSUME IInv, NEW p \in net, Lose(p) PROVE IInv'
<1>1. net' \subseteq net /\ next' = next /\ UNCHANGED <<sender, feedback, receiver, last>>
  BY DEF Lose, sender
<1>2. InFlight'
  BY <1>1 DEF IInv, InFlight
<1> QED BY <1>1, <1>2, NetKeeps

\* A packet in flight is filed under the frame it was sent for.
LEMMA FiledUnderItsFrame ==
  ASSUME IInv, NEW p \in net
  PROVE  Expand(highestFrameId, p.frame % Modulus) = p.frame
<1> PICK f : f = p.frame
  OBVIOUS
<1>1. PICK h \in Nat : Modulus = 2 * h /\ h > MaxAhead /\ h >= Lifetime
  BY ModulusIs
<1>2. /\ f \in Int /\ f >= 0 /\ f < next /\ f > next - 1 - Lifetime
      /\ next \in Int /\ acked \in Int /\ checkpoint \in Int /\ highestFrameId \in Int
      /\ MaxAhead \in Nat /\ Lifetime \in Nat
  BY ReceiverAssumption DEF IInv, InFlight, Positions, Rtp, Frame
<1>3. /\ next - 1 <= acked + MaxAhead /\ acked <= checkpoint /\ checkpoint <= highestFrameId
      /\ highestFrameId < next \/ highestFrameId = 0
  BY DEF IInv, Positions
<1>4. h > 0 /\ f < highestFrameId + h /\ f >= highestFrameId - h
  BY <1>1, <1>2, <1>3
<1>5. Expand(highestFrameId, f % Modulus) = f
  BY <1>1, <1>2, <1>4, ExpandExact
<1> QED BY <1>5

\* After a delivery from ch the receiver has passed what it delivered.
LEMMA DeliverKeeps ==
  ASSUME IInv, NEW ch \in SUBSET Chunk, NEW from \in Int, from > checkpoint,
         highestFrameId' \in Nat, highestFrameId' < next,
         \A c \in ch : c.id = c.origin /\ c.id <= checkpoint + MaxAhead,
         \A c \in chunks : c.id >= from => c \in ch,
         Deliver(ch, from), UNCHANGED sender, InFlight', SendRtcp
  PROVE  IInv'
<1> PICK to : to = checkpoint'
  OBVIOUS
<1>1. /\ to \in from .. highestFrameId' /\ last' = to /\ chunks' = {c \in ch : c.id > to}
  <2>1. highestFrameId' \in Int
    OBVIOUS
  <2>2. /\ checkpoint' \in from .. highestFrameId' /\ last' = checkpoint'
        /\ chunks' = {c \in ch : c.id > checkpoint'}
    BY <2>1, DeliverGives
  <2> QED BY <2>2
<1>2. /\ next' = next /\ acked' = acked /\ next \in 0 .. MaxFrame + 1 /\ acked \in Int
      /\ checkpoint \in Int /\ MaxAhead \in Nat /\ -1 <= acked /\ acked <= checkpoint
      /\ next - 1 <= acked + MaxAhead /\ to \in Int /\ to > checkpoint /\ to >= from
      /\ to <= highestFrameId' /\ next \in Int
  BY <1>1, ReceiverAssumption DEF IInv, Positions, sender
<1>3. Positions'
  BY <1>1, <1>2 DEF Positions
<1>4. Filed'
  <2>1. ASSUME NEW c \in chunks' PROVE c.id = c.origin /\ c.id \in to + 1 .. to + MaxAhead
    <3>1. c \in ch /\ c.id > to /\ c.id \in Int
      BY <1>1 DEF Chunk, Frame
    <3> QED BY <1>2, <3>1
  <2>2. chunks' \subseteq Chunk
    BY <1>1
  <2> QED BY <2>1, <2>2 DEF Filed, ChunksFiledRight
<1>5. \A c \in chunks : c.id > to => c \in chunks'
  <2>1. \A c \in chunks : c.id \in Int
    BY DEF IInv, Filed, Chunk, Frame
  <2> QED BY <1>1, <1>2, <2>1
<1>6. checkpoint' >= checkpoint
  BY <1>2
<1> QED BY <1>3, <1>4, <1>5, <1>6, ReceiverKeeps

\* A packet, possibly a duplicate: dropped, kept, or the one that completes the frame
\* waited for.
LEMMA HandleRtpKeeps ==
  ASSUME IInv, NEW p \in net, NEW keep \in BOOLEAN, HandleRtp(p, keep) PROVE IInv'
<1> DEFINE id == p.frame
           new == [id |-> id, packet |-> p.packet, origin |-> p.frame, key |-> p.key]
           dup == \E c \in Of(chunks, id) : c.packet = p.packet
           ch == IF dup THEN chunks ELSE chunks \union {new}
<1>1. /\ net' \subseteq net /\ UNCHANGED sender
      /\ IF Acceptable(id)
         THEN /\ highestFrameId' = IF id > highestFrameId THEN id ELSE highestFrameId
              /\ \/ id = checkpoint + 1 /\ Deliver(ch, id) /\ SendRtcp
                 \/ Keep(ch) /\ UNCHANGED feedback
         ELSE Keep(chunks) /\ UNCHANGED <<highestFrameId, feedback>>
  BY FiledUnderItsFrame DEF HandleRtp
<1>2. /\ p \in Rtp /\ id \in Nat /\ id \in Frame /\ id < next /\ next \in Int /\ checkpoint \in Int
      /\ highestFrameId \in Nat /\ (highestFrameId < next \/ highestFrameId = 0)
  BY DEF IInv, InFlight, Positions, Rtp, Frame
<1>3. InFlight'
  BY <1>1 DEF IInv, InFlight, sender
<1>4. /\ chunks \in SUBSET Chunk /\ chunks \subseteq ch
      /\ \A c \in chunks : c.id = c.origin /\ c.id \in checkpoint + 1 .. checkpoint + MaxAhead
  BY DEF IInv, Filed, ChunksFiledRight
<1>5. CASE Acceptable(id)
  <2>1. id > checkpoint /\ id <= checkpoint + MaxAhead /\ MaxAhead \in Nat
    BY <1>5, ReceiverAssumption DEF Acceptable
  <2>2. highestFrameId' \in Nat /\ highestFrameId' < next /\ highestFrameId' >= highestFrameId
    BY <1>1, <1>2, <1>5
  <2>3. new \in Chunk
    BY <1>2 DEF Chunk, Rtp
  <2>4. /\ ch \in SUBSET Chunk
        /\ \A c \in ch : c.id = c.origin /\ c.id \in checkpoint + 1 .. checkpoint + MaxAhead
    BY <1>2, <1>4, <2>1, <2>3
  <2> HIDE DEF ch, id
  <2>5. CASE Deliver(ch, id) /\ SendRtcp
    <3>1. \A c \in ch : c.id <= checkpoint + MaxAhead
      BY <1>2, <2>1, <2>4
    <3> QED BY <1>1, <1>2, <1>3, <1>4, <2>1, <2>2, <2>4, <2>5, <3>1, DeliverKeeps
  <2>6. CASE Keep(ch) /\ UNCHANGED feedback
    <3>1. chunks' = ch /\ UNCHANGED <<checkpoint, last, sender>>
      BY <1>1, <2>6 DEF Keep
    <3>2. Positions'
      BY <1>2, <2>2, <3>1 DEF IInv, Positions, sender
    <3>3. Filed'
      BY <2>4, <3>1 DEF Filed, ChunksFiledRight
    <3> QED BY <1>2, <1>3, <1>4, <2>6, <3>1, <3>2, <3>3, ReceiverKeeps
  <2> QED BY <1>1, <1>5, <2>5, <2>6
<1>6. CASE ~Acceptable(id)
  <2>1. UNCHANGED <<chunks, checkpoint, last, highestFrameId, feedback, sender>>
    BY <1>1, <1>6 DEF Keep
  <2>2. Positions' /\ Filed'
    BY <2>1 DEF IInv, Positions, Filed, ChunksFiledRight, sender
  <2> QED BY <1>2, <1>3, <2>1, <2>2, ReceiverKeeps
<1> QED BY <1>5, <1>6

\* A step of the receiver that only sends a report.
LEMMA QuietKeeps ==
  ASSUME IInv, UNCHANGED <<sender, net, highestFrameId, chunks, checkpoint, last>>,
         SendRtcp \/ UNCHANGED feedback
  PROVE  IInv'
<1>1. Positions' /\ Filed' /\ InFlight'
  BY DEF IInv, Positions, Filed, ChunksFiledRight, InFlight, sender
<1>2. checkpoint \in Int
  BY DEF IInv, Positions
<1> QED BY <1>1, <1>2, ReceiverKeeps

\* A Sender Report is answered with the state as it is.
LEMMA HandleSenderReportKeeps == ASSUME IInv, HandleSenderReport PROVE IInv'
  BY QuietKeeps DEF HandleSenderReport, Keep

\* The timer: a report, or a skip that drops what it passes.
LEMMA OnTickKeeps ==
  ASSUME IInv, NEW limit \in BOOLEAN, NEW due \in BOOLEAN, OnTick(limit, due) PROVE IInv'
<1>1. UNCHANGED <<sender, net, highestFrameId>>
  BY DEF OnTick
<1>2. CASE UNCHANGED <<chunks, checkpoint, last>> /\ (SendRtcp \/ UNCHANGED feedback)
  BY <1>1, <1>2, QuietKeeps
<1>3. ASSUME Blocked, NEW f \in checkpoint + 1 .. highestFrameId, Skip(f) PROVE IInv'
  <2> DEFINE ch == {c \in chunks : c.id >= f}
  <2>1. Deliver(ch, f) /\ SendRtcp
    BY <1>3 DEF Skip
  <2>2. /\ checkpoint \in Int /\ next \in Int /\ highestFrameId \in Nat
        /\ highestFrameId < next \/ highestFrameId = 0
        /\ MaxAhead \in Nat /\ checkpoint >= -1
    BY ReceiverAssumption DEF IInv, Positions
  <2>3. f \in Int /\ f > checkpoint /\ highestFrameId > 0 /\ highestFrameId < next
    BY <1>3, <2>2 DEF Blocked
  <2>4. chunks \in SUBSET Chunk /\ \A c \in chunks : c.id = c.origin /\ c.id <= checkpoint + MaxAhead
    BY <2>2 DEF IInv, Filed, ChunksFiledRight
  <2>5. InFlight'
    BY <1>1 DEF IInv, InFlight, sender
  <2> QED BY <1>1, <2>1, <2>2, <2>3, <2>4, <2>5, DeliverKeeps
<1> QED BY <1>2, <1>3 DEF OnTick, Keep, Periodic

\* Every reachable state satisfies the invariant.
THEOREM Invariance == Spec => []IInv
<1>1. IInv /\ [Next]_vars => IInv'
  <2> SUFFICES ASSUME IInv, [Next]_vars PROVE IInv'
    OBVIOUS
  <2>1. CASE UNCHANGED vars
    BY <2>1, NetKeeps DEF vars, sender, receiver, IInv, InFlight
  <2> QED BY <2>1, SendFrameKeeps, ReceiveReportKeeps, KickstartKeeps, LoseKeeps, HandleRtpKeeps,
             HandleSenderReportKeeps, OnTickKeeps DEF Next
<1> QED BY <1>1, InitOK, PTL DEF Spec

-----------------------------------------------------------------------------
(* What follows.                                                           *)

\* Expanding an ID, packets that are late, twice or out of order never mix two
\* frames, for any ID space at least twice as large as a packet's life.
THEOREM FramesDoNotMix == Spec => []ChunksFiledRight
  BY Invariance, PTL DEF IInv, Filed

\* Whatever is lost and however late a report is read, the sender can retransmit
\* what the receiver still waits for.
THEOREM NothingForgotten == Spec => []SenderHoldsWhatIsMissing
  BY Invariance, PTL DEF IInv

\* Where a step hands frames over: behind the last one, from chunks filed right, and
\* past a hole only from a key frame on.
LEMMA HandsOver ==
  ASSUME IInv, Next, out' # {}
  PROVE  \E ch \in SUBSET Chunk, from \in Int :
           /\ Deliver(ch, from) /\ highestFrameId' \in Int
           /\ from > last /\ \A c \in ch : c.id = c.origin
           /\ Video /\ from > last + 1 => IsKey(ch, from)
<1>1. /\ last = checkpoint /\ checkpoint \in Int /\ highestFrameId \in Int /\ chunks \in SUBSET Chunk
      /\ \A c \in chunks : c.id = c.origin
  BY DEF IInv, Positions, Filed, ChunksFiledRight
<1>2. ASSUME NEW p \in net, NEW keep \in BOOLEAN, HandleRtp(p, keep)
      PROVE  \E ch \in SUBSET Chunk :
               /\ Deliver(ch, checkpoint + 1) /\ highestFrameId' \in Int
               /\ \A c \in ch : c.id = c.origin
  <2> DEFINE id == p.frame
             new == [id |-> id, packet |-> p.packet, origin |-> p.frame, key |-> p.key]
             ch == IF \E c \in Of(chunks, id) : c.packet = p.packet
                   THEN chunks ELSE chunks \union {new}
  <2>1. /\ id = checkpoint + 1 /\ Deliver(ch, id)
        /\ highestFrameId' = (IF id > highestFrameId THEN id ELSE highestFrameId)
    BY <1>2, FiledUnderItsFrame DEF HandleRtp, Keep
  <2>2. new \in Chunk /\ id \in Int
    BY DEF IInv, InFlight, Rtp, Chunk, Frame
  <2>3. ch \in SUBSET Chunk /\ \A c \in ch : c.id = c.origin
    BY <1>1, <2>2
  <2>4. highestFrameId' \in Int
    BY <1>1, <2>1, <2>2
  <2> HIDE DEF ch, id
  <2> QED BY <2>1, <2>3, <2>4
<1>3. ASSUME NEW limit \in BOOLEAN, NEW due \in BOOLEAN, OnTick(limit, due)
      PROVE  \E f \in checkpoint + 1 .. highestFrameId : Skip(f) /\ highestFrameId' = highestFrameId
  BY <1>3 DEF OnTick, Keep
<1>4. ASSUME NEW f \in checkpoint + 1 .. highestFrameId, Skip(f), highestFrameId' = highestFrameId
      PROVE  \E ch \in SUBSET Chunk, from \in Int :
               /\ Deliver(ch, from) /\ highestFrameId' \in Int
               /\ from > last /\ \A c \in ch : c.id = c.origin
               /\ Video => IsKey(ch, from)
  <2> DEFINE ch == {c \in chunks : c.id >= f}
  <2>1. f \in Int /\ f > last
    BY <1>1
  <2>2. Deliver(ch, f) /\ (Video => IsKey(chunks, f))
    BY <1>4 DEF Skip, Resumable
  <2>3. IsKey(chunks, f) => IsKey(ch, f)
    BY <2>1 DEF IsKey, Of
  <2>4. ch \in SUBSET Chunk /\ \A c \in ch : c.id = c.origin
    BY <1>1
  <2> HIDE DEF ch
  <2> QED BY <1>1, <1>4, <2>1, <2>2, <2>3, <2>4
<1>5. CASE \E p \in net, keep \in BOOLEAN : HandleRtp(p, keep)
  <2>1. PICK ch \in SUBSET Chunk :
          /\ Deliver(ch, checkpoint + 1) /\ highestFrameId' \in Int
          /\ \A c \in ch : c.id = c.origin
    BY <1>2, <1>5
  <2>2. checkpoint + 1 \in Int /\ checkpoint + 1 > last /\ ~(checkpoint + 1 > last + 1)
    BY <1>1
  <2> QED BY <2>1, <2>2
<1>6. CASE \E limit, due \in BOOLEAN : OnTick(limit, due)
  BY <1>3, <1>4, <1>6
<1>7. ~(\E p \in net, keep \in BOOLEAN : HandleRtp(p, keep)) =>
        \E limit, due \in BOOLEAN : OnTick(limit, due)
  BY DEF Next, SendFrame, ReceiveReport, Kickstart, Lose, HandleSenderReport, Keep
<1> QED BY <1>5, <1>6, <1>7

\* "Delivered in frame-ID order" (CastStreamingReceiver.h:27): whole frames, each
\* once, never one older than those before.
THEOREM DeliversInOrder == Spec => InOrder
<1>1. IInv /\ [Next]_vars => [InOrderStep]_vars
  <2> SUFFICES ASSUME IInv, Next, out' # {} PROVE InOrderStep
    BY DEF InOrderStep
  <2>1. PICK ch \in SUBSET Chunk, from \in Int :
          /\ Deliver(ch, from) /\ highestFrameId' \in Int
          /\ from > last /\ \A c \in ch : c.id = c.origin
    BY HandsOver
  <2>2. /\ checkpoint' \in from .. highestFrameId' /\ last' = checkpoint'
        /\ out' = {c \in ch : c.id \in from .. checkpoint'}
        /\ \A f \in from .. checkpoint' : Whole(out', f)
    BY <2>1, DeliverGives
  <2>3. from \in last + 1 .. last'
    BY <2>1, <2>2 DEF IInv, Positions
  <2> QED BY <2>1, <2>2, <2>3 DEF InOrderStep
<1> QED BY <1>1, Invariance, PTL DEF Spec, InOrder

\* After a skip the video decoder starts with a whole key frame.
THEOREM ResumesAtKey == Spec => ResumesAtKeyFrame
<1>1. IInv /\ [Next]_vars => [ResumesAtKeyFrameStep]_vars
  <2> SUFFICES ASSUME IInv, Next, out' # {}, Video PROVE ResumesAtKeyFrameStep
    BY DEF ResumesAtKeyFrameStep
  <2>1. PICK ch \in SUBSET Chunk, from \in Int :
          /\ Deliver(ch, from) /\ highestFrameId' \in Int
          /\ from > last /\ (from > last + 1 => IsKey(ch, from))
    BY HandsOver
  <2>2. /\ checkpoint' \in from .. highestFrameId' /\ last' = checkpoint'
        /\ out' = {c \in ch : c.id \in from .. checkpoint'}
        /\ \A f \in from .. checkpoint' : Whole(out', f) /\ Of(out', f) = Of(ch, f)
    BY <2>1, DeliverGives
  <2>3. from \in last + 1 .. last' /\ from \in from .. checkpoint'
    BY <2>1, <2>2 DEF IInv, Positions
  <2>4. Whole(out', from) /\ (IsKey(ch, from) => IsKey(out', from))
    BY <2>2, <2>3 DEF IsKey
  <2>5. \A c \in out' : c.id >= from
    BY <2>2
  <2> QED BY <2>1, <2>3, <2>4, <2>5 DEF ResumesAtKeyFrameStep
<1> QED BY <1>1, Invariance, PTL DEF Spec, ResumesAtKeyFrame

-----------------------------------------------------------------------------
(* CastReceiver implements FrameStream.                                    *)

\* Which frames were sent as key frames is forgotten by the sender once they are
\* acknowledged; what is in flight and in the window agrees with it till then, and
\* still tells it afterwards.
KeysTold ==
  /\ keys \subseteq held
  /\ \A c \in chunks : c.id < next /\ (c.id \in keys => c.key)
  /\ \A p \in net : /\ p.frame \in keys => p.key
                    /\ p.frame > checkpoint /\ p.key => p.frame \in KeysAhead

\* What ch tells of key frames.
Tells(ch) ==
  \A c \in ch : /\ c.id < next /\ (c.id \in keys => c.key)
                /\ c.id > checkpoint /\ c.packet = 0 /\ c.key => c.id \in KeysAhead

\* The window itself does so.
LEMMA WindowTells == ASSUME IInv, KeysTold PROVE Tells(chunks)
<1> SUFFICES ASSUME NEW c \in chunks, c.id > checkpoint, c.packet = 0, c.key PROVE c.id \in KeysAhead
  BY DEF KeysTold, Tells
<1>1. c.id \in Int /\ c.id < next /\ checkpoint \in Int /\ next \in Int
  BY DEF IInv, Filed, Positions, KeysTold, Chunk, Frame
<1>2. IsKey(chunks, c.id) /\ c.id \in checkpoint + 1 .. next - 1
  BY <1>1 DEF IsKey, Of
<1> QED BY <1>2 DEF KeysAhead

\* A step that hands nothing over and keeps every key frame ahead.
LEMMA Waits ==
  ASSUME UNCHANGED <<next, last>>, KeysAhead' = KeysAhead, out' = {}
  PROVE  Stream!Next
BY DEF Stream!Next, Stream!Wait

\* The sender keeps frames it has sent.
LEMMA HeldInRange == ASSUME IInv, NEW f \in held PROVE f \in Int /\ f < next
BY DEF IInv, Holding, Frame

\* The sender sends.
LEMMA SendFrameRefines ==
  ASSUME IInv, KeysTold, NEW key \in BOOLEAN, SendFrame(key)
  PROVE  KeysTold' /\ Stream!Next
<1> DEFINE new == [frame : {next}, packet : Packet, key : {key}]
<1>1. /\ next' = next + 1 /\ next <= acked + MaxAhead /\ (next = 0 => key)
      /\ held' = held \union {next} /\ keys' = (IF key THEN keys \union {next} ELSE keys)
      /\ \A p \in net' : p \in net \/ p \in new
      /\ out' = {} /\ UNCHANGED <<checkpoint, chunks, last>>
  BY DEF SendFrame, receiver
<1>2. /\ next \in Int /\ checkpoint \in Int /\ acked \in Int /\ MaxAhead \in Int /\ acked <= checkpoint
      /\ checkpoint < next /\ last = checkpoint
  BY ReceiverAssumption DEF IInv, Positions
<1>3. next \notin keys /\ \A c \in chunks : c.id # next
  BY <1>2 DEF KeysTold, IInv, Holding
<1>4. KeysAhead' = IF key THEN KeysAhead \union {next} ELSE KeysAhead
  <2>1. ~IsKey(chunks, next)
    BY <1>3 DEF IsKey, Of
  <2>2. checkpoint + 1 .. next' - 1 = (checkpoint + 1 .. next - 1) \union {next}
    BY <1>1, <1>2
  <2>3. next \notin checkpoint + 1 .. next - 1
    BY <1>2
  <2> QED BY <1>1, <1>3, <2>1, <2>2, <2>3 DEF KeysAhead
<1>5. KeysTold'
  <2>1. keys' \subseteq held'
    BY <1>1 DEF KeysTold
  <2>2. \A c \in chunks' : c.id < next' /\ (c.id \in keys' => c.key)
    <3>1. \A c \in chunks : c.id \in Int
      BY DEF IInv, Filed, Chunk, Frame
    <3> QED BY <1>1, <1>2, <1>3, <3>1 DEF KeysTold
  <2>3. ASSUME NEW p \in net'
        PROVE  /\ p.frame \in keys' => p.key
               /\ p.frame > checkpoint' /\ p.key => p.frame \in KeysAhead'
    <3>1. CASE p \in new
      BY <1>1, <1>3, <1>4, <3>1
    <3>2. CASE p \in net
      <4>1. p.frame # next
        BY <1>2, <3>2 DEF IInv, InFlight
      <4> QED BY <1>1, <1>4, <3>2, <4>1 DEF KeysTold
    <3> QED BY <1>1, <3>1, <3>2
  <2> QED BY <2>1, <2>2, <2>3 DEF KeysTold
<1>6. Stream!Send(key)
  BY <1>1, <1>2, <1>4 DEF Stream!Send
<1> QED BY <1>5, <1>6 DEF Stream!Next

\* The sender forgets frames, and what was a key frame is then told by the window.
LEMMA ReceiveReportRefines ==
  ASSUME IInv, IInv', KeysTold, ReceiveReport
  PROVE  KeysTold' /\ Stream!Next
<1>1. PICK gone :
        /\ held' = held \ gone /\ keys' = keys \ gone
        /\ \A p \in net' : p \in net \/ (p.frame \in held \ gone /\ p.key = (p.frame \in keys))
        /\ out' = {} /\ UNCHANGED <<next, checkpoint, chunks, last>>
  BY DEF ReceiveReport, receiver
<1>2. next \in Int /\ checkpoint \in Int /\ chunks \in SUBSET Chunk
  BY DEF IInv, Positions, Filed
<1>3. ASSUME NEW f \in checkpoint + 1 .. next - 1, f \in keys, f \in gone
      PROVE  IsKey(chunks, f)
  <2>1. Whole(chunks, f)
    <3>1. f \in checkpoint' + 1 .. next' - 1 /\ f \notin held'
      BY <1>1, <1>3
    <3>2. Whole(chunks', f)
      BY <3>1 DEF IInv, SenderHoldsWhatIsMissing
    <3> QED BY <1>1, <3>2 DEF Whole, Of
  <2>2. 0 \in Packet
    BY ReceiverAssumption DEF Packet
  <2>3. PICK c \in Of(chunks, f) : c.packet = 0
    BY <2>1, <2>2 DEF Whole
  <2> QED BY <1>3, <2>3 DEF KeysTold, IsKey, Of
<1>4. KeysAhead' = KeysAhead
  <2>1. \A f \in checkpoint + 1 .. next - 1 :
          (f \in keys' \/ IsKey(chunks, f)) <=> (f \in keys \/ IsKey(chunks, f))
    BY <1>1, <1>3
  <2> QED BY <1>1, <2>1 DEF KeysAhead
<1>5. KeysTold'
  <2>1. keys' \subseteq held' /\ \A c \in chunks' : c.id < next' /\ (c.id \in keys' => c.key)
    BY <1>1 DEF KeysTold
  <2>2. ASSUME NEW p \in net'
        PROVE  /\ p.frame \in keys' => p.key
               /\ p.frame > checkpoint' /\ p.key => p.frame \in KeysAhead'
    <3>1. CASE p \in net
      BY <1>1, <1>4, <3>1 DEF KeysTold
    <3>2. CASE p.frame \in held \ gone /\ p.key = (p.frame \in keys)
      <4>1. p.frame \in held
        BY <3>2
      <4>2. p.frame \in Int /\ p.frame < next
        BY <4>1, HeldInRange
      <4>3. p.frame > checkpoint /\ p.frame \in keys => p.frame \in KeysAhead
        BY <1>2, <4>2 DEF KeysAhead
      <4> QED BY <1>1, <1>4, <3>2, <4>3
    <3> QED BY <1>1, <3>1, <3>2
  <2> QED BY <2>1, <2>2 DEF KeysTold
<1> QED BY <1>1, <1>4, <1>5, Waits

\* The newest frame again, or a packet less.
LEMMA NetworkRefines ==
  ASSUME IInv, KeysTold, Kickstart \/ \E p \in net : Lose(p)
  PROVE  KeysTold' /\ Stream!Next
<1>1. /\ \A p \in net' : p \in net \/ (p.frame \in held /\ p.key = (p.frame \in keys))
      /\ out' = {} /\ UNCHANGED <<next, held, keys, checkpoint, chunks, last>>
  BY DEF Kickstart, Lose, sender, receiver
<1>2. KeysAhead' = KeysAhead
  BY <1>1 DEF KeysAhead
<1>3. ASSUME NEW p \in net'
      PROVE  /\ p.frame \in keys => p.key
             /\ p.frame > checkpoint /\ p.key => p.frame \in KeysAhead
  <2>1. CASE p.frame \in held /\ p.key = (p.frame \in keys)
    <3>1. p.frame \in Int /\ p.frame < next /\ next \in Int /\ checkpoint \in Int
      <4>1. p.frame \in held
        BY <2>1
      <4> QED BY <4>1, HeldInRange DEF IInv, Positions
    <3>2. p.frame > checkpoint /\ p.frame \in keys => p.frame \in KeysAhead
      BY <3>1 DEF KeysAhead
    <3> QED BY <2>1, <3>2
  <2> QED BY <1>1, <2>1 DEF KeysTold
<1>4. KeysTold'
  BY <1>1, <1>2, <1>3 DEF KeysTold
<1> QED BY <1>1, <1>2, <1>4, Waits

\* A step of the receiver that hands nothing over.
LEMMA KeepRefines ==
  ASSUME IInv, KeysTold, NEW ch \in SUBSET Chunk, chunks \subseteq ch, Tells(ch), chunks' = ch, out' = {},
         net' \subseteq net, UNCHANGED <<sender, checkpoint, last>>
  PROVE  KeysTold' /\ Stream!Next
<1>1. UNCHANGED <<next, held, keys>>
  BY DEF sender
<1>2. KeysAhead' = KeysAhead
  <2>1. ASSUME NEW f \in checkpoint + 1 .. next - 1, IsKey(ch, f) PROVE f \in KeysAhead
    <3>1. PICK c \in ch : c.id = f /\ c.packet = 0 /\ c.key
      BY <2>1 DEF IsKey, Of
    <3>2. f > checkpoint
      BY DEF IInv, Positions
    <3> QED BY <3>1, <3>2 DEF Tells
  <2>2. \A f : IsKey(chunks, f) => IsKey(ch, f)
    BY DEF IsKey, Of
  <2> QED BY <1>1, <2>1, <2>2 DEF KeysAhead
<1>3. KeysTold'
  BY <1>1, <1>2 DEF KeysTold, Tells
<1> QED BY <1>1, <1>2, <1>3, Waits

\* A delivery.
LEMMA DeliverRefines ==
  ASSUME IInv, KeysTold, NEW ch \in SUBSET Chunk, NEW from \in Int, from > checkpoint,
         highestFrameId' \in Int, highestFrameId' < next, Deliver(ch, from),
         \A c \in ch : c.id = c.origin, Tells(ch), \A c \in chunks : c.id >= from => c \in ch,
         Video /\ from > checkpoint + 1 => IsKey(ch, from),
         net' \subseteq net, UNCHANGED sender
  PROVE  KeysTold' /\ Stream!Next
<1> PICK to : to = checkpoint'
  OBVIOUS
<1>1. /\ to \in from .. highestFrameId' /\ last' = to /\ chunks' = {c \in ch : c.id > to}
      /\ out' = {c \in ch : c.id \in from .. to} /\ \A f \in from .. to : Whole(out', f)
  BY DeliverGives
<1>2. /\ UNCHANGED <<next, held, keys>> /\ last = checkpoint /\ checkpoint \in Int /\ checkpoint >= -1
      /\ next \in Int /\ to \in Int /\ from <= to /\ to < next
  BY <1>1 DEF sender, IInv, Positions
<1>3. \A c \in ch : c.id \in Int
  BY DEF Chunk, Frame
<1>4. ASSUME NEW f \in Int, f > checkpoint, IsKey(ch, f) PROVE f \in KeysAhead
  BY <1>4 DEF IsKey, Of, Tells
<1>5. KeysAhead' = {f \in KeysAhead : f > to}
  <2>1. ASSUME NEW f \in Int, f > to, f < next
        PROVE  (f \in keys \/ IsKey(chunks', f)) <=> f \in KeysAhead
    <3>1. f > checkpoint /\ f \in checkpoint + 1 .. next - 1
      BY <1>2, <2>1
    <3>2. IsKey(chunks', f) => IsKey(ch, f)
      BY <1>1 DEF IsKey, Of
    <3>3. IsKey(chunks, f) => IsKey(chunks', f)
      BY <1>1, <1>2, <2>1 DEF IsKey, Of
    <3> QED BY <1>4, <3>1, <3>2, <3>3 DEF KeysAhead
  <2>2. KeysAhead' = {f \in to + 1 .. next - 1 : f \in keys \/ IsKey(chunks', f)}
    BY <1>2 DEF KeysAhead
  <2>3. KeysAhead \subseteq checkpoint + 1 .. next - 1
    BY DEF KeysAhead
  <2>4. \A f : f \in to + 1 .. next - 1 <=> f \in Int /\ f > to /\ f < next
    BY <1>2
  <2>5. \A f \in KeysAhead : f \in Int /\ f < next
    BY <1>2, <2>3
  <2> QED BY <2>1, <2>2, <2>4, <2>5
<1>6. {<<c.origin, c.packet>> : c \in out'} = (from .. to) \X Packet
  <2>1. ASSUME NEW c \in out' PROVE c.origin \in from .. to /\ c.packet \in Packet
    BY <1>1 DEF Chunk
  <2>2. ASSUME NEW f \in from .. to, NEW k \in Packet
        PROVE  \E c \in out' : c.origin = f /\ c.packet = k
    BY <1>1 DEF Whole, Of
  <2> QED BY <2>1, <2>2
<1>7. Stream!HandOver(from, to)
  <2>1. Video /\ from > last + 1 => from \in KeysAhead
    BY <1>2, <1>4
  <2> QED BY <1>1, <1>2, <1>5, <1>6, <2>1 DEF Stream!HandOver
<1>8. from \in 0 .. next /\ to \in 0 .. next
  BY <1>2
<1>9. KeysTold'
  <2>1. \A c \in chunks' : c.id < next' /\ (c.id \in keys' => c.key)
    BY <1>1, <1>2 DEF Tells
  <2>2. ASSUME NEW p \in net', p.frame > to, p.key PROVE p.frame \in KeysAhead'
    <3>1. p \in net /\ p.frame \in Int
      BY DEF IInv, InFlight, Rtp, Frame
    <3>2. p.frame > checkpoint
      BY <1>2, <2>2, <3>1
    <3> QED BY <1>5, <2>2, <3>1, <3>2 DEF KeysTold
  <2> QED BY <1>2, <2>1, <2>2 DEF KeysTold
<1> QED BY <1>7, <1>8, <1>9 DEF Stream!Next

\* A packet arrives.
LEMMA HandleRtpRefines ==
  ASSUME IInv, KeysTold, NEW p \in net, NEW keep \in BOOLEAN, HandleRtp(p, keep)
  PROVE  KeysTold' /\ Stream!Next
<1> DEFINE id == p.frame
           new == [id |-> id, packet |-> p.packet, origin |-> p.frame, key |-> p.key]
           ch == IF \E c \in Of(chunks, id) : c.packet = p.packet THEN chunks ELSE chunks \union {new}
<1>1. /\ net' \subseteq net /\ UNCHANGED sender
      /\ \/ /\ Acceptable(id) /\ highestFrameId' = (IF id > highestFrameId THEN id ELSE highestFrameId)
            /\ id = checkpoint + 1 /\ Deliver(ch, id)
         \/ Acceptable(id) /\ Keep(ch)
         \/ Keep(chunks)
  BY FiledUnderItsFrame DEF HandleRtp
<1>2. /\ p \in Rtp /\ id \in Frame /\ id \in Int /\ id < next /\ next \in Int /\ checkpoint \in Int
      /\ highestFrameId \in Int /\ (highestFrameId < next \/ highestFrameId = 0) /\ id >= 0
      /\ chunks \in SUBSET Chunk /\ \A c \in chunks : c.id = c.origin
  BY DEF IInv, InFlight, Positions, Filed, ChunksFiledRight, Rtp, Frame
<1>3. new \in Chunk
  BY <1>2 DEF Chunk, Rtp
<1>4. ch \in SUBSET Chunk /\ chunks \subseteq ch /\ \A c \in ch : c.id = c.origin
  BY <1>2, <1>3
<1>5. Tells(ch)
  <2>1. Tells(chunks)
    BY WindowTells
  <2>2. new.id < next /\ (new.id \in keys => new.key) /\ (new.id > checkpoint /\ new.key => new.id \in KeysAhead)
    BY <1>2 DEF KeysTold
  <2> QED BY <2>1, <2>2 DEF Tells
<1> HIDE DEF ch, id
<1>6. CASE Keep(chunks)
  BY <1>1, <1>2, <1>6, WindowTells, KeepRefines DEF Keep
<1>7. CASE Keep(ch)
  BY <1>1, <1>4, <1>5, <1>7, KeepRefines DEF Keep
<1>8. CASE /\ highestFrameId' = (IF id > highestFrameId THEN id ELSE highestFrameId)
           /\ id = checkpoint + 1 /\ Deliver(ch, id)
  <2>1. highestFrameId' \in Int /\ highestFrameId' < next /\ id > checkpoint /\ ~(id > checkpoint + 1)
    BY <1>2, <1>8
  <2>2. \A c \in chunks : c.id >= id => c \in ch
    BY <1>4
  <2> QED BY <1>1, <1>2, <1>4, <1>5, <1>8, <2>1, <2>2, DeliverRefines
<1> QED BY <1>1, <1>6, <1>7, <1>8

\* The timer and the Sender Report: nothing is handed over, or a stall is skipped.
LEMMA TimeRefines ==
  ASSUME IInv, KeysTold, HandleSenderReport \/ \E limit, due \in BOOLEAN : OnTick(limit, due)
  PROVE  KeysTold' /\ Stream!Next
<1>1. UNCHANGED <<sender, net, highestFrameId>>
  BY DEF HandleSenderReport, OnTick
<1>2. CASE out' = {} /\ UNCHANGED <<chunks, checkpoint, last>>
  <2>1. chunks \in SUBSET Chunk
    BY DEF IInv, Filed
  <2> QED BY <1>1, <1>2, <2>1, WindowTells, KeepRefines
<1>3. ASSUME Blocked, NEW f \in checkpoint + 1 .. highestFrameId, Skip(f) PROVE KeysTold' /\ Stream!Next
  <2> DEFINE ch == {c \in chunks : c.id >= f}
  <2>1. Deliver(ch, f) /\ (Video => IsKey(chunks, f))
    BY <1>3 DEF Skip, Resumable
  <2>2. /\ checkpoint \in Int /\ checkpoint >= -1 /\ next \in Int /\ highestFrameId \in Int
        /\ highestFrameId < next \/ highestFrameId = 0
    BY DEF IInv, Positions
  <2>3. f \in Int /\ f > checkpoint /\ highestFrameId' \in Int /\ highestFrameId' < next
    BY <1>1, <1>3, <2>2 DEF Blocked
  <2>4. ch \in SUBSET Chunk /\ \A c \in ch : c.id = c.origin
    BY DEF IInv, Filed, ChunksFiledRight
  <2>5. IsKey(chunks, f) => IsKey(ch, f)
    BY <2>3 DEF IsKey, Of
  <2>6. Tells(ch)
    BY WindowTells DEF Tells
  <2>7. \A c \in chunks : c.id >= f => c \in ch
    OBVIOUS
  <2> HIDE DEF ch
  <2> QED BY <1>1, <2>1, <2>3, <2>4, <2>5, <2>6, <2>7, DeliverRefines
<1> QED BY <1>2, <1>3 DEF HandleSenderReport, OnTick, Keep

\* Nothing was sent, nothing shown.
LEMMA InitRefines == Init => KeysTold /\ Stream!Init
<1> SUFFICES ASSUME Init PROVE KeysTold /\ Stream!Init
  OBVIOUS
<1>1. next = 0 /\ last = -1 /\ checkpoint = -1 /\ keys = {} /\ held = {} /\ net = {} /\ chunks = {} /\ out = {}
  BY DEF Init
<1>2. KeysAhead = {}
  BY <1>1 DEF KeysAhead
<1> QED BY <1>1, <1>2 DEF KeysTold, Stream!Init

\* Each step maps to a step of FrameStream or to a stutter.
LEMMA StepRefines ==
  IInv /\ IInv' /\ KeysTold /\ [Next]_vars => KeysTold' /\ [Stream!Next]_(Stream!streamVars)
<1> SUFFICES ASSUME IInv, IInv', KeysTold, [Next]_vars
             PROVE  KeysTold' /\ [Stream!Next]_(Stream!streamVars)
  OBVIOUS
<1>1. CASE UNCHANGED vars
  BY <1>1 DEF vars, KeysTold, KeysAhead, Stream!streamVars
<1> QED BY <1>1, SendFrameRefines, ReceiveReportRefines, NetworkRefines, HandleRtpRefines, TimeRefines DEF Next

\* The decoder sees the frames as they were sent, but for those that were skipped:
\* losses, duplicates, reordering, truncated IDs and old reports leave no other trace.
THEOREM Refinement == Spec => ImplementsStream
BY InitRefines, StepRefines, Invariance, PTL DEF Spec, ImplementsStream, Stream!Spec

-----------------------------------------------------------------------------
(* Nothing waits for nobody: the safety half of HolesClose.                *)

\* A complete frame whose turn it is was delivered at once, and the newest frame
\* seen is in the window unless it was passed.
NothingReadyWaits ==
  /\ ~Complete(chunks, checkpoint + 1)
  /\ highestFrameId > checkpoint + 1 => \E c \in chunks : c.id = highestFrameId

\* What the receiver waits for: the sender can send it again, and as long as
\* something newer is there a report asks it to.
Askable ==
  /\ checkpoint + 1 < next => checkpoint + 1 \in held
  /\ Blocked =>
       /\ chunks # {}
       /\ \E k \in Packet :
            <<(checkpoint + 1) % Modulus, k>> \in Losses(chunks, checkpoint, highestFrameId)

\* The newest frame outlives a delivery that ends before it.
LEMMA NewestStays ==
  ASSUME NEW ch, NEW from \in Int, NEW to \in Int, NEW h \in Int, from <= to,
         h > from => \E c \in ch : c.id = h
  PROVE  h > to + 1 => \E c \in {d \in ch : d.id > to} : c.id = h
<1>1. h > to + 1 => h > to /\ h > from
  OBVIOUS
<1> QED BY <1>1

\* A delivery stops before a frame that is not ready.
LEMMA DeliverLeavesNothingReady ==
  ASSUME IInv, NothingReadyWaits, NEW ch \in SUBSET Chunk, NEW from \in Int, from > checkpoint,
         highestFrameId' \in Int, Deliver(ch, from),
         highestFrameId' > from => \E c \in ch : c.id = highestFrameId'
  PROVE  NothingReadyWaits'
<1>1. PICK to \in from .. highestFrameId' :
        ~Complete(ch, to + 1) /\ chunks' = {c \in ch : c.id > to} /\ checkpoint' = to
  BY DEF Deliver, HandOver
<1>2. to \in Int /\ from <= to
  BY <1>1
<1>3. ~Complete(chunks', to + 1)
  <2> SUFFICES ASSUME Complete(chunks', to + 1) PROVE Complete(ch, to + 1)
    BY <1>1
  <2> QED BY <1>1 DEF Complete, Of
<1>4. highestFrameId' > to + 1 => \E c \in chunks' : c.id = highestFrameId'
  BY <1>1, <1>2, NewestStays
<1> QED BY <1>1, <1>3, <1>4 DEF NothingReadyWaits

\* A packet arrives.
LEMMA HandleRtpWaits ==
  ASSUME IInv, NothingReadyWaits, NEW p \in net, NEW keep \in BOOLEAN, HandleRtp(p, keep)
  PROVE  NothingReadyWaits'
<1> DEFINE id == p.frame
           new == [id |-> id, packet |-> p.packet, origin |-> p.frame, key |-> p.key]
           dup == \E c \in Of(chunks, id) : c.packet = p.packet
           ch == IF dup THEN chunks ELSE chunks \union {new}
<1>1. IF Acceptable(id)
      THEN /\ highestFrameId' = IF id > highestFrameId THEN id ELSE highestFrameId
           /\ IF ~dup /\ Complete(ch, id) /\ id = checkpoint + 1
              THEN Deliver(ch, id)
              ELSE Keep(ch)
      ELSE Keep(chunks) /\ UNCHANGED highestFrameId
  BY FiledUnderItsFrame DEF HandleRtp
<1>2. /\ p \in Rtp /\ id \in Frame /\ id \in Int /\ checkpoint \in Int /\ highestFrameId \in Int
      /\ chunks \in SUBSET Chunk
  BY DEF IInv, InFlight, Positions, Filed, Rtp, Frame
<1>3. ch \in SUBSET Chunk /\ chunks \subseteq ch /\ \E c \in ch : c.id = id
  <2>1. new \in Chunk
    BY <1>2 DEF Chunk, Rtp
  <2> QED BY <1>2, <2>1 DEF Of
<1>4. CASE Acceptable(id)
  <2>1. highestFrameId' = (IF id > highestFrameId THEN id ELSE highestFrameId)
    BY <1>1, <1>4
  <2>2. highestFrameId' > checkpoint + 1 => \E c \in ch : c.id = highestFrameId'
    BY <1>2, <1>3, <2>1 DEF NothingReadyWaits
  <2>3. CASE id = checkpoint + 1 /\ Deliver(ch, id)
    <3>1. highestFrameId' \in Int
      BY <1>2, <2>1
    <3> HIDE DEF ch, id
    <3> QED BY <1>2, <1>3, <2>2, <2>3, <3>1, DeliverLeavesNothingReady
  <2>4. CASE Keep(ch) /\ ~(~dup /\ Complete(ch, id) /\ id = checkpoint + 1)
    <3>1. ~Complete(ch, checkpoint + 1)
      <4>1. CASE dup
        BY <4>1 DEF NothingReadyWaits
      <4>2. CASE id = checkpoint + 1 /\ ~dup
        BY <2>4, <4>2
      <4>3. CASE id # checkpoint + 1 /\ ~dup
        <5>1. Of(ch, checkpoint + 1) = Of(chunks, checkpoint + 1)
          BY <4>3 DEF Of
        <5> QED BY <5>1 DEF NothingReadyWaits, Complete
      <4> QED BY <4>1, <4>2, <4>3
    <3> QED BY <2>2, <2>4, <3>1 DEF Keep, NothingReadyWaits
  <2> QED BY <1>1, <1>4, <2>3, <2>4
<1>5. CASE ~Acceptable(id)
  BY <1>1, <1>5 DEF Keep, NothingReadyWaits
<1> QED BY <1>4, <1>5

\* The timer skips, or touches nothing.
LEMMA OnTickWaits ==
  ASSUME IInv, NothingReadyWaits, NEW limit \in BOOLEAN, NEW due \in BOOLEAN, OnTick(limit, due)
  PROVE  NothingReadyWaits'
<1>1. highestFrameId' = highestFrameId
  BY DEF OnTick
<1>2. CASE UNCHANGED <<chunks, checkpoint>>
  BY <1>1, <1>2 DEF NothingReadyWaits
<1>3. ASSUME Blocked, NEW f \in checkpoint + 1 .. highestFrameId, Skip(f) PROVE NothingReadyWaits'
  <2> DEFINE ch == {c \in chunks : c.id >= f}
  <2>1. Deliver(ch, f)
    BY <1>3 DEF Skip
  <2>2. checkpoint \in Int /\ highestFrameId \in Int /\ f \in Int /\ f > checkpoint /\ f <= highestFrameId
    BY DEF IInv, Positions
  <2>3. ch \in SUBSET Chunk
    BY DEF IInv, Filed
  <2>4. \E c \in ch : c.id = highestFrameId
    BY <1>3, <2>2 DEF NothingReadyWaits, Blocked
  <2> HIDE DEF ch
  <2> QED BY <1>1, <2>1, <2>2, <2>3, <2>4, DeliverLeavesNothingReady
<1> QED BY <1>2, <1>3 DEF OnTick, Keep

\* It is an invariant.
LEMMA NothingReadyWaitsAlways == Spec => []NothingReadyWaits
<1>1. Init => NothingReadyWaits
  <2>1. 0 \in Packet
    BY ReceiverAssumption DEF Packet
  <2> QED BY <2>1 DEF Init, NothingReadyWaits, Complete, Of
<1>2. IInv /\ NothingReadyWaits /\ [Next]_vars => NothingReadyWaits'
  <2> SUFFICES ASSUME IInv, NothingReadyWaits, [Next]_vars PROVE NothingReadyWaits'
    OBVIOUS
  <2>1. CASE UNCHANGED <<chunks, checkpoint, highestFrameId>>
    BY <2>1 DEF NothingReadyWaits
  <2> QED BY <2>1, HandleRtpWaits, OnTickWaits
          DEF Next, SendFrame, ReceiveReport, Kickstart, Lose, HandleSenderReport, Keep, vars, receiver
<1> QED BY <1>1, <1>2, Invariance, PTL DEF Spec

\* The safety half of HolesClose and WindowReopens: a frame the receiver waits for
\* is never complete already, is still held by the sender, and while newer ones
\* arrive every report names a packet of it; so what the fairness assumes, that
\* reports are read and packets arrive some time, is all that delivery needs.  It
\* also shows that skipStalledFrames() never meets an empty window when Blocked.
THEOREM HolesCanClose == Spec => [](NothingReadyWaits /\ Askable)
<1>1. IInv /\ NothingReadyWaits => Askable
  <2> SUFFICES ASSUME IInv, NothingReadyWaits PROVE Askable
    OBVIOUS
  <2>1. checkpoint \in Int /\ next \in Int /\ highestFrameId \in Int /\ chunks \in SUBSET Chunk
    BY DEF IInv, Positions, Filed
  <2>2. checkpoint + 1 < next => checkpoint + 1 \in held
    <3>1. ~Whole(chunks, checkpoint + 1)
      BY <2>1, WholeIsComplete DEF NothingReadyWaits
    <3> QED BY <2>1, <3>1 DEF IInv, SenderHoldsWhatIsMissing
  <2>3. ASSUME Blocked
        PROVE  \E k \in Packet :
                 <<(checkpoint + 1) % Modulus, k>> \in Losses(chunks, checkpoint, highestFrameId)
    <3> DEFINE missing == {f \in checkpoint + 1 .. highestFrameId - 1 : ~Complete(chunks, f)}
               before == {g \in missing : g < checkpoint + 1}
               listed == {f \in missing : Cardinality({g \in missing : g < f}) < MaxLosses}
    <3>1. checkpoint + 1 \in missing
      BY <2>1, <2>3 DEF Blocked
    <3>2. before = {}
      BY <2>1
    <3>3. Cardinality(before) < MaxLosses
      BY <3>2, FS_EmptySet, ReceiverAssumption
    <3>4. checkpoint + 1 \in listed
      BY <3>1, <3>3
    <3>5. PICK k \in Packet : k \in MissingFrom(chunks, checkpoint + 1)
      BY <2>3 DEF Blocked, Complete, MissingFrom
    <3>6. <<(checkpoint + 1) % Modulus, k>> \in {<<(checkpoint + 1) % Modulus, q>> : q \in MissingFrom(chunks, checkpoint + 1)}
      BY <3>5
    <3>7. Losses(chunks, checkpoint, highestFrameId)
            = UNION {{<<f % Modulus, q>> : q \in MissingFrom(chunks, f)} : f \in listed}
      BY DEF Losses, LossesOver
    <3> HIDE DEF listed
    <3> QED BY <3>4, <3>6, <3>7
  <2>4. Blocked => chunks # {}
    BY DEF NothingReadyWaits, Blocked
  <2> QED BY <2>2, <2>3, <2>4 DEF Askable
<1> QED BY <1>1, Invariance, NothingReadyWaitsAlways, PTL

-----------------------------------------------------------------------------
(* Types.                                                                  *)

ReportType ==
  [checkpoint : 0 .. Modulus - 1, acks : SUBSET (0 .. AckBits - 1),
   losses : SUBSET ((0 .. Modulus - 1) \X Packet), pli : BOOLEAN, sent : BOOLEAN]

\* What IInv and KeysTold leave open of TypeOK.
Flags ==
  /\ wantKey \in BOOLEAN /\ senderKnown \in BOOLEAN /\ pliPending \in BOOLEAN /\ stalled \in BOOLEAN
  /\ feedback \in ReportType
  /\ out \subseteq Chunk

\* A truncated number fits.
LEMMA Truncated == \A x \in Int : x % Modulus \in 0 .. Modulus - 1
<1>1. Modulus \in Nat /\ Modulus > 0
  BY ReceiverAssumption
<1> QED BY <1>1, Division

\* A report fits its packet.
LEMMA ReportFits ==
  ASSUME NEW ch, NEW cp \in Int, NEW highest \in Int, NEW pli \in BOOLEAN
  PROVE  Report(ch, cp, highest, pli) \in ReportType
<1>1. Acks(ch, cp) \subseteq 0 .. AckBits - 1
  BY DEF Acks
<1>2. Losses(ch, cp, highest) \subseteq (0 .. Modulus - 1) \X Packet
  <2> DEFINE missing == {f \in cp + 1 .. highest - 1 : ~Complete(ch, f)}
             listed == {f \in missing : Cardinality({g \in missing : g < f}) < MaxLosses}
             Named(f) == {<<f % Modulus, p>> : p \in MissingFrom(ch, f)}
  <2>1. \A f \in listed : f \in Int
    OBVIOUS
  <2>2. ASSUME NEW f \in Int PROVE Named(f) \subseteq (0 .. Modulus - 1) \X Packet
    <3>1. f % Modulus \in 0 .. Modulus - 1
      BY Truncated
    <3>2. MissingFrom(ch, f) \subseteq Packet
      BY DEF MissingFrom
    <3> QED BY <3>1, <3>2
  <2>3. Losses(ch, cp, highest) = UNION {Named(f) : f \in listed}
    BY DEF Losses, LossesOver
  <2> HIDE DEF listed, Named
  <2> QED BY <2>1, <2>2, <2>3
<1>3. cp % Modulus \in 0 .. Modulus - 1
  BY Truncated
<1> QED BY <1>1, <1>2, <1>3 DEF Report, ReportType

\* A step of the receiver reports or not.
LEMMA RtcpFits ==
  ASSUME Flags, SendRtcp \/ UNCHANGED feedback,
         checkpoint' \in Int, highestFrameId' \in Int, pliPending' \in BOOLEAN
  PROVE  feedback' \in ReportType
BY ReportFits DEF Flags, SendRtcp

\* A delivery.
LEMMA DeliverFits ==
  ASSUME Flags, NEW ch \in SUBSET Chunk, NEW from, Deliver(ch, from)
  PROVE  pliPending' \in BOOLEAN /\ stalled' \in BOOLEAN /\ out' \subseteq Chunk
BY DEF Deliver, HandOver, Flags

\* A packet.
LEMMA HandleRtpFits ==
  ASSUME IInv, IInv', Flags, NEW p \in net, NEW keep \in BOOLEAN, HandleRtp(p, keep)
  PROVE  Flags'
<1> DEFINE id == p.frame
           new == [id |-> id, packet |-> p.packet, origin |-> p.frame, key |-> p.key]
           ch == IF \E c \in Of(chunks, id) : c.packet = p.packet THEN chunks ELSE chunks \union {new}
<1>1. /\ senderKnown' = TRUE /\ UNCHANGED sender /\ (SendRtcp \/ UNCHANGED feedback)
      /\ Deliver(ch, id) \/ Keep(ch) \/ Keep(chunks)
  BY FiledUnderItsFrame DEF HandleRtp
<1>2. p \in Rtp /\ chunks \in SUBSET Chunk /\ checkpoint' \in Int /\ highestFrameId' \in Int
  BY DEF IInv, InFlight, Positions, Filed
<1>3. ch \in SUBSET Chunk
  <2>1. new \in Chunk
    BY <1>2 DEF Chunk, Rtp
  <2> QED BY <1>2, <2>1
<1> HIDE DEF ch, id
<1>4. pliPending' \in BOOLEAN /\ stalled' \in BOOLEAN /\ out' \subseteq Chunk
  BY <1>1, <1>3, DeliverFits DEF Keep, Flags
<1>5. feedback' \in ReportType
  BY <1>1, <1>2, <1>4, RtcpFits
<1> QED BY <1>1, <1>4, <1>5 DEF Flags, sender

\* The timer and the Sender Report.
LEMMA TimeFits ==
  ASSUME IInv, IInv', Flags, HandleSenderReport \/ \E limit, due \in BOOLEAN : OnTick(limit, due)
  PROVE  Flags'
<1>1. /\ UNCHANGED sender /\ (SendRtcp \/ UNCHANGED feedback)
      /\ senderKnown' = TRUE \/ UNCHANGED senderKnown
  BY DEF HandleSenderReport, OnTick, Skip, Periodic
<1>2. checkpoint' \in Int /\ highestFrameId' \in Int /\ chunks \in SUBSET Chunk
  BY DEF IInv, Positions, Filed
<1>3. pliPending' \in BOOLEAN /\ stalled' \in BOOLEAN /\ out' \subseteq Chunk
  <2>1. CASE HandleSenderReport
    BY <2>1 DEF HandleSenderReport, Keep, Flags
  <2>2. ASSUME NEW limit \in BOOLEAN, NEW due \in BOOLEAN, OnTick(limit, due)
        PROVE  pliPending' \in BOOLEAN /\ stalled' \in BOOLEAN /\ out' \subseteq Chunk
    <3>1. ASSUME NEW f, Skip(f) PROVE pliPending' \in BOOLEAN /\ stalled' \in BOOLEAN /\ out' \subseteq Chunk
      <4> DEFINE ch == {c \in chunks : c.id >= f}
      <4>1. Deliver(ch, f)
        BY <3>1 DEF Skip
      <4>2. ch \in SUBSET Chunk
        BY <1>2
      <4> HIDE DEF ch
      <4> QED BY <4>1, <4>2, DeliverFits
    <3>2. \/ \E f : Skip(f)
          \/ /\ out' = {}
             /\ stalled' \in {Blocked, stalled}
             /\ pliPending' \in {pliPending, pliPending \/ Video}
      BY <2>2 DEF OnTick, Keep
    <3> QED BY <3>1, <3>2, ReceiverAssumption DEF Flags, Blocked
  <2> QED BY <2>1, <2>2
<1>4. feedback' \in ReportType
  BY <1>1, <1>2, <1>3, RtcpFits
<1> QED BY <1>1, <1>3, <1>4 DEF Flags, sender

\* The sender and the network.
LEMMA SenderFits ==
  ASSUME Flags, (\E key \in BOOLEAN : SendFrame(key)) \/ ReceiveReport \/ Kickstart \/ \E p \in net : Lose(p)
  PROVE  Flags'
<1>1. UNCHANGED <<feedback, senderKnown, pliPending, stalled>> /\ out' = {}
  BY DEF SendFrame, ReceiveReport, Kickstart, Lose, receiver
<1>2. wantKey' \in BOOLEAN
  BY DEF SendFrame, ReceiveReport, Kickstart, Lose, sender, Flags
<1> QED BY <1>1, <1>2 DEF Flags

\* Every variable keeps its type: a checkpoint fits the eight bits it is sent in, and
\* only packets of frames are named as lost.
THEOREM TypeCorrect == Spec => []TypeOK
<1>1. Init => Flags
  <2> SUFFICES ASSUME Init PROVE Flags
    OBVIOUS
  <2>1. NoReport \in ReportType
    BY ReceiverAssumption DEF NoReport, ReportType
  <2> QED BY <2>1 DEF Init, Flags
<1>2. IInv /\ IInv' /\ Flags /\ [Next]_vars => Flags'
  <2> SUFFICES ASSUME IInv, IInv', Flags, [Next]_vars PROVE Flags'
    OBVIOUS
  <2>1. CASE UNCHANGED vars
    BY <2>1 DEF vars, Flags
  <2> QED BY <2>1, HandleRtpFits, TimeFits, SenderFits DEF Next
<1>3. IInv /\ KeysTold /\ Flags => TypeOK
  <2> SUFFICES ASSUME IInv, KeysTold, Flags PROVE TypeOK
    OBVIOUS
  <2>1. /\ next \in 0 .. MaxFrame + 1 /\ acked \in -1 .. MaxFrame /\ checkpoint \in -1 .. MaxFrame
        /\ highestFrameId \in Frame /\ last \in -1 .. MaxFrame
    BY ReceiverAssumption DEF IInv, Positions, Frame
  <2>2. held \subseteq Frame /\ keys \subseteq Frame /\ net \subseteq Rtp /\ chunks \subseteq Chunk
    BY DEF IInv, Holding, InFlight, Filed, KeysTold
  <2> QED BY <2>1, <2>2 DEF Flags, ReportType, TypeOK
<1> QED BY <1>1, <1>2, <1>3, InitRefines, StepRefines, Invariance, PTL DEF Spec
=============================================================================
