---------------------------- MODULE AirShowProofs ----------------------------
(***************************************************************************)
(* For any number of clients: the connection AirShowHandler leaves open is *)
(* the one it serves, and the HUD names an AirShow client only while that  *)
(* client streams.  What the buffers contain plays no part in it.          *)
(*                                                                         *)
(* Then the bytes: however TCP cuts them, the frames are those sent, whole *)
(* and in order, and none waits for the next read; and no greeting is left *)
(* that nobody would read.                                                 *)
(*                                                                         *)
(* Then SenderSession, the app at the other end: it returns to Idle, its   *)
(* spinners have something that ends them, and no service comes unasked.   *)
(***************************************************************************)
EXTENDS AirShowSession, SenderSession, SequenceTheorems, FiniteSetTheorems, TLAPS

USE AirShowAssumption

\* m_client is open, and it was acknowledged exactly if m_state says so; before
\* a connection is served it was not.
Served ==
  /\ conn \in [Client -> {"new", "waiting", "open", "closed"}]
  /\ client \in Client \union {NoClient}
  /\ client # NoClient => conn[client] = "open" /\ (client \in acked <=> state = "Streaming")
  /\ \A c \in Client : conn[c] = "open" => client = c
  /\ \A c \in Client : conn[c] \in {"new", "waiting"} => c \notin acked

IInv == Served /\ HudNamesStreamer

\* What the session looks like to the rest of the program.
face == <<conn, acked, client, state, hud>>

\* Nobody is connected.
LEMMA InitOK == Init => IInv
  BY DEF Init, IInv, Served, HudNamesStreamer

\* A step that changes none of it.
LEMMA FaceKeeps == ASSUME IInv, UNCHANGED face PROVE IInv'
  BY DEF face, IInv, Served, HudNamesStreamer

\* disconnectClient() leaves nobody open and nobody on the HUD.
LEMMA DropKeeps ==
  ASSUME IInv, client # NoClient, DisconnectClient, UNCHANGED acked PROVE IInv'
<1>1. /\ conn' = [c \in Client |-> IF c = client THEN "closed" ELSE conn[c]]
      /\ client' = NoClient /\ hud' = NoClient
  BY DEF DisconnectClient, Released, Hung
<1>2. Served'
  BY <1>1 DEF IInv, Served
<1> QED BY <1>1, <1>2 DEF IInv, HudNamesStreamer

\* A connection that waits is not served.
LEMMA ConnectKeeps == ASSUME IInv, NEW c \in Client, Connect(c) PROVE IInv'
  BY DEF Connect, session, shared, IInv, Served, HudNamesStreamer

\* What a client sends, the handler has not read.
LEMMA SendKeeps == ASSUME IInv, NEW c \in Client, Send(c) PROVE IInv'
  BY FaceKeeps DEF Send, session, shared, face

\* The newcomer is the only one open, whoever was before.
LEMMA NewConnectionKeeps == ASSUME IInv, NEW c \in Client, OnNewConnection(c) PROVE IInv'
<1>1. /\ client' = c /\ state' = "Handshake" /\ conn[c] = "waiting" /\ acked' = acked
      /\ conn' = [d \in Client |-> IF d = c THEN "open" ELSE IF d = client THEN "closed" ELSE conn[d]]
  BY DEF OnNewConnection, FirstState, Hung
<1>2. Served'
  BY <1>1 DEF IInv, Served
<1>3. HudNamesStreamer'
  <2>1. CASE client = NoClient
    BY <2>1, <1>1 DEF OnNewConnection, IInv, HudNamesStreamer, Served
  <2>2. CASE client # NoClient
    BY <2>2 DEF OnNewConnection, Released, HudNamesStreamer
  <2> QED BY <2>1, <2>2
<1> QED BY <1>2, <1>3 DEF IInv

\* A read changes the session by a greeting or a rejection only.
LEMMA ReadKeeps == ASSUME IInv, OnReadyRead PROVE IInv'
<1>1. client \in Client
  BY DEF OnReadyRead, IInv, Served
<1>2. PICK bytes :
        \/ UNCHANGED <<conn, acked, client, state, hud>>
        \/ Greeted(bytes) /\ UNCHANGED <<conn, client>>
        \/ DisconnectClient /\ UNCHANGED acked
  BY DEF OnReadyRead
<1>3. CASE UNCHANGED <<conn, acked, client, state, hud>>
  BY <1>3, FaceKeeps DEF face
<1>4. CASE Greeted(bytes) /\ UNCHANGED <<conn, client>>
  <2>1. acked' = acked \union {client} /\ state' = "Streaming" /\ hud' = client
    BY <1>4 DEF Greeted
  <2> QED BY <1>1, <1>4, <2>1 DEF IInv, Served, HudNamesStreamer
<1>5. CASE DisconnectClient /\ UNCHANGED acked
  BY <1>1, <1>5, DropKeeps
<1> QED BY <1>2, <1>3, <1>4, <1>5

\* stop() closes what is open and leaves nobody.
LEMMA StopKeeps == ASSUME IInv, Stop PROVE IInv'
<1>1. /\ conn' = [c \in Client |-> IF conn[c] = "new" THEN "new" ELSE "closed"]
      /\ client' = NoClient /\ acked' = acked
  BY DEF Stop
<1>2. Served'
  BY <1>1 DEF IInv, Served
<1>3. HudNamesStreamer'
  BY DEF Stop, Released, IInv, HudNamesStreamer
<1> QED BY <1>2, <1>3 DEF IInv

\* Other parts of the program may overwrite the HUD, but name no AirShow client.
LEMMA OthersKeep == ASSUME IInv, WindowReady \/ OtherStarts \/ OtherEnds PROVE IInv'
<1>1. UNCHANGED <<conn, acked, client, state>> /\ (hud' = hud \/ hud' = Other \/ hud' = NoClient)
  BY DEF WindowReady, OtherStarts, OtherEnds, net, session
<1> QED BY <1>1 DEF IInv, Served, HudNamesStreamer

\* No step breaks the invariant.
LEMMA StepKeeps == ASSUME IInv, [Next]_vars PROVE IInv'
<1>1. CASE UNCHANGED vars
  BY <1>1, FaceKeeps DEF vars, net, session, shared, face
<1>2. CASE OnDisconnected
  BY <1>2, DropKeeps DEF OnDisconnected
<1> QED BY <1>1, <1>2, ConnectKeeps, SendKeeps, NewConnectionKeeps, ReadKeeps, StopKeeps,
           OthersKeep DEF Next

\* Every reachable state satisfies the invariant.
THEOREM Invariance == Spec => []IInv
  BY InitOK, StepKeeps, PTL DEF Spec

\* Single session, for any number of clients (AirShowHandler.h:35): the connection
\* that onNewConnection() and disconnectClient() leave open is the one served.
THEOREM SingleSession == Spec => []OpenIsServed
<1>1. IInv => OpenIsServed
  BY DEF IInv, Served, OpenIsServed
<1> QED BY <1>1, Invariance, PTL

\* The HUD names an AirShow client only while it streams.
THEOREM HudIsTrue == Spec => []HudNamesStreamer
  BY Invariance, PTL DEF IInv

-----------------------------------------------------------------------------
(* The bytes.                                                              *)

\* The k-th piece that c sends, counted from 0.
PieceAt(c, k) == <<c, k \div 2, (k % 2) + 1>>

\* q is what c sends from its k-th piece on.
Stretch(q, c, k) == \A i \in 1 .. Len(q) : q[i] = PieceAt(c, k + i - 1)

Typed ==
  /\ sent \in [Client -> Nat] /\ wire \in [Client -> Seq(Piece)]
  /\ buffer \in Seq(Piece) /\ frames \in [Client -> Seq(Seq(Piece))]

\* TCP keeps the order: the handler reads on where it stopped.
OnWire ==
  \A c \in Client :
    /\ conn[c] # "closed" =>
         Len(wire[c]) <= sent[c] /\ Stretch(wire[c], c, sent[c] - Len(wire[c]))
    /\ conn[c] = "new" => sent[c] = 0
    /\ conn[c] \in {"new", "waiting"} => sent[c] = Len(wire[c]) /\ frames[c] = <<>>

\* The buffer begins at the greeting, or at the first piece of the frame that is next,
\* and holds no more than it must.
Start == sent[client] - (Len(wire[client]) + Len(buffer))

InBuffer ==
  /\ client = NoClient => state = "Idle"
  /\ client # NoClient =>
       /\ Start \in Nat /\ Stretch(buffer, client, Start)
       /\ \/ state = "Handshake" /\ Start = 0 /\ frames[client] = <<>> /\ NoLine(buffer)
          \/ state = "Streaming" /\ Start = 2 * (Len(frames[client]) + 1) /\ Len(buffer) < 2

BInv == IInv /\ Typed /\ OnWire /\ InBuffer /\ FramesAreWhole

\* The greeting is pieces 0 and 1, frame j is pieces 2 * j and 2 * j + 1.
LEMMA PieceNumbers ==
  ASSUME NEW c, NEW k \in Nat
  PROVE  /\ EndsLine(PieceAt(c, k)) <=> k = 1
         /\ PieceAt(c, 2 * k) = <<c, k, 1>>
         /\ PieceAt(c, 2 * k + 1) = <<c, k, 2>>
<1>1. /\ (2 * k) \div 2 = k /\ (2 * k) % 2 = 0
      /\ (2 * k + 1) \div 2 = k /\ (2 * k + 1) % 2 = 1
  OBVIOUS
<1>2. k \div 2 = 0 /\ (k % 2) + 1 = 2 <=> k = 1
  OBVIOUS
<1> QED BY <1>1, <1>2 DEF PieceAt, EndsLine

\* A stretch and the one that follows it make one.
LEMMA StretchConcat ==
  ASSUME NEW p \in Seq(Piece), NEW q \in Seq(Piece), NEW c, NEW k \in Nat,
         Stretch(p, c, k), Stretch(q, c, k + Len(p))
  PROVE  p \o q \in Seq(Piece) /\ Len(p \o q) = Len(p) + Len(q) /\ Stretch(p \o q, c, k)
<1>1. /\ p \o q \in Seq(Piece) /\ Len(p \o q) = Len(p) + Len(q) /\ Len(p) \in Nat /\ Len(q) \in Nat
      /\ \A i \in 1 .. Len(p) + Len(q) : (p \o q)[i] = IF i <= Len(p) THEN p[i] ELSE q[i - Len(p)]
  BY ConcatProperties
<1>2. ASSUME NEW i \in 1 .. Len(p) + Len(q) PROVE (p \o q)[i] = PieceAt(c, k + i - 1)
  <2>1. CASE i <= Len(p)
    BY <1>1, <2>1 DEF Stretch
  <2>2. CASE ~(i <= Len(p))
    <3>1. i - Len(p) \in 1 .. Len(q) /\ k + Len(p) + (i - Len(p)) - 1 = k + i - 1
      BY <1>1, <2>2
    <3>2. q[i - Len(p)] = PieceAt(c, k + Len(p) + (i - Len(p)) - 1)
      BY <3>1 DEF Stretch
    <3> QED BY <1>1, <2>2, <3>1, <3>2
  <2> QED BY <2>1, <2>2
<1> QED BY <1>1, <1>2 DEF Stretch

\* Part of a stretch is one.
LEMMA StretchSub ==
  ASSUME NEW q \in Seq(Piece), NEW c, NEW k \in Nat, Stretch(q, c, k),
         NEW m \in Nat, NEW n \in Nat, 1 <= m, m <= n + 1, n <= Len(q)
  PROVE  /\ SubSeq(q, m, n) \in Seq(Piece) /\ Len(SubSeq(q, m, n)) = n - m + 1
         /\ Stretch(SubSeq(q, m, n), c, k + m - 1)
<1>1. /\ SubSeq(q, m, n) \in Seq(Piece) /\ Len(SubSeq(q, m, n)) = n - m + 1
      /\ \A i \in 1 .. n - m + 1 : SubSeq(q, m, n)[i] = q[m + i - 1]
  <2>1. Len(q) \in Nat /\ \A i \in m .. n : q[i] \in Piece
    OBVIOUS
  <2>2. Len(SubSeq(q, m, n)) = IF m <= n THEN n - m + 1 ELSE 0
    BY <2>1, SubSeqProperties
  <2> QED BY <2>1, <2>2, SubSeqProperties
<1>2. ASSUME NEW i \in 1 .. n - m + 1 PROVE SubSeq(q, m, n)[i] = PieceAt(c, k + m - 1 + i - 1)
  <2>1. m + i - 1 \in 1 .. Len(q) /\ k + (m + i - 1) - 1 = k + m - 1 + i - 1
    OBVIOUS
  <2>2. q[m + i - 1] = PieceAt(c, k + (m + i - 1) - 1)
    BY <2>1 DEF Stretch
  <2> QED BY <1>1, <2>1, <2>2
<1> QED BY <1>1, <1>2 DEF Stretch

\* What follows the first n pieces of a stretch is one.
LEMMA StretchTail ==
  ASSUME NEW q \in Seq(Piece), NEW c, NEW k \in Nat, Stretch(q, c, k), NEW n \in Nat, n <= Len(q)
  PROVE  /\ SubSeq(q, n + 1, Len(q)) \in Seq(Piece) /\ Len(SubSeq(q, n + 1, Len(q))) = Len(q) - n
         /\ Stretch(SubSeq(q, n + 1, Len(q)), c, k + n)
<1> PICK z \in Nat, m \in Nat : z = Len(q) /\ m = n + 1
  OBVIOUS
<1>1. 1 <= m /\ m <= z + 1 /\ z <= Len(q) /\ z - m + 1 = Len(q) - n /\ k + m - 1 = k + n
  OBVIOUS
<1>2. /\ SubSeq(q, m, z) \in Seq(Piece) /\ Len(SubSeq(q, m, z)) = z - m + 1
      /\ Stretch(SubSeq(q, m, z), c, k + m - 1)
  BY <1>1, StretchSub
<1> QED BY <1>1, <1>2

\* Two pieces from an even number on are one frame.
LEMMA TwoPieces ==
  ASSUME NEW s \in Seq(Piece), Len(s) = 2, NEW c, NEW j \in Nat, Stretch(s, c, 2 * j)
  PROVE  s = <<<<c, j, 1>>, <<c, j, 2>>>>
<1> DEFINE a == <<c, j, 1>>
           b == <<c, j, 2>>
<1>1. PICK k \in Nat : k = 2 * j
  OBVIOUS
<1>2. s[1] = PieceAt(c, k) /\ s[2] = PieceAt(c, k + 1)
  <2>1. 1 \in 1 .. Len(s) /\ 2 \in 1 .. Len(s) /\ k + 1 - 1 = k /\ k + 2 - 1 = k + 1
    BY <1>1
  <2>2. Stretch(s, c, k)
    BY <1>1
  <2>3. s[1] = PieceAt(c, k + 1 - 1) /\ s[2] = PieceAt(c, k + 2 - 1)
    BY <2>1, <2>2 DEF Stretch
  <2> QED BY <2>1, <2>3
<1>3. s[1] = a /\ s[2] = b
  BY <1>1, <1>2, PieceNumbers
<1> HIDE DEF a, b
<1>4. a \in Piece /\ b \in Piece
  BY <1>3
<1>5. <<a, b>> \in Seq(Piece) /\ Len(<<a, b>>) = 2 /\ <<a, b>>[1] = a /\ <<a, b>>[2] = b
  BY <1>4
<1>6. \A i \in 1 .. Len(s) : s[i] = <<a, b>>[i]
  BY <1>3, <1>5
<1>7. s = <<a, b>>
  BY <1>5, <1>6, SeqEqual
<1> QED BY <1>7 DEF a, b

\* handleStreamingData() on bytes that begin with the next frame: it hands over that
\* frame and those after it, and leaves less than a frame.
LEMMA StreamingGives ==
  ASSUME NEW bytes \in Seq(Piece), client \in Client, frames \in [Client -> Seq(Seq(Piece))],
         FramesAreWhole, Stretch(bytes, client, 2 * (Len(frames[client]) + 1)),
         HandleStreamingData(bytes)
  PROVE  /\ buffer' \in Seq(Piece) /\ Len(buffer') < 2
         /\ frames' \in [Client -> Seq(Seq(Piece))] /\ \A d \in Client : d # client => frames'[d] = frames[d]
         /\ Stretch(buffer', client, 2 * (Len(frames'[client]) + 1))
         /\ 2 * Len(frames'[client]) + Len(buffer') = 2 * Len(frames[client]) + Len(bytes)
         /\ FramesAreWhole'
<1> PICK c : c = client
  OBVIOUS
<1> DEFINE w == Len(bytes) \div 2
           f == frames[c]
           fresh == [i \in 1 .. w |-> SubSeq(bytes, 2 * i - 1, 2 * i)]
<1>1. /\ w \in Nat /\ Len(bytes) \in Nat /\ 2 * w <= Len(bytes) /\ Len(bytes) < 2 * w + 2
      /\ f \in Seq(Seq(Piece)) /\ Len(f) \in Nat /\ c \in Client
  OBVIOUS
<1>2. /\ buffer' = SubSeq(bytes, 2 * w + 1, Len(bytes))
      /\ frames' = [frames EXCEPT ![c] = f \o fresh]
  BY DEF HandleStreamingData, Whole, Frame
<1>3. ASSUME NEW i \in 1 .. w
      PROVE  /\ SubSeq(bytes, 2 * i - 1, 2 * i) \in Seq(Piece)
             /\ SubSeq(bytes, 2 * i - 1, 2 * i) = <<<<c, Len(f) + i, 1>>, <<c, Len(f) + i, 2>>>>
  <2> DEFINE j == Len(f) + i
             s == SubSeq(bytes, 2 * i - 1, 2 * i)
  <2>1. /\ 2 * i - 1 \in Nat /\ 2 * i \in Nat /\ 1 <= 2 * i - 1 /\ 2 * i <= Len(bytes) /\ j \in Nat
        /\ 2 * (Len(f) + 1) \in Nat /\ 2 * (Len(f) + 1) + (2 * i - 1) - 1 = 2 * j
        /\ 2 * i - (2 * i - 1) + 1 = 2 /\ 2 * i - 1 <= 2 * i + 1
    BY <1>1
  <2>2. s \in Seq(Piece) /\ Len(s) = 2 /\ Stretch(s, c, 2 * j)
    BY <2>1, StretchSub
  <2> HIDE DEF s, j
  <2>3. s = <<<<c, j, 1>>, <<c, j, 2>>>>
    BY <2>1, <2>2, TwoPieces
  <2> QED BY <2>2, <2>3 DEF s, j
<1>4. fresh \in Seq(Seq(Piece)) /\ Len(fresh) = w
  BY <1>1, <1>3
<1>5. \A i \in 1 .. w : fresh[i] = <<<<c, Len(f) + i, 1>>, <<c, Len(f) + i, 2>>>>
  BY <1>3
<1> HIDE DEF fresh, f, w
<1>6. /\ f \o fresh \in Seq(Seq(Piece)) /\ Len(f \o fresh) = Len(f) + w
      /\ \A i \in 1 .. Len(f) + w : (f \o fresh)[i] = IF i <= Len(f) THEN f[i] ELSE fresh[i - Len(f)]
  BY <1>1, <1>4, ConcatProperties, ZenonT(30)
<1>7. /\ frames' \in [Client -> Seq(Seq(Piece))] /\ frames'[c] = f \o fresh
      /\ \A d \in Client : d # c => frames'[d] = frames[d]
  BY <1>1, <1>2, <1>6
<1>8. /\ buffer' \in Seq(Piece) /\ Len(buffer') = Len(bytes) - 2 * w
      /\ Stretch(buffer', c, 2 * (Len(f) + 1) + 2 * w)
  <2>1. /\ 2 * w + 1 \in Nat /\ 1 <= 2 * w + 1 /\ 2 * w + 1 <= Len(bytes) + 1 /\ Len(bytes) <= Len(bytes)
        /\ 2 * (Len(f) + 1) \in Nat
        /\ Len(bytes) - (2 * w + 1) + 1 = Len(bytes) - 2 * w
        /\ 2 * (Len(f) + 1) + (2 * w + 1) - 1 = 2 * (Len(f) + 1) + 2 * w
    BY <1>1
  <2>2. Stretch(bytes, c, 2 * (Len(f) + 1))
    BY DEF f
  <2>3. /\ SubSeq(bytes, 2 * w + 1, Len(bytes)) \in Seq(Piece)
        /\ Len(SubSeq(bytes, 2 * w + 1, Len(bytes))) = Len(bytes) - (2 * w + 1) + 1
        /\ Stretch(SubSeq(bytes, 2 * w + 1, Len(bytes)), c, 2 * (Len(f) + 1) + (2 * w + 1) - 1)
    BY <1>1, <2>1, <2>2, StretchSub, ZenonT(30)
  <2> QED BY <1>2, <2>1, <2>3
<1>9. Len(frames'[c]) = Len(f) + w /\ 2 * (Len(f) + 1) + 2 * w = 2 * (Len(frames'[c]) + 1)
  <2> PICK n : n = Len(frames'[c])
    OBVIOUS
  <2>1. n = Len(f) + w
    BY <1>6, <1>7
  <2> QED BY <1>1, <2>1
<1>10. FramesAreWhole'
  <2> SUFFICES ASSUME NEW d \in Client, NEW i \in DOMAIN frames'[d]
               PROVE  frames'[d][i] = <<<<d, i, 1>>, <<d, i, 2>>>>
    BY DEF FramesAreWhole
  <2>1. CASE d # c
    BY <1>7, <2>1 DEF FramesAreWhole
  <2>2. CASE d = c /\ i <= Len(f)
    <3>1. i \in DOMAIN frames[c] /\ frames'[d][i] = frames[c][i]
      BY <1>1, <1>6, <1>7, <2>2, SMTT(20) DEF f
    <3> QED BY <1>1, <2>2, <3>1 DEF FramesAreWhole
  <2>3. CASE d = c /\ ~(i <= Len(f))
    <3>1. i \in 1 .. Len(f) + w
      BY <1>6, <1>7, <2>3
    <3>2. i - Len(f) \in 1 .. w /\ Len(f) + (i - Len(f)) = i
      BY <1>1, <2>3, <3>1
    <3>3. frames'[d][i] = fresh[i - Len(f)]
      BY <1>6, <1>7, <2>3, <3>1
    <3> QED BY <1>5, <2>3, <3>2, <3>3
  <2> QED BY <2>1, <2>2, <2>3
<1>11. Len(buffer') < 2 /\ 2 * Len(frames'[c]) + Len(buffer') = 2 * Len(f) + Len(bytes)
  BY <1>1, <1>8, <1>9
<1>12. Stretch(buffer', c, 2 * (Len(frames'[c]) + 1))
  BY <1>8, <1>9
<1> QED BY <1>7, <1>8, <1>10, <1>11, <1>12 DEF f

\* Nothing was sent, and nobody is served.
LEMMA BytesInit == Init => BInv
<1> SUFFICES ASSUME Init PROVE BInv
  OBVIOUS
<1>1. Typed
  BY DEF Init, Typed
<1>2. OnWire
  <2> SUFFICES ASSUME NEW c \in Client
               PROVE  /\ Len(wire[c]) <= sent[c] /\ Stretch(wire[c], c, sent[c] - Len(wire[c]))
                      /\ sent[c] = 0 /\ sent[c] = Len(wire[c]) /\ frames[c] = <<>>
    BY DEF OnWire
  <2>1. sent[c] = 0 /\ wire[c] = <<>> /\ frames[c] = <<>>
    BY DEF Init
  <2> QED BY <2>1 DEF Stretch
<1>3. InBuffer /\ FramesAreWhole
  BY DEF Init, InBuffer, FramesAreWhole
<1> QED BY <1>1, <1>2, <1>3, InitOK DEF BInv

\* What the bytes are about.
flow == <<conn, sent, wire, client, state, buffer, frames>>

\* A step that changes none of it.
LEMMA StreamKeeps == ASSUME BInv, UNCHANGED flow PROVE Typed' /\ OnWire' /\ InBuffer' /\ FramesAreWhole'
<1>1. Typed' /\ FramesAreWhole'
  BY DEF BInv, flow, Typed, FramesAreWhole
<1>2. OnWire'
  BY DEF BInv, flow, OnWire, Stretch
<1>3. Start' = Start
  BY DEF flow, Start
<1>4. InBuffer'
  BY <1>3 DEF BInv, flow, InBuffer, Stretch, NoLine
<1> QED BY <1>1, <1>2, <1>4

\* A connection joins the queue with nothing sent.
LEMMA ConnectBytes ==
  ASSUME BInv, NEW c \in Client, Connect(c)
  PROVE  Typed' /\ OnWire' /\ InBuffer' /\ FramesAreWhole'
<1>1. /\ conn[c] = "new" /\ \A d \in Client : conn'[d] = IF d = c THEN "waiting" ELSE conn[d]
      /\ UNCHANGED <<sent, wire, client, state, buffer, frames>>
  BY DEF Connect, session, BInv, IInv, Served
<1>2. Typed' /\ FramesAreWhole'
  BY <1>1 DEF BInv, Typed, FramesAreWhole
<1>3. OnWire'
  BY <1>1 DEF BInv, OnWire, Stretch
<1>4. InBuffer'
  BY <1>1 DEF BInv, InBuffer, Start, Stretch, NoLine
<1> QED BY <1>2, <1>3, <1>4

\* What is sent goes to the end of what waits.
LEMMA SendBytes ==
  ASSUME BInv, NEW c \in Client, Send(c)
  PROVE  Typed' /\ OnWire' /\ InBuffer' /\ FramesAreWhole'
<1> DEFINE k == sent[c]
           w == wire[c]
           p == PieceAt(c, k)
<1>1. /\ k \in Nat /\ k < 2 * (MaxFrames + 1) /\ w \in Seq(Piece) /\ Len(w) \in Nat
      /\ conn[c] \in {"waiting", "open"} /\ c \in Client
      /\ sent' = [sent EXCEPT ![c] = k + 1] /\ wire' = [wire EXCEPT ![c] = Append(w, p)]
      /\ UNCHANGED <<conn, client, state, buffer, frames>>
  BY DEF Send, session, BInv, Typed, PieceAt
<1>2. p \in Piece
  <2>1. k \div 2 \in 0 .. MaxFrames /\ (k % 2) + 1 \in {1, 2}
    BY <1>1, AirShowAssumption
  <2> QED BY <1>1, <2>1 DEF PieceAt, Piece, Pieces
<1> HIDE DEF p
<1>3. /\ Append(w, p) \in Seq(Piece) /\ Len(Append(w, p)) = Len(w) + 1
      /\ \A i \in 1 .. Len(w) + 1 : Append(w, p)[i] = IF i <= Len(w) THEN w[i] ELSE p
  BY <1>1, <1>2
<1>4. /\ sent'[c] = k + 1 /\ wire'[c] = Append(w, p)
      /\ \A d \in Client : d # c => sent'[d] = sent[d] /\ wire'[d] = wire[d]
      /\ sent' \in [Client -> Nat] /\ wire' \in [Client -> Seq(Piece)]
  BY <1>1, <1>3 DEF BInv, Typed
<1>5. Typed' /\ FramesAreWhole'
  BY <1>1, <1>4 DEF BInv, Typed, FramesAreWhole
<1>6. /\ Len(w) <= k /\ Stretch(w, c, k - Len(w))
      /\ conn[c] = "waiting" => k = Len(w) /\ frames[c] = <<>>
  BY <1>1 DEF BInv, OnWire
<1>7. Stretch(Append(w, p), c, k - Len(w))
  <2> SUFFICES ASSUME NEW i \in 1 .. Len(w) + 1
               PROVE  Append(w, p)[i] = PieceAt(c, k - Len(w) + i - 1)
    BY <1>3 DEF Stretch
  <2>1. CASE i <= Len(w)
    BY <1>1, <1>3, <1>6, <2>1 DEF Stretch
  <2>2. CASE ~(i <= Len(w))
    <3>1. k - Len(w) + i - 1 = k
      BY <1>1, <2>2
    <3> QED BY <1>3, <2>2, <3>1 DEF p
  <2> QED BY <2>1, <2>2
<1>8. OnWire'
  <2> SUFFICES ASSUME NEW d \in Client
               PROVE  /\ conn[d] # "closed" =>
                           /\ Len(wire'[d]) <= sent'[d]
                           /\ Stretch(wire'[d], d, sent'[d] - Len(wire'[d]))
                      /\ conn[d] = "new" => sent'[d] = 0
                      /\ conn[d] \in {"new", "waiting"} =>
                           sent'[d] = Len(wire'[d]) /\ frames[d] = <<>>
    BY <1>1 DEF OnWire, Stretch
  <2>1. CASE d # c
    BY <1>4, <2>1 DEF BInv, OnWire
  <2>2. CASE d = c
    <3>1. k + 1 - (Len(w) + 1) = k - Len(w)
      BY <1>1
    <3> QED BY <1>1, <1>3, <1>4, <1>6, <1>7, <2>2, <3>1
  <2> QED BY <2>1, <2>2
<1>9. InBuffer'
  <2>1. CASE client = c
    <3>1. c # NoClient /\ buffer \in Seq(Piece)
      BY AirShowAssumption DEF BInv, Typed
    <3>2. Start' = Start
      <4> DEFINE v == Len(w)
                 b == Len(buffer)
                 k1 == sent'[c]
                 v1 == Len(wire'[c])
      <4>1. v \in Nat /\ b \in Nat
        BY <1>1, <3>1
      <4>2. k1 = k + 1 /\ v1 = v + 1
        BY <1>3, <1>4
      <4>3. Start' = k1 - (v1 + b) /\ Start = k - (v + b)
        BY <1>1, <2>1 DEF Start
      <4> HIDE DEF v, b, k, k1, v1
      <4> QED BY <1>1, <4>1, <4>2, <4>3
    <3> QED BY <1>1, <3>1, <3>2, <2>1 DEF BInv, InBuffer, Stretch, NoLine
  <2>2. CASE client # c
    <3>1. client # NoClient => client \in Client
      BY DEF BInv, IInv, Served
    <3>2. client # NoClient => Start' = Start
      BY <1>1, <1>4, <2>2, <3>1 DEF Start
    <3> QED BY <1>1, <3>2 DEF BInv, InBuffer, Stretch, NoLine
  <2> QED BY <2>1, <2>2
<1> QED BY <1>5, <1>8, <1>9

\* The newcomer's bytes are read from the first on, into an empty buffer.
LEMMA NewConnectionBytes ==
  ASSUME BInv, NEW c \in Client, OnNewConnection(c)
  PROVE  Typed' /\ OnWire' /\ InBuffer' /\ FramesAreWhole'
<1>1. /\ conn[c] = "waiting" /\ client' = c /\ state' = "Handshake" /\ buffer' = <<>>
      /\ \A d \in Client : conn'[d] = IF d = c THEN "open" ELSE IF d = client THEN "closed" ELSE conn[d]
      /\ wire' = [d \in Client |-> IF d = client THEN <<>> ELSE wire[d]]
      /\ UNCHANGED <<sent, frames>>
  BY DEF OnNewConnection, FirstState, Emptied, Hung
<1>2. c # client /\ c # NoClient
  BY <1>1, AirShowAssumption DEF BInv, IInv, Served
<1>3. Typed' /\ FramesAreWhole'
  BY <1>1 DEF BInv, Typed, FramesAreWhole
<1>4. OnWire'
  <2> SUFFICES ASSUME NEW d \in Client
               PROVE  /\ conn'[d] # "closed" =>
                           /\ Len(wire'[d]) <= sent[d]
                           /\ Stretch(wire'[d], d, sent[d] - Len(wire'[d]))
                      /\ conn'[d] = "new" => sent[d] = 0
                      /\ conn'[d] \in {"new", "waiting"} => sent[d] = Len(wire'[d]) /\ frames[d] = <<>>
    BY <1>1 DEF OnWire, Stretch
  <2>1. conn'[d] # "closed" => wire'[d] = wire[d] /\ conn[d] # "closed"
    BY <1>1, <1>2
  <2>2. conn'[d] \in {"new", "waiting"} => conn'[d] = conn[d]
    BY <1>1
  <2> QED BY <2>1, <2>2 DEF BInv, OnWire
<1>5. InBuffer'
  <2>1. wire'[c] = wire[c] /\ sent[c] = Len(wire[c]) /\ frames[c] = <<>> /\ sent[c] \in Nat
    BY <1>1, <1>2 DEF BInv, OnWire, Typed
  <2>2. Len(buffer') = 0 /\ DOMAIN buffer' = {}
    BY <1>1
  <2>3. Start' = 0
    BY <1>1, <2>1, <2>2 DEF Start
  <2>4. Stretch(buffer, client, Start)' /\ NoLine(buffer)'
    BY <2>2 DEF Stretch, NoLine
  <2> QED BY <1>1, <1>2, <2>1, <2>3, <2>4 DEF InBuffer
<1> QED BY <1>3, <1>4, <1>5

\* disconnectClient() drops what it read of the session and what it did not.
LEMMA DropBytes ==
  ASSUME BInv, client # NoClient, DisconnectClient, UNCHANGED <<sent, frames>>
  PROVE  Typed' /\ OnWire' /\ InBuffer' /\ FramesAreWhole'
<1>1. /\ client' = NoClient /\ state' = "Idle" /\ buffer' = <<>>
      /\ \A d \in Client : conn'[d] = IF d = client THEN "closed" ELSE conn[d]
      /\ wire' = [wire EXCEPT ![client] = <<>>] /\ client \in Client
  BY DEF DisconnectClient, Hung, Emptied, BInv, IInv, Served
<1>2. Typed' /\ FramesAreWhole'
  BY <1>1 DEF BInv, Typed, FramesAreWhole
<1>3. OnWire'
  <2> SUFFICES ASSUME NEW d \in Client, conn'[d] # "closed"
               PROVE  /\ Len(wire'[d]) <= sent[d] /\ Stretch(wire'[d], d, sent[d] - Len(wire'[d]))
                      /\ conn'[d] = "new" => sent[d] = 0
                      /\ conn'[d] \in {"new", "waiting"} => sent[d] = Len(wire'[d]) /\ frames[d] = <<>>
    BY <1>1 DEF OnWire, Stretch
  <2>1. d # client /\ conn'[d] = conn[d] /\ wire'[d] = wire[d]
    BY <1>1 DEF BInv, Typed
  <2> QED BY <2>1 DEF BInv, OnWire
<1> QED BY <1>1, <1>2, <1>3 DEF InBuffer

\* stop() closes every connection.
LEMMA StopBytes == ASSUME BInv, Stop PROVE Typed' /\ OnWire' /\ InBuffer' /\ FramesAreWhole'
<1>1. /\ client' = NoClient /\ state' = "Idle" /\ (buffer' = buffer \/ buffer' = <<>>)
      /\ \A d \in Client : conn'[d] = IF conn[d] = "new" THEN "new" ELSE "closed"
      /\ wire' = [c \in Client |-> <<>>] /\ UNCHANGED <<sent, frames>>
  BY DEF Stop, Emptied, BInv, InBuffer
<1>2. Typed' /\ FramesAreWhole'
  <2>1. buffer' \in Seq(Piece)
    <3>1. buffer \in Seq(Piece) /\ <<>> \in Seq(Piece)
      BY DEF BInv, Typed
    <3> HIDE DEF BInv
    <3>2. buffer' = buffer \/ buffer' = <<>>
      BY <1>1
    <3> QED BY <3>1, <3>2, Zenon
  <2>2. wire' \in [Client -> Seq(Piece)]
    BY <1>1
  <2> QED BY <1>1, <2>1, <2>2 DEF BInv, Typed, FramesAreWhole
<1>3. OnWire'
  <2> SUFFICES ASSUME NEW d \in Client, conn'[d] # "closed"
               PROVE  /\ Len(wire'[d]) <= sent[d] /\ Stretch(wire'[d], d, sent[d] - Len(wire'[d]))
                      /\ sent[d] = 0 /\ sent[d] = Len(wire'[d]) /\ frames[d] = <<>>
    BY <1>1 DEF OnWire, Stretch
  <2>1. conn[d] = "new"
    BY <1>1
  <2>2. sent[d] = 0 /\ frames[d] = <<>>
    BY <2>1 DEF BInv, OnWire
  <2> QED BY <1>1, <2>2 DEF Stretch
<1> QED BY <1>1, <1>2, <1>3 DEF InBuffer

\* The bytes a read sees, those kept and the n next ones, are what the client sent.
LEMMA ReadSees ==
  ASSUME BInv, client \in Client, NEW n \in Nat, 1 <= n, n <= Len(wire[client])
  PROVE  LET bytes == buffer \o SubSeq(wire[client], 1, n) IN
         /\ bytes \in Seq(Piece) /\ Len(bytes) = Len(buffer) + n /\ Stretch(bytes, client, Start)
<1> PICK c \in Client : c = client
  OBVIOUS
<1> PICK k : k = Start
  OBVIOUS
<1> DEFINE w == wire[c]
           q == SubSeq(w, 1, n)
<1>1. /\ w \in Seq(Piece) /\ buffer \in Seq(Piece) /\ Len(w) \in Nat /\ Len(buffer) \in Nat
      /\ n \in Nat /\ n <= Len(w) /\ sent[c] \in Nat
  BY DEF BInv, Typed
<1>2. /\ k \in Nat /\ Stretch(buffer, c, k) /\ k + Len(buffer) = sent[c] - Len(w)
      /\ Stretch(w, c, sent[c] - Len(w)) /\ sent[c] - Len(w) \in Nat
  <2>1. c # NoClient /\ conn[c] = "open"
    BY AirShowAssumption DEF BInv, IInv, Served
  <2>2. k \in Nat /\ Stretch(buffer, c, k) /\ Len(w) <= sent[c] /\ Stretch(w, c, sent[c] - Len(w))
    BY <2>1 DEF BInv, InBuffer, OnWire
  <2> QED BY <1>1, <2>2 DEF Start
<1>3. /\ q \in Seq(Piece) /\ Len(q) = n /\ Stretch(q, c, k + Len(buffer))
  <2> PICK m \in Nat : m = sent[c] - Len(w)
    BY <1>2
  <2>1. /\ 1 \in Nat /\ 1 <= 1 /\ 1 <= n + 1 /\ n - 1 + 1 = n /\ m + 1 - 1 = m
    BY <1>1
  <2>2. Stretch(w, c, m)
    BY <1>2
  <2>3. q \in Seq(Piece) /\ Len(q) = n - 1 + 1 /\ Stretch(q, c, m + 1 - 1)
    BY <1>1, <2>1, <2>2, StretchSub
  <2> QED BY <1>2, <2>1, <2>3
<1>4. buffer \o q \in Seq(Piece) /\ Len(buffer \o q) = Len(buffer) + Len(q) /\ Stretch(buffer \o q, c, k)
  BY <1>1, <1>2, <1>3, StretchConcat
<1> QED BY <1>3, <1>4

\* What a read leaves on the wire follows what it took.
LEMMA UnreadKeeps ==
  ASSUME BInv, client \in Client, NEW n \in Nat, 1 <= n, n <= Len(wire[client]), Unread(n), UNCHANGED <<conn, sent>>,
         \A d \in Client : d # client => frames'[d] = frames[d]
  PROVE  wire' \in [Client -> Seq(Piece)] /\ Len(wire'[client]) = Len(wire[client]) - n /\ OnWire'
<1> PICK c \in Client : c = client
  OBVIOUS
<1> DEFINE w == wire[c]
           r == SubSeq(w, n + 1, Len(w))
<1>1. w \in Seq(Piece) /\ Len(w) \in Nat /\ n \in Nat /\ n <= Len(w) /\ sent[c] \in Nat
  BY DEF BInv, Typed
<1>2. conn[c] = "open" /\ Len(w) <= sent[c] /\ Stretch(w, c, sent[c] - Len(w))
  <2>1. c # NoClient /\ conn[c] = "open"
    BY AirShowAssumption DEF BInv, IInv, Served
  <2> QED BY <2>1 DEF BInv, OnWire
<1>3. r \in Seq(Piece) /\ Len(r) = Len(w) - n /\ Stretch(r, c, sent[c] - (Len(w) - n))
  <2> PICK m \in Nat : m = sent[c] - Len(w)
    BY <1>1, <1>2
  <2>1. Stretch(w, c, m) /\ m + n = sent[c] - (Len(w) - n)
    BY <1>1, <1>2
  <2> HIDE DEF w
  <2>2. /\ SubSeq(w, n + 1, Len(w)) \in Seq(Piece) /\ Len(SubSeq(w, n + 1, Len(w))) = Len(w) - n
        /\ Stretch(SubSeq(w, n + 1, Len(w)), c, m + n)
    BY <1>1, <2>1, StretchTail
  <2> QED BY <2>1, <2>2
<1> HIDE DEF r
<1>4. /\ wire' = [wire EXCEPT ![c] = r] /\ wire' \in [Client -> Seq(Piece)] /\ wire'[c] = r
      /\ \A d \in Client : d # c => wire'[d] = wire[d]
  <2>1. wire' = [wire EXCEPT ![c] = r]
    BY DEF Unread, BInv, Typed, r
  <2> QED BY <1>3, <2>1 DEF BInv, Typed
<1>5. OnWire'
  <2> SUFFICES ASSUME NEW d \in Client
               PROVE  /\ conn[d] # "closed" =>
                           /\ Len(wire'[d]) <= sent[d]
                           /\ Stretch(wire'[d], d, sent[d] - Len(wire'[d]))
                      /\ conn[d] = "new" => sent[d] = 0
                      /\ conn[d] \in {"new", "waiting"} => sent[d] = Len(wire'[d]) /\ frames'[d] = <<>>
    BY DEF OnWire, Stretch
  <2>1. CASE d = c
    <3>1. Len(r) <= sent[c] /\ Stretch(r, c, sent[c] - Len(r))
      BY <1>1, <1>2, <1>3
    <3> QED BY <1>2, <1>4, <2>1, <3>1
  <2>2. CASE d # c
    BY <1>4, <2>2 DEF BInv, OnWire
  <2> QED BY <2>1, <2>2
<1> QED BY <1>3, <1>4, <1>5

\* Without a whole greeting the bytes wait.
LEMMA WaitBytes ==
  ASSUME BInv, client \in Client, NEW n \in Nat, 1 <= n, n <= Len(wire[client]), state = "Handshake",
         NEW bytes, bytes = buffer \o SubSeq(wire[client], 1, n), NoLine(bytes),
         buffer' = bytes, Unread(n), UNCHANGED <<conn, sent, client, state, frames>>
  PROVE  Typed' /\ OnWire' /\ InBuffer' /\ FramesAreWhole'
<1>1. bytes \in Seq(Piece) /\ Len(bytes) = Len(buffer) + n /\ Stretch(bytes, client, Start)
  BY ReadSees
<1>2. wire' \in [Client -> Seq(Piece)] /\ Len(wire'[client]) = Len(wire[client]) - n /\ OnWire'
  BY UnreadKeeps
<1>3. Typed' /\ FramesAreWhole'
  BY <1>1, <1>2 DEF BInv, Typed, FramesAreWhole
<1>4. /\ client # NoClient /\ Start = 0 /\ frames[client] = <<>>
      /\ Len(buffer) \in Nat /\ Len(wire[client]) \in Nat /\ sent[client] \in Nat /\ n \in Nat
  BY AirShowAssumption DEF BInv, InBuffer, Typed
<1>5. Start' = Start
  <2> DEFINE s == sent[client]
             w == Len(wire[client])
             b == Len(buffer)
  <2>1. Start' = s - ((w - n) + (b + n)) /\ Start = s - (w + b)
    BY <1>1, <1>2 DEF Start
  <2>2. s \in Nat /\ w \in Nat /\ b \in Nat
    BY <1>4
  <2> HIDE DEF s, w, b
  <2> QED BY <2>1, <2>2
<1>6. Stretch(buffer, client, Start)' /\ NoLine(buffer)'
  BY <1>1, <1>5 DEF Stretch, NoLine
<1> QED BY <1>2, <1>3, <1>4, <1>5, <1>6 DEF InBuffer

\* handleStreamingData(), which leaves less than a frame of the bytes it is given.
LEMMA StreamBytes ==
  ASSUME BInv, client \in Client, NEW n \in Nat, 1 <= n, n <= Len(wire[client]),
         NEW bytes \in Seq(Piece), HandleStreamingData(bytes), Unread(n),
         Stretch(bytes, client, 2 * (Len(frames[client]) + 1)),
         2 * (Len(frames[client]) + 1) + Len(bytes) = Start + Len(buffer) + n,
         UNCHANGED <<conn, sent, client>>, state' = "Streaming"
  PROVE  Typed' /\ OnWire' /\ InBuffer' /\ FramesAreWhole'
<1>1. /\ buffer' \in Seq(Piece) /\ Len(buffer') < 2
      /\ frames' \in [Client -> Seq(Seq(Piece))] /\ \A d \in Client : d # client => frames'[d] = frames[d]
      /\ Stretch(buffer', client, 2 * (Len(frames'[client]) + 1))
      /\ 2 * Len(frames'[client]) + Len(buffer') = 2 * Len(frames[client]) + Len(bytes)
      /\ FramesAreWhole'
  BY StreamingGives DEF BInv, Typed
<1>2. wire' \in [Client -> Seq(Piece)] /\ Len(wire'[client]) = Len(wire[client]) - n /\ OnWire'
  BY <1>1, UnreadKeeps
<1>3. Typed'
  BY <1>1, <1>2 DEF BInv, Typed
<1>4. /\ Len(buffer) \in Nat /\ Len(wire[client]) \in Nat /\ sent[client] \in Nat /\ n \in Nat
      /\ Len(buffer') \in Nat /\ Len(frames[client]) \in Nat /\ Len(frames'[client]) \in Nat
      /\ Len(bytes) \in Nat
  BY <1>1 DEF BInv, Typed
<1>5. Start' = 2 * (Len(frames'[client]) + 1)
  <2> DEFINE s == sent[client]
             w == Len(wire[client])
             b == Len(buffer)
             b1 == Len(buffer')
             f == Len(frames[client])
             f1 == Len(frames'[client])
             l == Len(bytes)
  <2>1. /\ Start' = s - ((w - n) + b1) /\ Start = s - (w + b)
        /\ 2 * f1 + b1 = 2 * f + l /\ 2 * (f + 1) + l = Start + b + n
    BY <1>1, <1>2 DEF Start
  <2>2. s \in Nat /\ w \in Nat /\ b \in Nat /\ b1 \in Nat /\ f \in Nat /\ f1 \in Nat /\ l \in Nat
    BY <1>4
  <2> HIDE DEF s, w, b, b1, f, f1, l
  <2>3. Start' = 2 * (f1 + 1)
    BY <2>1, <2>2
  <2> QED BY <2>3 DEF f1
<1>6. Start' \in Nat /\ Stretch(buffer, client, Start)'
  BY <1>1, <1>4, <1>5 DEF Stretch
<1>7. InBuffer'
  BY <1>1, <1>5, <1>6, AirShowAssumption DEF InBuffer
<1> QED BY <1>1, <1>2, <1>3, <1>7

\* The greeting is the first two pieces; the frames begin behind it.
LEMMA GreetingBytes ==
  ASSUME BInv, client \in Client, NEW n \in Nat, 1 <= n, n <= Len(wire[client]), state = "Handshake",
         NEW bytes, bytes = buffer \o SubSeq(wire[client], 1, n),
         Greeted(bytes), Unread(n), UNCHANGED <<conn, sent, client>>
  PROVE  Typed' /\ OnWire' /\ InBuffer' /\ FramesAreWhole'
<1>1. bytes \in Seq(Piece) /\ Len(bytes) = Len(buffer) + n /\ Stretch(bytes, client, Start)
  BY ReadSees
<1>2. /\ client # NoClient /\ Start = 0 /\ frames[client] = <<>>
      /\ Len(buffer) \in Nat /\ Len(bytes) \in Nat
  BY <1>1, AirShowAssumption DEF BInv, InBuffer, Typed
<1>3. PICK i \in DOMAIN bytes :
        EndsLine(bytes[i]) /\ state' = "Streaming" /\ HandleStreamingData(Rest(bytes, i))
  BY DEF Greeted
<1>4. i = 2 /\ 2 <= Len(bytes)
  <2>1. i \in 1 .. Len(bytes) /\ 0 + i - 1 \in Nat /\ (0 + i - 1 = 1 => i = 2)
    BY <1>1
  <2>2. bytes[i] = PieceAt(client, 0 + i - 1)
    BY <1>1, <1>2, <2>1 DEF Stretch
  <2>3. 0 + i - 1 = 1
    BY <1>3, <2>1, <2>2, PieceNumbers
  <2> QED BY <2>1, <2>3
<1>5. PICK rest : rest = Rest(bytes, i)
  OBVIOUS
<1>6. rest \in Seq(Piece) /\ Len(rest) = Len(bytes) - 2 /\ Stretch(rest, client, 2)
  <2> PICK k \in Nat, m \in Nat : k = 0 /\ m = 2
    OBVIOUS
  <2>1. rest = SubSeq(bytes, m + 1, Len(bytes)) /\ k + m = 2
    BY <1>4, <1>5 DEF Rest
  <2>2. Stretch(bytes, client, k) /\ m <= Len(bytes)
    BY <1>1, <1>2, <1>4
  <2>3. /\ SubSeq(bytes, m + 1, Len(bytes)) \in Seq(Piece)
        /\ Len(SubSeq(bytes, m + 1, Len(bytes))) = Len(bytes) - m
        /\ Stretch(SubSeq(bytes, m + 1, Len(bytes)), client, k + m)
    BY <1>1, <2>2, StretchTail
  <2> QED BY <2>1, <2>3
<1>7. /\ 2 * (Len(frames[client]) + 1) = 2
      /\ 2 * (Len(frames[client]) + 1) + Len(rest) = Start + Len(buffer) + n
  BY <1>1, <1>2, <1>6
<1>8. /\ Stretch(rest, client, 2 * (Len(frames[client]) + 1))
      /\ HandleStreamingData(rest)
  BY <1>3, <1>5, <1>6, <1>7
<1> QED BY <1>3, <1>6, <1>7, <1>8, StreamBytes

\* A read: the bytes wait, they are the greeting, they are frames, or the client goes.
LEMMA ReadBytes == ASSUME BInv, OnReadyRead PROVE Typed' /\ OnWire' /\ InBuffer' /\ FramesAreWhole'
<1>1. client \in Client /\ client # NoClient /\ state \in {"Handshake", "Streaming"} /\ UNCHANGED sent
  BY DEF OnReadyRead, BInv, IInv, Served, InBuffer
<1> DEFINE Uses(n, bytes) ==
             \/ /\ state = "Idle" \/ (state = "Handshake" /\ NoLine(bytes))
                /\ buffer' = bytes /\ Unread(n)
                /\ UNCHANGED <<conn, client, state, frames>>
             \/ /\ state = "Handshake" /\ Greeted(bytes) /\ Unread(n) /\ UNCHANGED <<conn, client>>
             \/ DisconnectClient /\ UNCHANGED frames
             \/ /\ state = "Streaming" /\ UNCHANGED <<conn, client, state>>
                /\ HandleStreamingData(bytes) /\ Unread(n)
<1>0. PICK n \in DOMAIN wire[client] : Uses(n, buffer \o SubSeq(wire[client], 1, n))
  BY DEF OnReadyRead
<1> PICK bytes : bytes = buffer \o SubSeq(wire[client], 1, n)
  OBVIOUS
<1>2. bytes = buffer \o SubSeq(wire[client], 1, n) /\ Uses(n, bytes)
  BY <1>0
<1>3. n \in Nat /\ 1 <= n /\ n <= Len(wire[client])
  BY <1>1, <1>2 DEF BInv, Typed
<1>4. CASE /\ state = "Handshake" /\ NoLine(bytes) /\ buffer' = bytes /\ Unread(n)
           /\ UNCHANGED <<conn, client, state, frames>>
  BY <1>1, <1>2, <1>3, <1>4, WaitBytes
<1>5. CASE state = "Handshake" /\ Greeted(bytes) /\ Unread(n) /\ UNCHANGED <<conn, client>>
  BY <1>1, <1>2, <1>3, <1>5, GreetingBytes
<1>6. CASE DisconnectClient /\ UNCHANGED frames
  BY <1>1, <1>6, DropBytes
<1>7. CASE /\ state = "Streaming" /\ UNCHANGED <<conn, client, state>>
           /\ HandleStreamingData(bytes) /\ Unread(n)
  <2>1. bytes \in Seq(Piece) /\ Len(bytes) = Len(buffer) + n /\ Stretch(bytes, client, Start)
    BY <1>1, <1>2, <1>3, ReadSees
  <2>2. Start = 2 * (Len(frames[client]) + 1)
    BY <1>1, <1>7 DEF BInv, InBuffer
  <2>3. Stretch(bytes, client, 2 * (Len(frames[client]) + 1))
    BY <2>1, <2>2
  <2>4. 2 * (Len(frames[client]) + 1) + Len(bytes) = Start + Len(buffer) + n
    BY <1>3, <2>1, <2>2, <1>1 DEF BInv, Typed
  <2> QED BY <1>1, <1>3, <1>7, <2>1, <2>3, <2>4, StreamBytes
<1> QED BY <1>1, <1>2, <1>4, <1>5, <1>6, <1>7

\* The bytes are where they should be in every reachable state.
THEOREM BytesInvariance == Spec => []BInv
<1>1. BInv /\ [Next]_vars => BInv'
  <2> SUFFICES ASSUME BInv, [Next]_vars PROVE Typed' /\ OnWire' /\ InBuffer' /\ FramesAreWhole' /\ IInv'
    BY DEF BInv
  <2>1. IInv'
    BY StepKeeps DEF BInv
  <2>2. CASE UNCHANGED flow
    BY <2>1, <2>2, StreamKeeps
  <2>3. CASE OnDisconnected
    <3>1. client # NoClient /\ DisconnectClient /\ UNCHANGED <<sent, frames>>
      BY <2>3 DEF OnDisconnected
    <3> QED BY <2>1, <3>1, DropBytes
  <2>4. UNCHANGED vars \/ WindowReady \/ OtherStarts \/ OtherEnds => UNCHANGED flow
    BY DEF vars, WindowReady, OtherStarts, OtherEnds, net, session, flow
  <2> QED BY <2>1, <2>2, <2>3, <2>4, ConnectBytes, SendBytes, NewConnectionBytes, ReadBytes,
             StopBytes DEF Next
<1> QED BY <1>1, BytesInit, PTL DEF Spec

\* For any number of clients and frames, and however TCP cuts the bytes: what
\* processFrame() is given is each frame of the client, whole, once and in order
\* (handleStreamingData(), AirShowHandler.cpp:217).
THEOREM FramesWhole == Spec => []FramesAreWhole
  BY BytesInvariance, PTL DEF BInv

\* And onReadyRead() leaves nothing in the buffer that it could have used.
THEOREM NothingWaits == Spec => []NothingStranded
<1>1. BInv => NothingStranded
  <2> SUFFICES ASSUME BInv PROVE NothingStranded
    OBVIOUS
  <2>1. CASE client = NoClient
    BY <2>1 DEF BInv, InBuffer, NothingStranded
  <2>2. CASE client # NoClient
    BY <2>2 DEF BInv, InBuffer, NothingStranded
  <2> QED BY <2>1, <2>2
<1> QED BY <1>1, BytesInvariance, PTL

\* Accepting and reading go on until a greeting is answered.
Answerable ==
  \A c \in Client :
    /\ conn[c] = "waiting" => running
    /\ conn[c] = "open" /\ sent[c] >= 2 /\ c \notin acked =>
         client = c /\ state = "Handshake" /\ wire[c] # <<>>

\* Only a running server has connections that wait.
Accepting == \A c \in Client : conn[c] = "waiting" => running

LEMMA AcceptingKeeps == ASSUME IInv, Accepting, [Next]_vars PROVE Accepting'
<1> conn \in [Client -> {"new", "waiting", "open", "closed"}]
  BY DEF IInv, Served
<1>1. CASE UNCHANGED <<conn, running>>
  BY <1>1 DEF Accepting
<1>2. ASSUME NEW c \in Client, Connect(c) PROVE Accepting'
  BY <1>2 DEF Connect, Accepting
<1>3. ASSUME NEW c \in Client, OnNewConnection(c) PROVE Accepting'
  BY <1>3 DEF OnNewConnection, Accepting
<1>4. ASSUME DisconnectClient, UNCHANGED running PROVE Accepting'
  BY <1>4 DEF DisconnectClient, Hung, Accepting
<1>5. ASSUME Stop PROVE Accepting'
  BY <1>5 DEF Stop, Accepting
<1>6. OnReadyRead => UNCHANGED running /\ (DisconnectClient \/ UNCHANGED conn)
  BY DEF OnReadyRead
<1>7. OnDisconnected => UNCHANGED running /\ DisconnectClient
  BY DEF OnDisconnected
<1> QED BY <1>1, <1>2, <1>3, <1>4, <1>5, <1>6, <1>7
        DEF Next, Send, WindowReady, OtherStarts, OtherEnds, vars, net

\* The safety half of GreetingIsAnswered: a client waits only for a server that
\* accepts, and while its greeting is complete but not answered the end of it is
\* still to be read, however TCP cut it; so no greeting lies in the buffer that
\* nothing would look at again.
THEOREM GreetingsAreRead == Spec => []Answerable
<1>1. BInv /\ Accepting => Answerable
  <2> SUFFICES ASSUME BInv, Accepting, NEW c \in Client, conn[c] = "open", sent[c] >= 2, c \notin acked
               PROVE  client = c /\ state = "Handshake" /\ wire[c] # <<>>
    BY DEF Accepting, Answerable
  <2>1. client = c /\ client # NoClient /\ state # "Streaming"
    BY AirShowAssumption DEF BInv, IInv, Served
  <2>2. state = "Handshake" /\ Start = 0 /\ NoLine(buffer) /\ Stretch(buffer, c, 0)
    BY <2>1 DEF BInv, InBuffer
  <2>3. ASSUME wire[c] = <<>> PROVE FALSE
    <3>1. Len(buffer) \in Nat /\ sent[c] \in Nat /\ Len(wire[c]) = 0
      BY <2>3, LenProperties, EmptySeq DEF BInv, Typed
    <3>2. Len(buffer) = sent[c]
      BY <2>1, <2>2, <3>1 DEF Start
    <3>3. 2 \in 1 .. Len(buffer) /\ 2 \in DOMAIN buffer
      BY <3>1, <3>2, LenProperties DEF BInv, Typed
    <3>4. buffer[2] = PieceAt(c, 1)
      BY <2>2, <3>3 DEF Stretch
    <3>5. EndsLine(buffer[2])
      BY <3>4 DEF PieceAt, EndsLine
    <3> QED BY <2>2, <3>3, <3>5 DEF NoLine
  <2> QED BY <2>1, <2>2, <2>3
<1>2. Init => Accepting
  BY DEF Init, Accepting
<1>3. BInv => IInv
  BY DEF BInv
<1> QED BY <1>1, <1>2, <1>3, AcceptingKeeps, BytesInvariance, PTL DEF Spec

-----------------------------------------------------------------------------
(* Types.                                                                  *)

\* What the bytes leave open of TypeOK.
Flags ==
  /\ {running, capSet, appsrc, other, ready} \subseteq BOOLEAN
  /\ hello \in [Client -> BOOLEAN] /\ acked \subseteq Client
  /\ state \in {"Idle", "Handshake", "Streaming"} /\ caps \in Caps
  /\ hud \in Client \union {NoClient, Other}

\* Nothing is left of a connection that was closed, nor more sent than there is.
Leftovers ==
  /\ \A c \in Client : /\ sent[c] <= 2 * (MaxFrames + 1)
                       /\ conn[c] = "closed" => wire[c] = <<>>
  /\ client = NoClient => buffer = <<>>

\* Clients.
LEMMA ClientTypes ==
  ASSUME BInv, Flags, Leftovers, NEW c \in Client, Connect(c) \/ Send(c) \/ OnNewConnection(c)
  PROVE  Flags' /\ Leftovers'
<1>1. /\ sent \in [Client -> Nat] /\ conn \in [Client -> {"new", "waiting", "open", "closed"}]
      /\ wire \in [Client -> Seq(Piece)] /\ MaxFrames \in Nat
  BY AirShowAssumption DEF BInv, IInv, Served, Typed
<1>2. CASE Connect(c)
  BY <1>1, <1>2 DEF Connect, session, shared, Flags, Leftovers
<1>3. CASE Send(c)
  <2>1. /\ conn[c] # "closed" /\ sent[c] < 2 * (MaxFrames + 1) /\ sent' = [sent EXCEPT ![c] = @ + 1]
        /\ \A d \in Client : d # c => wire'[d] = wire[d]
        /\ UNCHANGED <<running, conn, hello, acked, client, state, buffer, capSet, appsrc, caps, hud, other, ready>>
    BY <1>1, <1>3 DEF Send, session, shared
  <2>2. \A d \in Client : sent'[d] <= 2 * (MaxFrames + 1)
    BY <1>1, <2>1 DEF Leftovers
  <2> QED BY <2>1, <2>2 DEF Flags, Leftovers
<1>4. CASE OnNewConnection(c)
  <2>1. /\ client' = c /\ state' = "Handshake" /\ UNCHANGED <<running, hello, sent, acked, appsrc, caps, other, ready>>
        /\ hud' \in {hud, NoClient} /\ capSet' \in {capSet, FALSE}
    BY <1>4 DEF OnNewConnection, FirstState, Released
  <2>2. \A d \in Client : conn'[d] = "closed" => wire'[d] = <<>>
    BY <1>1, <1>4 DEF OnNewConnection, Hung, Leftovers
  <2>3. client' # NoClient
    BY <2>1, AirShowAssumption
  <2>4. Flags'
    BY <2>1 DEF Flags
  <2> QED BY <2>1, <2>2, <2>3, <2>4 DEF Leftovers
<1> QED BY <1>2, <1>3, <1>4

\* disconnectClient(), with whatever goes with it.
LEMMA DropTypes ==
  ASSUME BInv, Flags, Leftovers, client # NoClient, DisconnectClient,
         UNCHANGED <<running, hello, sent, acked, appsrc, caps, other, ready>>
  PROVE  Flags' /\ Leftovers'
<1>1. /\ wire \in [Client -> Seq(Piece)] /\ conn \in [Client -> {"new", "waiting", "open", "closed"}]
      /\ client \in Client
  BY DEF BInv, IInv, Served, Typed
<1>2. client' = NoClient /\ state' = "Idle" /\ buffer' = <<>> /\ hud' = NoClient /\ capSet' = FALSE
  BY DEF DisconnectClient, Released, Emptied
<1>3. \A d \in Client : conn'[d] = "closed" => wire'[d] = <<>>
  BY <1>1 DEF DisconnectClient, Hung, Leftovers
<1>4. Flags'
  BY <1>2 DEF Flags
<1> QED BY <1>2, <1>3, <1>4 DEF Leftovers

\* What a read may set.
LEMMA ReadTypes == ASSUME BInv, Flags, Leftovers, OnReadyRead PROVE Flags' /\ Leftovers'
<1>1. client \in Client /\ conn[client] = "open" /\ wire \in [Client -> Seq(Piece)]
  BY DEF OnReadyRead, BInv, IInv, Served, Typed
<1>2. CASE DisconnectClient /\ UNCHANGED <<acked, appsrc, caps>>
  BY <1>1, <1>2, AirShowAssumption, DropTypes DEF OnReadyRead
<1>3. CASE UNCHANGED <<conn, client>> /\ \E n : Unread(n)
  <2>1. \A d \in Client : d # client => wire'[d] = wire[d]
    BY <1>1, <1>3 DEF Unread
  <2>2. UNCHANGED <<running, hello, sent, other, ready>>
    BY DEF OnReadyRead
  <2>3. /\ acked' \in {acked, acked \union {client}} /\ state' \in {state, "Streaming"}
        /\ appsrc' \in {appsrc, TRUE, FALSE} /\ hud' \in {hud, client}
        /\ capSet' \in {capSet, TRUE} /\ caps' \in {caps, "pcm", "none"}
    <3>1. CASE \E bytes : Greeted(bytes)
      BY <3>1 DEF Greeted, HandleStreamingData
    <3>2. CASE UNCHANGED <<acked, state, appsrc, hud>> /\ \E bytes : HandleStreamingData(bytes)
      BY <3>2 DEF HandleStreamingData
    <3>3. CASE UNCHANGED <<acked, state, appsrc, hud, capSet, caps>>
      BY <3>3
    <3>4. CASE DisconnectClient
      BY <1>1, <1>3, <3>4, AirShowAssumption DEF DisconnectClient
    <3> QED BY <3>1, <3>2, <3>3, <3>4 DEF OnReadyRead
  <2>4. Flags'
    BY <1>1, <2>2, <2>3 DEF Flags, Caps
  <2>5. client # NoClient
    BY DEF OnReadyRead
  <2> QED BY <1>1, <1>3, <2>1, <2>2, <2>4, <2>5 DEF Leftovers
<1> QED BY <1>2, <1>3 DEF OnReadyRead

\* The others.
LEMMA OtherTypes ==
  ASSUME BInv, Flags, Leftovers, Stop \/ WindowReady \/ OtherStarts \/ OtherEnds
  PROVE  Flags' /\ Leftovers'
<1>1. CASE Stop
  <2>1. /\ running' = FALSE /\ client' = NoClient /\ state' \in {state, "Idle"}
        /\ hud' \in {hud, NoClient} /\ capSet' \in {capSet, FALSE}
        /\ UNCHANGED <<hello, sent, acked, appsrc, caps, other, ready>>
    BY <1>1 DEF Stop, Released
  <2>2. buffer' = <<>>
    BY <1>1 DEF Stop, Emptied, Leftovers
  <2>3. \A c \in Client : wire'[c] = <<>>
    BY <1>1 DEF Stop
  <2>4. Flags'
    BY <2>1 DEF Flags
  <2> QED BY <2>1, <2>2, <2>3, <2>4 DEF Leftovers
<1>2. CASE WindowReady \/ OtherStarts \/ OtherEnds
  <2>1. /\ UNCHANGED <<running, conn, hello, sent, wire, acked, client, state, buffer, capSet>>
        /\ hud' \in {hud, Other, NoClient} /\ other' \in {other, TRUE, FALSE} /\ ready' \in {ready, TRUE}
        /\ appsrc' \in {appsrc, TRUE, FALSE} /\ caps' \in {caps, "none", "other"}
    BY <1>2 DEF WindowReady, OtherStarts, OtherEnds, net, session
  <2>2. Flags'
    BY <2>1 DEF Flags, Caps
  <2> QED BY <2>1, <2>2 DEF Leftovers
<1> QED BY <1>1, <1>2

\* A stretch of what c sends is made of its pieces.
LEMMA StretchIsOwn ==
  ASSUME NEW c, NEW k \in Nat, NEW q \in Seq(Piece), Stretch(q, c, k), k + Len(q) <= 2 * (MaxFrames + 1)
  PROVE  q \in Seq(Pieces(c))
<1>1. ASSUME NEW i \in 1 .. Len(q) PROVE q[i] \in Pieces(c)
  <2>1. Len(q) \in Nat /\ MaxFrames \in Nat
    BY AirShowAssumption
  <2> PICK j \in Nat : j = k + i - 1
    BY <2>1
  <2>2. j < 2 * (MaxFrames + 1)
    BY <2>1
  <2>3. j \div 2 \in 0 .. MaxFrames /\ (j % 2) + 1 \in {1, 2}
    BY <2>1, <2>2
  <2>4. q[i] = PieceAt(c, j)
    BY DEF Stretch
  <2> QED BY <2>3, <2>4 DEF PieceAt, Pieces
<1>2. Len(q) \in Nat /\ q = [i \in 1 .. Len(q) |-> q[i]]
  BY LenProperties
<1> QED BY <1>1, <1>2, IsASeq

\* Every variable keeps its type; what is in a client's stream, and in the buffer
\* while that client is served, is of that client.
THEOREM TypeCorrect == Spec => []TypeOK
<1>1. Init => Flags /\ Leftovers
  <2> SUFFICES ASSUME Init PROVE Flags /\ Leftovers
    OBVIOUS
  <2>1. Flags
    BY DEF Init, Flags, Caps
  <2>2. Leftovers
    BY AirShowAssumption DEF Init, Leftovers
  <2> QED BY <2>1, <2>2
<1>2. BInv /\ Flags /\ Leftovers /\ [Next]_vars => Flags' /\ Leftovers'
  <2> SUFFICES ASSUME BInv, Flags, Leftovers, [Next]_vars PROVE Flags' /\ Leftovers'
    OBVIOUS
  <2>1. CASE UNCHANGED vars
    BY <2>1 DEF vars, net, session, shared, Flags, Leftovers
  <2>2. CASE OnDisconnected
    BY <2>2, DropTypes DEF OnDisconnected
  <2> QED BY <2>1, <2>2, ClientTypes, ReadTypes, OtherTypes DEF Next
<1>3. BInv /\ Flags /\ Leftovers => TypeOK
  <2> SUFFICES ASSUME BInv, Flags, Leftovers PROVE TypeOK
    OBVIOUS
  <2>1. /\ sent \in [Client -> Nat] /\ wire \in [Client -> Seq(Piece)] /\ buffer \in Seq(Piece)
        /\ frames \in [Client -> Seq(Seq(Piece))] /\ MaxFrames \in Nat
    BY AirShowAssumption DEF BInv, Typed
  <2>2. sent \in [Client -> 0 .. 2 * (MaxFrames + 1)]
    BY <2>1 DEF Leftovers
  <2>3. ASSUME NEW c \in Client PROVE wire[c] \in Seq(Pieces(c))
    <3>1. CASE conn[c] = "closed"
      BY <3>1, EmptySeq DEF Leftovers
    <3>2. CASE conn[c] # "closed"
      <4>1. Len(wire[c]) \in Nat /\ sent[c] \in Nat /\ sent[c] <= 2 * (MaxFrames + 1) /\ wire[c] \in Seq(Piece)
        BY <2>1 DEF Leftovers
      <4>2. Len(wire[c]) <= sent[c] /\ Stretch(wire[c], c, sent[c] - Len(wire[c]))
        BY <3>2 DEF BInv, OnWire
      <4> PICK k \in Nat : k = sent[c] - Len(wire[c])
        BY <4>1, <4>2
      <4>3. k + Len(wire[c]) <= 2 * (MaxFrames + 1)
        BY <4>1
      <4> QED BY <4>1, <4>2, <4>3, StretchIsOwn
    <3> QED BY <3>1, <3>2
  <2>4. buffer \in Seq(IF client = NoClient THEN {} ELSE Pieces(client))
    <3>1. CASE client = NoClient
      BY <3>1, EmptySeq DEF Leftovers
    <3>2. CASE client # NoClient
      <4> PICK c \in Client : c = client
        BY <3>2 DEF BInv, IInv, Served
      <4>1. /\ Len(wire[c]) \in Nat /\ sent[c] \in Nat /\ sent[c] <= 2 * (MaxFrames + 1)
            /\ Len(buffer) \in Nat /\ wire[c] \in Seq(Piece)
        BY <2>1 DEF Leftovers
      <4> PICK k \in Nat : k = Start
        BY <3>2 DEF BInv, InBuffer
      <4>2. Stretch(buffer, c, k)
        BY <3>2 DEF BInv, InBuffer
      <4>3. k + Len(buffer) <= 2 * (MaxFrames + 1)
        BY <4>1 DEF Start
      <4>4. buffer \in Seq(Pieces(c))
        BY <2>1, <4>2, <4>3, StretchIsOwn
      <4> QED BY <3>2, <4>4
    <3> QED BY <3>1, <3>2
  <2>5. /\ conn \in [Client -> {"new", "waiting", "open", "closed"}] /\ client \in Client \union {NoClient}
    BY DEF BInv, IInv, Served
  <2> QED BY <2>1, <2>2, <2>3, <2>4, <2>5 DEF Flags, TypeOK
<1> QED BY <1>1, <1>2, <1>3, BytesInvariance, PTL DEF Spec

-----------------------------------------------------------------------------
(* The sender, for any number of taps, disturbances and failures: while    *)
(* the app does not show Idle, something that will return it there is on   *)
(* its way, or its service is up and will be destroyed, which does.        *)

Call    == {"listen", "startCapture", "stopCapture"}
Event   == {"CONNECTED", "DISCONNECTED", "ERROR"}
Message == Event \union {"stopped"}
Command == [command : {"START", "STOP", "DESTROY"}, to : Nat, host : BOOLEAN]
Ends     == Message \ {"CONNECTED"}
Destroys == {c \in Command : c.command = "DESTROY"}

\* The queues between user interface, main thread and Android are sequences.
SenderQueues ==
  /\ calls \in Seq(Call) /\ toDart \in Seq(Message) /\ posted \in Seq(Event)
  /\ commands \in Seq(Command) /\ service \in Nat
  /\ {sink, host, up} \subseteq BOOLEAN /\ dialogs \in Nat

\* One of S is in the queue.
Holds(queue, S) == \E i \in 1 .. Len(queue) : queue[i] \in S

\* Android will destroy the service, now that it is up or by a command it queued.
Destroyed == up \/ Holds(commands, Destroys)

\* What will return the app to Idle.
Awaited ==
  \/ Holds(calls, {"startCapture", "stopCapture"}) \/ dialogs > 0
  \/ Destroyed
  \/ Holds(posted, Ends) \/ Holds(toDart, Ends)

\* Until the activity listens events are lost; but then the last tap is yet unheard.
Unheard ==
  ~sink => /\ calls # <<>> /\ calls[1] = "listen"
           /\ ui # "Idle" => Holds(calls, {"startCapture"})

SenderIInv == SenderQueues /\ Unheard /\ (ui # "Idle" => Awaited)

\* What is appended is held, and what was held still is.
LEMMA AppendHolds ==
  ASSUME NEW T, NEW q \in Seq(T), NEW c \in T, NEW S
  PROVE  /\ Append(q, c) \in Seq(T) /\ Append(q, c) # <<>>
         /\ c \in S => Holds(Append(q, c), S)
         /\ Holds(q, S) => Holds(Append(q, c), S)
         /\ q # <<>> => Append(q, c)[1] = q[1]
<1> DEFINE n == Len(q)
           r == Append(q, c)
<1>1. n \in Nat /\ r \in Seq(T) /\ r # <<>> /\ Len(r) = n + 1
      /\ r[n + 1] = c /\ \A i \in 1 .. n : r[i] = q[i]
  BY AppendProperties, LenProperties
<1>2. q # <<>> => n # 0
  BY EmptySeq
<1> HIDE DEF n, r
<1>3. n + 1 \in 1 .. Len(r) /\ (1 .. n) \subseteq 1 .. Len(r)
  BY <1>1
<1>4. c \in S => Holds(r, S)
  BY <1>1, <1>3 DEF Holds
<1>5. Holds(q, S) => Holds(r, S)
  BY <1>1, <1>3 DEF Holds, n
<1>6. q # <<>> => r[1] = q[1]
  BY <1>1, <1>2
<1> QED BY <1>1, <1>4, <1>5, <1>6 DEF r

\* What is taken off is the first; the others are still held.
LEMMA TailHolds ==
  ASSUME NEW T, NEW q \in Seq(T), q # <<>>, NEW S
  PROVE  /\ Tail(q) \in Seq(T) /\ q[1] = Head(q) /\ Head(q) \in T
         /\ Holds(q, S) /\ Head(q) \notin S => Holds(Tail(q), S)
<1> DEFINE n == Len(q)
           r == Tail(q)
<1>1. n \in Nat \ {0} /\ r \in Seq(T) /\ Len(r) = n - 1 /\ q[1] = Head(q) /\ Head(q) \in T
      /\ \A i \in 1 .. n - 1 : r[i] = q[i + 1]
  <2>1. n \in Nat \ {0} /\ q[1] = Head(q)
    BY EmptySeq, LenProperties
  <2>2. r \in Seq(T) /\ Len(r) = n - 1 /\ \A i \in 1 .. Len(r) : r[i] = q[i + 1]
    BY HeadTailProperties
  <2>3. Head(q) \in T
    BY HeadTailProperties
  <2> HIDE DEF n, r
  <2> QED BY <2>1, <2>2, <2>3
<1> HIDE DEF n, r
<1>2. ASSUME Holds(q, S), Head(q) \notin S PROVE Holds(r, S)
  <2>1. PICK i \in 1 .. n : q[i] \in S
    BY <1>2 DEF Holds, n
  <2>2. i # 1 /\ i - 1 \in 1 .. n - 1 /\ (i - 1) + 1 = i
    BY <1>1, <1>2, <2>1
  <2>3. r[i - 1] = q[i] /\ i - 1 \in 1 .. Len(r)
    BY <1>1, <2>2
  <2> QED BY <2>1, <2>3 DEF Holds
<1> QED BY <1>1, <1>2 DEF r

\* A service that stops itself is destroyed behind what is queued.
LEMMA StopSelfDestroys ==
  ASSUME SenderQueues, NEW s, NEW queue \in Seq(Command), StopSelf(s, queue),
         Holds(commands, Destroys) => Holds(queue, Destroys)
  PROVE  /\ commands' \in Seq(Command) /\ service' \in Nat /\ up' \in BOOLEAN
         /\ Destroyed => Destroyed'
<1>1. CASE up /\ s = service
  <2> DEFINE d == [command |-> "DESTROY", to |-> s, host |-> FALSE]
  <2>1. d \in Destroys /\ d \in Command
    BY <1>1 DEF Destroys, Command, SenderQueues
  <2>2. commands' = Append(queue, d) /\ up' = FALSE /\ service' = service
    BY <1>1 DEF StopSelf
  <2> HIDE DEF d
  <2>3. commands' \in Seq(Command) /\ Holds(commands', Destroys)
    BY <2>1, <2>2, AppendHolds
  <2> QED BY <2>2, <2>3 DEF SenderQueues, Destroyed
<1>2. CASE ~(up /\ s = service)
  BY <1>2 DEF StopSelf, SenderQueues, Destroyed
<1> QED BY <1>1, <1>2

\* startService() brings the service up.
LEMMA StartServiceUps ==
  ASSUME SenderQueues, NEW k \in {"START", "STOP"}, StartService(k)
  PROVE  commands' \in Seq(Command) /\ service' \in Nat /\ up' = TRUE
<1> DEFINE s == IF up THEN service ELSE service + 1
           c == [command |-> k, to |-> s, host |-> host]
<1>1. s \in Nat /\ host \in BOOLEAN
  BY DEF SenderQueues
<1>2. c \in Command
  BY <1>1 DEF Command
<1>3. up' = TRUE /\ service' = s /\ commands' = Append(commands, c)
  BY DEF StartService
<1> HIDE DEF c, s
<1> QED BY <1>1, <1>2, <1>3, AppendHolds DEF SenderQueues

\* Steps that neither the user nor Dart take: what they post adds to what is
\* awaited, and a service they stop will be destroyed, or its end is posted.
LEMMA WorkKeeps ==
  ASSUME SenderIInv, UNCHANGED <<dart, activity>>,
         posted' = posted \/ \E e \in Event : posted' = Append(posted, e),
         commands' \in Seq(Command), service' \in Nat, up' \in BOOLEAN,
         sink => (Destroyed => Destroyed' \/ Holds(posted', Ends))
  PROVE  SenderIInv'
<1>1. UNCHANGED <<ui, calls, toDart, sink, dialogs, host>>
  BY DEF dart, activity
<1>2. posted' \in Seq(Event) /\ (Holds(posted, Ends) => Holds(posted', Ends))
  <2>1. posted \in Seq(Event)
    BY DEF SenderIInv, SenderQueues
  <2>2. ASSUME NEW e \in Event, posted' = Append(posted, e)
        PROVE  posted' \in Seq(Event) /\ (Holds(posted, Ends) => Holds(posted', Ends))
    BY <2>1, <2>2, AppendHolds
  <2> QED BY <2>1, <2>2
<1>3. SenderQueues'
  BY <1>1, <1>2 DEF SenderIInv, SenderQueues
<1>4. Unheard'
  BY <1>1 DEF SenderIInv, Unheard
<1>5. ui' # "Idle" => Awaited'
  <2> SUFFICES ASSUME ui # "Idle" PROVE Awaited'
    BY <1>1
  <2>1. CASE sink
    BY <1>1, <1>2, <2>1 DEF SenderIInv, Awaited
  <2>2. CASE ~sink
    <3>1. Holds(calls, {"startCapture"})
      BY <2>2 DEF SenderIInv, Unheard
    <3>2. Holds(calls', {"startCapture", "stopCapture"})
      BY <1>1, <3>1 DEF Holds
    <3> QED BY <3>2 DEF Awaited
  <2> QED BY <2>1, <2>2 DEF SenderIInv, SenderQueues
<1> QED BY <1>3, <1>4, <1>5 DEF SenderIInv

\* The user, and the answers to the consent dialog.
LEMMA UserKeeps ==
  ASSUME SenderIInv, StartMirroring \/ StopMirroring \/ StopOnNotification \/ Allow \/ Deny \/ Recreate
  PROVE  SenderIInv'
<1> USE DEF SenderIInv
<1>1. CASE StartMirroring \/ StopMirroring
  <2>1. PICK c \in {"startCapture", "stopCapture"} : calls' = Append(calls, c)
    BY <1>1 DEF StartMirroring, StopMirroring
  <2>2. UNCHANGED <<toDart, sink, dialogs, host, commands, up, service, posted>>
    BY <1>1 DEF StartMirroring, StopMirroring, activity, android
  <2>3. calls' \in Seq(Call) /\ calls' # <<>> /\ (calls # <<>> => calls'[1] = calls[1])
        /\ Holds(calls', {c}) /\ (Holds(calls, {"startCapture"}) => Holds(calls', {"startCapture"}))
    <3>1. calls \in Seq(Call) /\ c \in Call /\ c \in {c}
      BY DEF SenderQueues, Call
    <3>2. Holds(calls', {c})
      BY <2>1, <3>1, AppendHolds
    <3>3. calls' \in Seq(Call) /\ calls' # <<>> /\ (calls # <<>> => calls'[1] = calls[1])
          /\ (Holds(calls, {"startCapture"}) => Holds(calls', {"startCapture"}))
      BY <2>1, <3>1, AppendHolds
    <3> QED BY <3>2, <3>3
  <2>4. Holds(calls', {"startCapture", "stopCapture"})
    BY <2>3 DEF Holds
  <2>5. ~sink => Holds(calls', {"startCapture"})
    <3>1. CASE StartMirroring
      <4>1. calls' = Append(calls, "startCapture")
        BY <3>1 DEF StartMirroring
      <4>2. calls \in Seq(Call) /\ "startCapture" \in Call /\ "startCapture" \in {"startCapture"}
        BY DEF SenderQueues, Call
      <4> QED BY <4>1, <4>2, AppendHolds
    <3>2. CASE StopMirroring
      BY <3>2, <2>3 DEF StopMirroring, Unheard
    <3> QED BY <1>1, <3>1, <3>2
  <2> QED BY <2>2, <2>3, <2>4, <2>5 DEF SenderQueues, Unheard, Awaited
<1>2. CASE StopOnNotification
  <2>1. commands' \in Seq(Command) /\ service' \in Nat /\ up' = TRUE
    BY <1>2, StartServiceUps DEF StopOnNotification
  <2>2. UNCHANGED <<dart, activity>> /\ posted' = posted
    BY <1>2 DEF StopOnNotification
  <2> QED BY <2>1, <2>2, WorkKeeps DEF Destroyed
<1>3. CASE Allow
  <2>1. commands' \in Seq(Command) /\ service' \in Nat /\ up' = TRUE
    BY <1>3, StartServiceUps DEF Allow
  <2>2. UNCHANGED <<ui, calls, toDart, sink, host, posted>> /\ dialogs' \in Nat
    BY <1>3 DEF Allow, dart, SenderQueues
  <2> QED BY <2>1, <2>2 DEF SenderQueues, Unheard, Awaited, Destroyed
<1>4. CASE Deny
  <2>1. UNCHANGED <<ui, calls, sink, host, commands, up, service, posted>> /\ dialogs' \in Nat
        /\ toDart' = IF sink THEN Append(toDart, "ERROR") ELSE toDart
    BY <1>4 DEF Deny, android, SenderQueues
  <2>2. toDart' \in Seq(Message) /\ (sink => Holds(toDart', Ends))
    <3>1. toDart \in Seq(Message) /\ "ERROR" \in Message /\ "ERROR" \in Ends
      BY DEF SenderQueues, Message, Event, Ends
    <3> QED BY <2>1, <3>1, AppendHolds
  <2>3. SenderQueues' /\ Unheard'
    BY <2>1, <2>2 DEF SenderQueues, Unheard
  <2>4. ui' # "Idle" => Awaited'
    <3>1. ui # "Idle" /\ ~sink => Holds(calls', {"startCapture", "stopCapture"})
      BY <2>1 DEF Unheard, Holds
    <3> QED BY <2>1, <2>2, <3>1 DEF Awaited, SenderQueues
  <2> QED BY <2>3, <2>4
<1>5. CASE Recreate
  <2>1. calls' = <<"listen">> /\ toDart' = <<>> /\ posted' = <<>> /\ ui' = "Idle"
        /\ sink' = FALSE /\ host' = FALSE /\ UNCHANGED <<dialogs, commands, up, service>>
    BY <1>5 DEF Recreate, android
  <2>2. calls' \in Seq(Call) /\ calls' # <<>> /\ calls'[1] = "listen"
    BY <2>1 DEF Call
  <2>3. toDart' \in Seq(Message) /\ posted' \in Seq(Event)
    BY <2>1, EmptySeq
  <2> QED BY <2>1, <2>2, <2>3 DEF SenderQueues, Unheard
<1> QED BY <1>1, <1>2, <1>3, <1>4, <1>5

\* Dart takes a message: only CONNECTED leaves the app out of Idle.
LEMMA NativeEventKeeps == ASSUME SenderIInv, OnNativeEvent PROVE SenderIInv'
<1> USE DEF SenderIInv
<1>1. /\ toDart # <<>> /\ toDart' = Tail(toDart) /\ ui' = UiAfter(Head(toDart))
      /\ UNCHANGED <<calls, sink, dialogs, host, commands, up, service, posted>>
  BY DEF OnNativeEvent, activity, android
<1>2. toDart' \in Seq(Message) /\ Head(toDart) \in Message
      /\ (Holds(toDart, Ends) /\ Head(toDart) \notin Ends => Holds(toDart', Ends))
  BY <1>1, TailHolds DEF SenderQueues
<1>3. ui' # "Idle" => ui # "Idle" /\ Head(toDart) = "CONNECTED"
  BY <1>1 DEF UiAfter
<1>4. ui' # "Idle" => Awaited'
  BY <1>1, <1>2, <1>3 DEF Awaited, Destroyed, Ends
<1> QED BY <1>1, <1>2, <1>3, <1>4 DEF SenderQueues, Unheard

\* MainActivity takes a call and answers it, or asks for consent.
LEMMA MethodCallKeeps == ASSUME SenderIInv, OnMethodCall PROVE SenderIInv'
<1> USE DEF SenderIInv
<1> DEFINE h == Head(calls)
<1>1. calls # <<>> /\ calls' = Tail(calls) /\ UNCHANGED <<ui, posted>>
  BY DEF OnMethodCall
<1>2. calls' \in Seq(Call) /\ calls[1] = h
  BY <1>1, TailHolds DEF SenderQueues
<1>3. Unheard => (h # "listen" => sink)
  BY <1>2 DEF Unheard, SenderQueues
<1>4. CASE h = "listen" /\ sink' = TRUE /\ UNCHANGED <<toDart, dialogs, host, android>>
  <2>1. Holds(calls, {"startCapture", "stopCapture"}) => Holds(calls', {"startCapture", "stopCapture"})
    BY <1>1, <1>4, TailHolds DEF SenderQueues
  <2>2. SenderQueues' /\ Unheard'
    BY <1>1, <1>2, <1>4 DEF SenderQueues, Unheard, android
  <2>3. ui' # "Idle" => Awaited'
    BY <1>1, <1>4, <2>1 DEF Awaited, Destroyed, android
  <2> QED BY <2>2, <2>3
<1>5. CASE h = "startCapture" /\ host' = TRUE /\ dialogs' = dialogs + 1 /\ UNCHANGED <<toDart, sink, android>>
  <2>1. sink
    BY <1>3, <1>5
  <2>2. dialogs' \in Nat /\ dialogs' > 0
    BY <1>5 DEF SenderQueues
  <2> QED BY <1>1, <1>2, <1>5, <2>1, <2>2 DEF SenderQueues, Unheard, Awaited, android
<1>6. CASE h = "stopCapture" /\ StartService("STOP") /\ toDart' = Append(toDart, "stopped") /\ UNCHANGED activity
  <2>1. commands' \in Seq(Command) /\ service' \in Nat /\ up' = TRUE
    BY <1>6, StartServiceUps
  <2>2. toDart' \in Seq(Message)
    <3>1. toDart \in Seq(Message) /\ "stopped" \in Message
      BY DEF SenderQueues, Message
    <3> QED BY <1>6, <3>1, AppendHolds
  <2>3. sink
    BY <1>3, <1>6
  <2> QED BY <1>1, <1>2, <1>6, <2>1, <2>2, <2>3 DEF SenderQueues, Unheard, Awaited, Destroyed, activity
<1> QED BY <1>4, <1>5, <1>6 DEF OnMethodCall

\* The main looper hands an event on.
LEMMA DeliverKeeps == ASSUME SenderIInv, Deliver PROVE SenderIInv'
<1> USE DEF SenderIInv
<1>1. /\ posted # <<>> /\ posted' = Tail(posted) /\ toDart' = Append(toDart, Head(posted))
      /\ UNCHANGED <<ui, calls, sink, dialogs, host, commands, up, service>>
  BY DEF Deliver, activity, android
<1>2. posted' \in Seq(Event) /\ Head(posted) \in Event
      /\ (Holds(posted, Ends) /\ Head(posted) \notin Ends => Holds(posted', Ends))
  BY <1>1, TailHolds DEF SenderQueues
<1>3. toDart' \in Seq(Message) /\ (Holds(toDart, Ends) => Holds(toDart', Ends))
      /\ (Head(posted) \in Ends => Holds(toDart', Ends))
  <2>1. toDart \in Seq(Message) /\ Head(posted) \in Message /\ toDart' = Append(toDart, Head(posted))
    BY <1>1, <1>2 DEF SenderQueues, Message
  <2> QED BY <2>1, AppendHolds
<1>4. ui' # "Idle" => Awaited'
  BY <1>1, <1>2, <1>3 DEF Awaited, Destroyed
<1> QED BY <1>1, <1>2, <1>3, <1>4 DEF SenderQueues, Unheard

\* postEvent() appends one event, or nothing.
LEMMA Posts ==
  ASSUME SenderQueues, NEW e \in Event, PostEvent(e)
  PROVE  /\ posted' = posted \/ \E x \in Event : posted' = Append(posted, x)
         /\ sink /\ e \in Ends => Holds(posted', Ends)
<1>1. sink => posted' = Append(posted, e)
  BY DEF PostEvent
<1>2. sink /\ e \in Ends => Holds(posted', Ends)
  BY <1>1, AppendHolds DEF SenderQueues
<1> QED BY <1>2 DEF PostEvent

\* The service takes a command.
LEMMA CommandKeeps == ASSUME SenderIInv, ServiceCommand PROVE SenderIInv'
<1> USE DEF SenderIInv
<1> DEFINE c == Head(commands)
           rest == Tail(commands)
<1>1. commands # <<>> /\ UNCHANGED <<dart, activity>> /\ (OnStop(c) \/ OnRefused(c) \/ OnStart(c) \/ OnDestroy(c))
  BY DEF ServiceCommand
<1>2. rest \in Seq(Command) /\ (c \notin Destroys => (Holds(commands, Destroys) => Holds(rest, Destroys)))
  BY <1>1, TailHolds DEF SenderQueues
<1> HIDE DEF c, rest
<1>3. CASE OnStop(c)
  <2>1. c \notin Destroys /\ StopSelf(c.to, rest) /\ posted' = posted
    BY <1>3 DEF OnStop, Destroys, rest
  <2>2. commands' \in Seq(Command) /\ service' \in Nat /\ up' \in BOOLEAN /\ (Destroyed => Destroyed')
    BY <1>2, <2>1, StopSelfDestroys
  <2> QED BY <1>1, <2>1, <2>2, WorkKeeps
<1>4. CASE OnRefused(c)
  <2>1. c \notin Destroys /\ StopSelf(c.to, rest) /\ PostEvent("ERROR")
    BY <1>4 DEF OnRefused, Destroys, rest
  <2>2. commands' \in Seq(Command) /\ service' \in Nat /\ up' \in BOOLEAN /\ (Destroyed => Destroyed')
    BY <1>2, <2>1, StopSelfDestroys
  <2>3. posted' = posted \/ \E x \in Event : posted' = Append(posted, x)
    BY <2>1, Posts DEF Event
  <2> QED BY <1>1, <2>2, <2>3, WorkKeeps
<1>5. CASE OnStart(c)
  <2>1. c \notin Destroys /\ commands' = rest /\ UNCHANGED <<up, service, posted>>
    BY <1>5 DEF OnStart, Destroys, rest
  <2>2. up' \in BOOLEAN /\ service' \in Nat /\ (Destroyed => Destroyed')
    BY <1>2, <2>1 DEF SenderQueues, Destroyed
  <2> QED BY <1>1, <1>2, <2>1, <2>2, WorkKeeps
<1>6. CASE OnDestroy(c)
  <2>1. commands' = rest /\ UNCHANGED <<up, service>> /\ PostEvent("DISCONNECTED")
    BY <1>6 DEF OnDestroy, rest
  <2>2. (posted' = posted \/ \E x \in Event : posted' = Append(posted, x))
        /\ (sink => Holds(posted', Ends))
    BY <2>1, Posts DEF Event, Ends, Message
  <2>3. up' \in BOOLEAN /\ service' \in Nat
    BY <2>1 DEF SenderQueues
  <2> QED BY <1>1, <1>2, <2>1, <2>2, <2>3, WorkKeeps
<1> QED BY <1>1, <1>3, <1>4, <1>5, <1>6

\* The stream threads and the encoders.
LEMMA ThreadKeeps ==
  ASSUME SenderIInv, NEW t \in Thread, Pipeline(t) \/ HelloAck(t) \/ EncoderError(t)
  PROVE  SenderIInv'
<1> USE DEF SenderIInv
<1>1. UNCHANGED <<dart, activity>>
  BY DEF Pipeline, HelloAck, EncoderError, Prepare, OpenSocket, NoHelloAck, CreateVirtualDisplay,
         StartEncoder, StartAudioCapture, Fails, Raises, Untouched
<1>2. \/ UNCHANGED <<android, posted>>
      \/ UNCHANGED android /\ \E e \in Event : PostEvent(e)
      \/ \E s : StopSelf(s, commands) /\ PostEvent("ERROR")
  BY DEF Pipeline, HelloAck, EncoderError, Prepare, OpenSocket, NoHelloAck, CreateVirtualDisplay,
         StartEncoder, StartAudioCapture, Fails, Raises, Untouched, Event
<1>3. posted' = posted \/ \E x \in Event : posted' = Append(posted, x)
  BY <1>2, Posts DEF Event
<1>4. commands' \in Seq(Command) /\ service' \in Nat /\ up' \in BOOLEAN /\ (Destroyed => Destroyed')
  <2>1. CASE UNCHANGED android
    BY <2>1 DEF android, SenderQueues, Destroyed
  <2>2. ASSUME NEW s, StopSelf(s, commands)
        PROVE  commands' \in Seq(Command) /\ service' \in Nat /\ up' \in BOOLEAN /\ (Destroyed => Destroyed')
    BY <2>2, StopSelfDestroys DEF SenderQueues
  <2> QED BY <1>2, <2>1, <2>2
<1> QED BY <1>1, <1>3, <1>4, WorkKeeps

\* The initial state satisfies the invariant.
LEMMA SenderStarts == SenderInit => SenderIInv
<1> SUFFICES ASSUME SenderInit PROVE SenderIInv
  OBVIOUS
<1>1. calls = <<"listen">> /\ ui = "Idle" /\ dialogs = 0 /\ service = 0 /\ sink = FALSE /\ host = FALSE /\ up = FALSE
      /\ toDart = <<>> /\ posted = <<>> /\ commands = <<>>
  BY DEF SenderInit, None
<1>2. toDart \in Seq(Message) /\ posted \in Seq(Event) /\ commands \in Seq(Command)
  BY <1>1, EmptySeq
<1>3. calls \in Seq(Call) /\ calls # <<>> /\ calls[1] = "listen"
  BY <1>1 DEF Call
<1> QED BY <1>1, <1>2, <1>3 DEF SenderIInv, SenderQueues, Unheard

\* The invariant holds of every reachable state.
THEOREM SenderInvariance == SenderSpec => []SenderIInv
<1>1. SenderIInv /\ [SenderNext]_senderVars => SenderIInv'
  <2>1. ASSUME SenderIInv, UNCHANGED senderVars PROVE SenderIInv'
    BY <2>1 DEF SenderIInv, SenderQueues, Unheard, Awaited, Destroyed, senderVars, dart, activity, android
  <2> QED BY <2>1, UserKeeps, NativeEventKeeps, MethodCallKeeps, DeliverKeeps, CommandKeeps, ThreadKeeps DEF SenderNext
<1> QED BY <1>1, SenderStarts, PTL DEF SenderSpec

\* When nothing is left of a session the app shows Idle, for any number of taps,
\* disturbances, failures and recreated activities.
THEOREM IdleInTheEnd == SenderSpec => []UiReturnsToIdle
<1>1. SenderIInv => UiReturnsToIdle
  <2> SUFFICES ASSUME SenderIInv, Settled, ui # "Idle" PROVE FALSE
    BY DEF UiReturnsToIdle
  <2>1. Awaited /\ calls = <<>> /\ toDart = <<>> /\ posted = <<>> /\ commands = <<>> /\ dialogs = 0 /\ ~up
    BY DEF SenderIInv, Settled, Quiet
  <2>2. \A S : ~Holds(calls, S) /\ ~Holds(toDart, S) /\ ~Holds(posted, S) /\ ~Holds(commands, S)
    BY <2>1, EmptySeq DEF Holds
  <2> QED BY <2>1, <2>2 DEF Awaited, Destroyed
<1> QED BY <1>1, SenderInvariance, PTL

-----------------------------------------------------------------------------
(* The safety half of ConnectingEnds: a screen with a spinner is shown only *)
(* while something is under way that ends it.                              *)

Starts == {c \in Command : c.command = "START"}

\* A stream thread has not told the app yet whether it is connected.
AtWork == \E t \in Thread : stream[t].at \in {"prepare", "connect", "hello"}

\* "Connecting": the tap, the consent dialog, the START, the thread it makes, or any
\* event; "Stopping": the call, or an answer to it.
SpinnerEnds ==
  /\ ui = "Connecting" => \/ Holds(calls, {"startCapture"}) \/ dialogs > 0
                          \/ Holds(commands, Starts) \/ AtWork
                          \/ posted # <<>> \/ toDart # <<>>
  /\ ui = "Stopping" => Holds(calls, {"stopCapture"}) \/ Holds(toDart, Ends)

Stage   == {"unborn", "prepare", "connect", "hello", "display", "encode", "audio", "done"}
Streams == stream \in [Thread -> [of : Nat, at : Stage]]

SpinnerIInv == SenderIInv /\ Streams /\ SpinnerEnds

\* A command leaves the queue only when the service takes it.
LEMMA StopSelfQueues ==
  ASSUME SenderQueues, NEW s, NEW queue \in Seq(Command), StopSelf(s, queue), Holds(queue, Starts)
  PROVE  Holds(commands', Starts)
<1>1. CASE up /\ s = service
  <2> DEFINE d == [command |-> "DESTROY", to |-> s, host |-> FALSE]
  <2>1. d \in Command
    BY <1>1 DEF Command, SenderQueues
  <2>2. commands' = Append(queue, d)
    BY <1>1 DEF StopSelf
  <2> HIDE DEF d
  <2> QED BY <2>1, <2>2, AppendHolds
<1>2. CASE ~(up /\ s = service)
  BY <1>2 DEF StopSelf
<1> QED BY <1>1, <1>2

LEMMA StartServiceQueues ==
  ASSUME SenderQueues, NEW k \in {"START", "STOP"}, StartService(k)
  PROVE  /\ k = "START" => Holds(commands', Starts)
         /\ Holds(commands, Starts) => Holds(commands', Starts)
<1> DEFINE c == [command |-> k, to |-> IF up THEN service ELSE service + 1, host |-> host]
<1>1. c \in Command /\ (k = "START" => c \in Starts)
  <2>1. (IF up THEN service ELSE service + 1) \in Nat /\ host \in BOOLEAN
    BY DEF SenderQueues
  <2> QED BY <2>1 DEF Command, Starts
<1>2. commands' = Append(commands, c) /\ commands \in Seq(Command)
  BY DEF StartService, SenderQueues
<1> HIDE DEF c
<1> QED BY <1>1, <1>2, AppendHolds

\* Steps that neither the user nor Dart take: a START or a thread at work becomes
\* another one, or an event.
LEMMA WorkSpins ==
  ASSUME SenderIInv, SpinnerEnds, UNCHANGED <<dart, activity>>,
         posted' = posted \/ \E e \in Event : posted' = Append(posted, e),
         sink /\ (Holds(commands, Starts) \/ AtWork) => Holds(commands', Starts) \/ AtWork' \/ posted' # <<>>
  PROVE  SpinnerEnds'
<1>1. UNCHANGED <<ui, calls, toDart, sink, dialogs>>
  BY DEF dart, activity
<1>2. posted # <<>> => posted' # <<>>
  <2>1. ASSUME NEW e \in Event, posted' = Append(posted, e) PROVE posted' # <<>>
    BY <2>1, AppendHolds DEF SenderIInv, SenderQueues
  <2> QED BY <2>1
<1>3. ui = "Connecting" /\ ~sink => Holds(calls, {"startCapture"})
  BY DEF SenderIInv, Unheard
<1>4. sink \in BOOLEAN
  BY DEF SenderIInv, SenderQueues
<1>5. \A S : /\ Holds(calls', S) <=> Holds(calls, S)
             /\ Holds(toDart', S) <=> Holds(toDart, S)
  BY <1>1 DEF Holds
<1> QED BY <1>1, <1>2, <1>3, <1>4, <1>5 DEF SpinnerEnds

\* The user, and the answers to the consent dialog.
LEMMA UserSpins ==
  ASSUME SpinnerIInv, StartMirroring \/ StopMirroring \/ StopOnNotification \/ Allow \/ Deny \/ Recreate
  PROVE  Streams' /\ SpinnerEnds'
<1> USE DEF SpinnerIInv
<1>0. Streams'
  BY DEF Streams, StartMirroring, StopMirroring, StopOnNotification, Allow, Deny, Recreate, threads
<1>1. SenderQueues
  BY DEF SenderIInv
<1>2. ASSUME NEW c \in Call, calls' = Append(calls, c) PROVE Holds(calls', {c})
  BY <1>1, <1>2, AppendHolds DEF SenderQueues
<1>3. CASE StartMirroring
  BY <1>0, <1>2, <1>3 DEF StartMirroring, SpinnerEnds, Call
<1>4. CASE StopMirroring
  BY <1>0, <1>2, <1>4 DEF StopMirroring, SpinnerEnds, Call
<1>5. CASE StopOnNotification
  <2>1. Holds(commands, Starts) => Holds(commands', Starts)
    BY <1>1, <1>5, StartServiceQueues DEF StopOnNotification
  <2>2. UNCHANGED <<dart, activity, posted, stream>>
    BY <1>5 DEF StopOnNotification, threads
  <2>3. AtWork' <=> AtWork
    BY <2>2 DEF AtWork
  <2> QED BY <1>0, <2>1, <2>2, <2>3, WorkSpins
<1>6. CASE Allow
  <2>1. Holds(commands', Starts)
    BY <1>1, <1>6, StartServiceQueues DEF Allow
  <2>2. UNCHANGED <<ui, calls, toDart>>
    BY <1>6 DEF Allow, dart
  <2> QED BY <1>0, <2>1, <2>2 DEF SpinnerEnds, Holds
<1>7. CASE Deny
  <2>1. UNCHANGED <<ui, calls, sink, commands, posted>> /\ toDart' = IF sink THEN Append(toDart, "ERROR") ELSE toDart
    BY <1>7 DEF Deny, android
  <2>2. "ERROR" \in Message /\ toDart \in Seq(Message)
    BY <1>1 DEF SenderQueues, Message, Event
  <2>3. /\ sink => toDart' # <<>>
        /\ Holds(toDart, Ends) => Holds(toDart', Ends)
    BY <2>1, <2>2, AppendHolds
  <2>4. ui = "Connecting" /\ ~sink => Holds(calls, {"startCapture"})
    BY DEF SenderIInv, Unheard
  <2>5. \A S : Holds(calls', S) <=> Holds(calls, S)
    BY <2>1 DEF Holds
  <2> QED BY <1>0, <2>1, <2>3, <2>4, <2>5 DEF SpinnerEnds
<1>8. CASE Recreate
  BY <1>0, <1>8 DEF Recreate, SpinnerEnds
<1> QED BY <1>3, <1>4, <1>5, <1>6, <1>7, <1>8

\* Any message takes the app out of Connecting, any but CONNECTED out of Stopping.
LEMMA NativeEventSpins == ASSUME SpinnerIInv, OnNativeEvent PROVE Streams' /\ SpinnerEnds'
<1> USE DEF SpinnerIInv
<1>1. /\ toDart # <<>> /\ toDart' = Tail(toDart) /\ ui' = UiAfter(Head(toDart))
      /\ calls' = calls /\ stream' = stream
  BY DEF OnNativeEvent, threads
<1>2. ui' # "Connecting" /\ (ui' = "Stopping" => ui = "Stopping" /\ Head(toDart) = "CONNECTED")
  BY <1>1 DEF UiAfter
<1>3. Head(toDart) = "CONNECTED" /\ Holds(toDart, Ends) => Holds(toDart', Ends)
  BY <1>1, TailHolds DEF SenderIInv, SenderQueues, Ends
<1> QED BY <1>1, <1>2, <1>3 DEF SpinnerEnds, Streams, Holds

\* MainActivity takes a call: the tap becomes a dialog, the stop an answer.
LEMMA MethodCallSpins == ASSUME SpinnerIInv, OnMethodCall PROVE Streams' /\ SpinnerEnds'
<1> USE DEF SpinnerIInv
<1> DEFINE h == Head(calls)
<1>1. calls # <<>> /\ calls' = Tail(calls) /\ UNCHANGED <<ui, posted, stream>>
  BY DEF OnMethodCall, threads
<1>2. SenderQueues
  BY DEF SenderIInv
<1>3. \A S : h \notin S /\ Holds(calls, S) => Holds(calls', S)
  BY <1>1, <1>2, TailHolds DEF SenderQueues
<1>4. Streams' /\ (AtWork' <=> AtWork)
  BY <1>1 DEF Streams, AtWork
<1>5. CASE h = "listen" /\ UNCHANGED <<toDart, dialogs, host, android>>
  <2>1. UNCHANGED <<toDart, dialogs, commands>>
    BY <1>5 DEF android
  <2>2. h \notin {"startCapture"} /\ h \notin {"stopCapture"}
    BY <1>5
  <2>3. \A S : /\ Holds(toDart', S) <=> Holds(toDart, S)
               /\ Holds(commands', S) <=> Holds(commands, S)
    BY <2>1 DEF Holds
  <2> QED BY <1>1, <1>3, <1>4, <2>1, <2>2, <2>3 DEF SpinnerEnds
<1>6. CASE h = "startCapture" /\ dialogs' = dialogs + 1 /\ toDart' = toDart
  <2>1. dialogs' > 0
    BY <1>2, <1>6 DEF SenderQueues
  <2>2. h \notin {"stopCapture"} /\ (Holds(toDart', Ends) <=> Holds(toDart, Ends))
    BY <1>6 DEF Holds
  <2> QED BY <1>1, <1>3, <1>4, <2>1, <2>2 DEF SpinnerEnds
<1>7. CASE h = "stopCapture" /\ toDart' = Append(toDart, "stopped")
  <2>1. toDart \in Seq(Message) /\ "stopped" \in Message /\ "stopped" \in Ends
    BY <1>2 DEF SenderQueues, Message, Event, Ends
  <2>2. toDart' # <<>> /\ Holds(toDart', Ends)
    BY <1>7, <2>1, AppendHolds
  <2> QED BY <1>4, <2>2 DEF SpinnerEnds
<1> QED BY <1>5, <1>6, <1>7 DEF OnMethodCall

\* The main looper hands an event on.
LEMMA DeliverSpins == ASSUME SpinnerIInv, Deliver PROVE Streams' /\ SpinnerEnds'
<1> USE DEF SpinnerIInv
<1>1. /\ posted # <<>> /\ toDart' = Append(toDart, Head(posted)) /\ UNCHANGED <<ui, calls, stream>>
  BY DEF Deliver, threads
<1>2. toDart \in Seq(Message) /\ Head(posted) \in Message
  BY <1>1, TailHolds DEF SenderIInv, SenderQueues, Message
<1>3. toDart' # <<>> /\ (Holds(toDart, Ends) => Holds(toDart', Ends))
  BY <1>1, <1>2, AppendHolds
<1>4. \A S : Holds(calls', S) <=> Holds(calls, S)
  BY <1>1 DEF Holds
<1> QED BY <1>1, <1>3, <1>4 DEF SpinnerEnds, Streams

\* The service takes a command: a START makes a thread, or is refused.
LEMMA CommandSpins == ASSUME SpinnerIInv, ServiceCommand PROVE Streams' /\ SpinnerEnds'
<1> USE DEF SpinnerIInv
<1> DEFINE c == Head(commands)
           rest == Tail(commands)
<1>1. commands # <<>> /\ UNCHANGED <<dart, activity>> /\ (OnStop(c) \/ OnRefused(c) \/ OnStart(c) \/ OnDestroy(c))
  BY DEF ServiceCommand
<1>2. SenderQueues
  BY DEF SenderIInv
<1>3. /\ c \in Command /\ rest \in Seq(Command)
      /\ c.command # "START" => (Holds(commands, Starts) => Holds(rest, Starts))
  <2>1. c.command # "START" => c \notin Starts
    BY DEF Starts
  <2>2. c \in Command /\ rest \in Seq(Command) /\ (c \notin Starts => (Holds(commands, Starts) => Holds(rest, Starts)))
    BY <1>1, <1>2, TailHolds DEF SenderQueues
  <2> QED BY <2>1, <2>2
<1>4. UNCHANGED stream => Streams' /\ (AtWork' <=> AtWork)
  BY DEF Streams, AtWork
<1> HIDE DEF c, rest
<1>5. CASE OnStop(c)
  <2>1. c.command # "START" /\ StopSelf(c.to, rest) /\ UNCHANGED <<posted, stream>>
    BY <1>5 DEF OnStop, threads, rest
  <2>2. Holds(commands, Starts) => Holds(commands', Starts)
    BY <1>2, <1>3, <2>1, StopSelfQueues
  <2> QED BY <1>1, <1>4, <2>1, <2>2, WorkSpins
<1>6. CASE OnRefused(c)
  <2>1. PostEvent("ERROR") /\ UNCHANGED stream
    BY <1>6 DEF OnRefused, threads
  <2>2. (posted' = posted \/ \E x \in Event : posted' = Append(posted, x)) /\ (sink => Holds(posted', Ends))
    BY <1>2, <2>1, Posts DEF Event, Ends, Message
  <2>3. sink => posted' # <<>>
    BY <2>2, EmptySeq DEF Holds
  <2> QED BY <1>1, <1>4, <2>1, <2>2, <2>3, WorkSpins
<1>7. CASE OnStart(c)
  <2>1. PICK t \in Thread : stream' = [stream EXCEPT ![t] = [of |-> c.to, at |-> "prepare"]]
    BY <1>7 DEF OnStart
  <2>2. c.to \in Nat
    BY <1>3 DEF Command
  <2>3. Streams' /\ stream'[t] = [of |-> c.to, at |-> "prepare"]
    BY <2>1, <2>2 DEF Streams, Stage
  <2>4. AtWork'
    BY <2>3 DEF AtWork
  <2>5. posted' = posted
    BY <1>7 DEF OnStart
  <2> QED BY <1>1, <2>3, <2>4, <2>5, WorkSpins
<1>8. CASE OnDestroy(c)
  <2>1. c.command # "START" /\ commands' = rest /\ UNCHANGED stream /\ PostEvent("DISCONNECTED")
    BY <1>8 DEF OnDestroy, Teardown, rest
  <2>2. posted' = posted \/ \E x \in Event : posted' = Append(posted, x)
    BY <1>2, <2>1, Posts DEF Event
  <2> QED BY <1>1, <1>3, <1>4, <2>1, <2>2, WorkSpins
<1> QED BY <1>1, <1>5, <1>6, <1>7, <1>8

\* A stream thread goes from one part to another.
LEMMA StageChanges ==
  ASSUME Streams, NEW t \in Thread, NEW from,
         NEW to \in {"connect", "hello", "display", "encode", "audio", "done"}, Goes(t, from, to)
  PROVE  /\ Streams' /\ stream[t].at = from /\ stream'[t].at = to
         /\ \A u \in Thread : u # t => stream'[u].at = stream[u].at
BY DEF Streams, Goes, Stage

\* A stream thread goes on, or fails and says so.
LEMMA ThreadSpins ==
  ASSUME SpinnerIInv, NEW t \in Thread, Pipeline(t) \/ HelloAck(t) \/ EncoderError(t)
  PROVE  Streams' /\ SpinnerEnds'
<1> USE DEF SpinnerIInv
<1>1. UNCHANGED <<dart, activity>>
  BY DEF Pipeline, HelloAck, EncoderError, Prepare, OpenSocket, NoHelloAck, CreateVirtualDisplay,
         StartEncoder, StartAudioCapture, Fails, Raises, Untouched
<1>2. SenderQueues
  BY DEF SenderIInv
<1>3. /\ posted' = posted \/ \E e \in Event : PostEvent(e)
      /\ UNCHANGED commands \/ \E s : StopSelf(s, commands)
  BY DEF Pipeline, HelloAck, EncoderError, Prepare, OpenSocket, NoHelloAck, CreateVirtualDisplay,
         StartEncoder, StartAudioCapture, Fails, Raises, Untouched, Event, android
<1>4. posted' = posted \/ \E x \in Event : posted' = Append(posted, x)
  BY <1>2, <1>3, Posts
<1>5. Holds(commands, Starts) => Holds(commands', Starts)
  <2>1. ASSUME NEW s, StopSelf(s, commands), Holds(commands, Starts) PROVE Holds(commands', Starts)
    BY <1>2, <2>1, StopSelfQueues DEF SenderQueues
  <2> QED BY <1>3, <2>1 DEF Holds
<1>6. \/ stream' = stream
      \/ Goes(t, "prepare", "connect") \/ Goes(t, "connect", "hello")
      \/ \E from \in {"prepare", "connect", "hello"} : Raises(t, from)
      \/ Goes(t, "hello", "display") /\ PostEvent("CONNECTED")
      \/ \E from \in {"display", "encode", "audio"}, to \in {"encode", "audio", "done"} : Goes(t, from, to)
  BY DEF Pipeline, HelloAck, EncoderError, Prepare, OpenSocket, NoHelloAck, CreateVirtualDisplay,
         StartEncoder, StartAudioCapture, Fails, Raises, threads
<1>7. Streams' /\ \A u \in Thread : u # t => stream'[u].at = stream[u].at
  <2>1. CASE stream' = stream
    BY <2>1 DEF Streams
  <2> QED BY <1>6, <2>1, StageChanges DEF Raises
<1>8. \/ stream'[t].at = stream[t].at \/ stream[t].at \notin {"prepare", "connect", "hello"}
      \/ stream'[t].at \in {"connect", "hello"}
      \/ \E e \in Event : PostEvent(e)
  BY <1>6, StageChanges DEF Raises, Event
<1>9. (\E e \in Event : PostEvent(e)) /\ sink => posted' # <<>>
  <2>1. ASSUME NEW e \in Event, PostEvent(e), sink PROVE posted' # <<>>
    <3>1. posted' = Append(posted, e)
      BY <2>1 DEF PostEvent
    <3> QED BY <1>2, <3>1, AppendHolds DEF SenderQueues
  <2> QED BY <2>1
<1>10. sink /\ AtWork => AtWork' \/ posted' # <<>>
  BY <1>7, <1>8, <1>9 DEF AtWork
<1> QED BY <1>1, <1>4, <1>5, <1>7, <1>10, WorkSpins

\* Each screen with a spinner is shown only while something is under way that ends
\* it: the tap, the dialog, the START, the thread it made or the event that thread
\* posted when it connected or failed.
THEOREM SpinnersEnd == SenderSpec => []SpinnerEnds
<1>1. SenderInit => Streams /\ SpinnerEnds
  <2> SUFFICES ASSUME SenderInit PROVE Streams /\ SpinnerEnds
    OBVIOUS
  <2>1. Streams
    BY DEF SenderInit, Streams, Stage, None
  <2>2. SpinnerEnds
    BY DEF SenderInit, SpinnerEnds
  <2> QED BY <2>1, <2>2
<1>2. SpinnerIInv /\ [SenderNext]_senderVars => Streams' /\ SpinnerEnds'
  <2>1. ASSUME SpinnerIInv, UNCHANGED senderVars PROVE Streams' /\ SpinnerEnds'
    BY <2>1 DEF SpinnerIInv, Streams, SpinnerEnds, AtWork, Holds, senderVars, dart, activity, android, threads
  <2> QED BY <2>1, UserSpins, NativeEventSpins, MethodCallSpins, DeliverSpins, CommandSpins, ThreadSpins DEF SenderNext
<1> QED BY <1>1, <1>2, SenderInvariance, PTL DEF SenderSpec, SpinnerIInv

-----------------------------------------------------------------------------
(* The types of the sender, with the bounds they name: no consent dialog   *)
(* without a tap of its own, and no service without a tap or a Stop, so    *)
(* that Service holds every instance there can be.                         *)

Places(q, S) == {i \in 1 .. Len(q) : q[i] \in S}
Count(q, S) == Cardinality(Places(q, S))

ServiceCommands == [command : {"START", "STOP", "DESTROY"}, to : Service, host : BOOLEAN]
Fields == [projection : Thread \union {None}, encoder : Thread \union {None, Unconfigured},
           socket : Thread \union {None}, isRunning : BOOLEAN]

\* Each tap opens one dialog at most, and each answer or Stop makes one service.
Paid ==
  /\ user \in [starts : 0 .. MaxStarts, breaks : 0 .. MaxBreaks]
  /\ dialogs + Count(calls, {"startCapture"}) <= user.starts
  /\ service + dialogs + Count(calls, {"startCapture"}) + Count(calls, {"stopCapture"}) <= user.starts + user.breaks

\* Commands go to services there are.
Addressed == commands \in Seq(ServiceCommands) /\ (up => service # None)

\* What the stream threads keep.
ThreadsTyped ==
  /\ stream \in [Thread -> [of : Service \union {None}, at : Stage]]
  /\ field \in [Service -> Fields]
  /\ link \in [Thread -> {"none", "open", "closed"}]
  /\ encoding \in [Thread -> Thread \union {None}]

PaidIInv == Paid /\ Addressed /\ ThreadsTyped

\* A queue holds a number of calls; one more may be one more of those.
LEMMA CountAppend ==
  ASSUME NEW q \in Seq(Call), NEW c \in Call, NEW S
  PROVE  /\ IsFiniteSet(Places(q, S)) /\ Count(q, S) \in Nat
         /\ Count(<<>>, S) = 0
         /\ Count(Append(q, c), S) = IF c \in S THEN Count(q, S) + 1 ELSE Count(q, S)
<1> DEFINE n == Len(q)
           r == Append(q, c)
           I == Places(q, S)
<1>1. n \in Nat /\ Len(r) = n + 1 /\ r[n + 1] = c /\ \A i \in 1 .. n : r[i] = q[i]
  BY AppendProperties, LenProperties
<1>2. IsFiniteSet(I) /\ Count(q, S) = Cardinality(I) /\ Count(q, S) \in Nat
  <2>1. n \in Int /\ 1 \in Int /\ I \in SUBSET (1 .. n)
    BY <1>1 DEF Places
  <2>2. IsFiniteSet(1 .. n)
    BY ONLY <2>1, FS_Interval
  <2>3. Count(q, S) = Cardinality(I)
    BY DEF Count
  <2> HIDE DEF I, n
  <2> QED BY <2>1, <2>2, <2>3, FS_Subset, FS_CardinalityType
<1>3. Count(<<>>, S) = 0
  <2>1. Places(<<>>, S) = {}
    BY DEF Places
  <2> QED BY <2>1, FS_EmptySet DEF Count
<1>4. I = {i \in 1 .. n : q[i] \in S}
  BY DEF Places
<1> HIDE DEF n, r, I
<1>5. /\ \A i : i \in 1 .. n + 1 <=> i = n + 1 \/ i \in 1 .. n
      /\ n + 1 \notin 1 .. n
  BY <1>1
<1>6. CASE c \in S
  <2>1. Places(r, S) = I \union {n + 1} /\ n + 1 \notin I
    BY <1>1, <1>4, <1>5, <1>6 DEF Places
  <2>2. Cardinality(I \union {n + 1}) = Cardinality(I) + 1
    BY <1>2, <2>1, FS_AddElement
  <2> QED BY <1>2, <1>3, <1>6, <2>1, <2>2 DEF Count, r, I
<1>7. CASE c \notin S
  <2>1. Places(r, S) = I
    BY <1>1, <1>4, <1>5, <1>7 DEF Places
  <2>2. Count(r, S) = Cardinality(I)
    BY <2>1 DEF Count
  <2> QED BY <1>2, <1>3, <1>7, <2>2 DEF r, I
<1> QED BY <1>6, <1>7

\* A call that is taken may be one less.
LEMMA CountTail ==
  ASSUME NEW q \in Seq(Call), q # <<>>, NEW S
  PROVE  /\ Count(q, S) \in Nat /\ Count(Tail(q), S) \in Nat
         /\ Count(Tail(q), S) <= IF Head(q) \in S THEN Count(q, S) - 1 ELSE Count(q, S)
<1> DEFINE n == Len(q)
           r == Tail(q)
           I == Places(q, S)
           J == Places(r, S)
           K == I \ {1}
           f == [i \in K |-> i - 1]
<1>1. n \in Nat \ {0} /\ q[1] = Head(q)
  BY EmptySeq, LenProperties
<1>2. r \in Seq(Call) /\ Len(r) = n - 1 /\ \A j \in 1 .. Len(r) : r[j] = q[j + 1]
  BY HeadTailProperties
<1>3. /\ IsFiniteSet(I) /\ Count(q, S) = Cardinality(I) /\ Count(q, S) \in Nat
      /\ Count(r, S) = Cardinality(J) /\ Count(r, S) \in Nat
  <2>1. "listen" \in Call
    BY DEF Call
  <2>2. Count(q, S) = Cardinality(I) /\ Count(r, S) = Cardinality(J)
    BY DEF Count
  <2> QED BY <1>2, <2>1, <2>2, CountAppend
<1>4. IsFiniteSet(K) /\ Cardinality(K) = IF 1 \in I THEN Cardinality(I) - 1 ELSE Cardinality(I)
  <2> HIDE DEF I
  <2> QED BY <1>3, FS_RemoveElement
<1>5. 1 \in I <=> Head(q) \in S
  BY <1>1 DEF Places
<1>6. f \in Surjection(K, J)
  <2>1. ASSUME NEW j \in J PROVE j + 1 \in K /\ f[j + 1] = j
    <3>1. j \in 1 .. n - 1 /\ r[j] \in S
      BY <1>2 DEF Places
    <3>2. j + 1 \in 1 .. n /\ j + 1 # 1 /\ (j + 1) - 1 = j /\ q[j + 1] \in S
      BY <1>1, <1>2, <3>1
    <3> QED BY <3>2 DEF Places
  <2>2. ASSUME NEW i \in K PROVE i - 1 \in J
    <3>1. i \in 1 .. n /\ i # 1 /\ q[i] \in S
      BY DEF Places
    <3>2. i - 1 \in 1 .. Len(r) /\ (i - 1) + 1 = i
      BY <1>1, <1>2, <3>1
    <3> QED BY <1>2, <3>1, <3>2 DEF Places
  <2>3. f \in [K -> J]
    <3> HIDE DEF K, J
    <3> QED BY <2>2
  <2> HIDE DEF f, K, J
  <2> QED BY <2>1, <2>3 DEF Surjection
<1>7. Cardinality(J) <= Cardinality(K)
  <2> HIDE DEF f, K, J
  <2> QED BY <1>4, <1>6, FS_Surjection
<1> HIDE DEF n, r, I, J, K, f
<1>8. Count(r, S) \in Nat /\ Count(r, S) <= IF Head(q) \in S THEN Count(q, S) - 1 ELSE Count(q, S)
  BY <1>3, <1>4, <1>5, <1>7
<1> QED BY <1>3, <1>8 DEF r

\* The call of a new activity is neither a tap nor a Stop.
LEMMA OnlyListens ==
  ASSUME NEW q, q = <<"listen">>, NEW S, "listen" \notin S PROVE Count(q, S) = 0
<1>1. Len(q) = 1 /\ q[1] = "listen"
  OBVIOUS
<1>2. Places(q, S) = {}
  BY <1>1 DEF Places
<1> QED BY <1>2, FS_EmptySet DEF Count

\* startService() makes at most one service, and only if none is up.
LEMMA StartServicePaid ==
  ASSUME SenderQueues, Addressed, NEW k \in {"START", "STOP"}, StartService(k),
         IF up THEN service \in Service ELSE service + 1 \in Service
  PROVE  Addressed' /\ service' \in Nat /\ service' <= service + 1 /\ (up => service' = service)
<1> DEFINE s == IF up THEN service ELSE service + 1
           c == [command |-> k, to |-> s, host |-> host]
<1>1. s \in Service /\ host \in BOOLEAN /\ service \in Nat
  BY DEF SenderQueues
<1>2. c \in ServiceCommands
  BY <1>1 DEF ServiceCommands
<1>3. up' = TRUE /\ service' = s /\ commands' = Append(commands, c)
  BY DEF StartService
<1>4. s # None
  BY <1>1 DEF Service, None
<1>5. service' \in Nat /\ service' <= service + 1 /\ (up => service' = service)
  BY <1>1, <1>3
<1> HIDE DEF c, s
<1>6. commands' \in Seq(ServiceCommands)
  BY <1>2, <1>3, AppendProperties DEF Addressed
<1> QED BY <1>3, <1>4, <1>5, <1>6 DEF Addressed

\* A service that stops itself is one there is.
LEMMA StopSelfPaid ==
  ASSUME SenderQueues, Addressed, service \in Service \union {None},
         NEW s, NEW queue \in Seq(ServiceCommands), StopSelf(s, queue)
  PROVE  Addressed' /\ service' = service
<1>1. CASE up /\ s = service
  <2> DEFINE d == [command |-> "DESTROY", to |-> s, host |-> FALSE]
  <2>1. d \in ServiceCommands
    BY <1>1 DEF ServiceCommands, Addressed
  <2>2. commands' = Append(queue, d) /\ up' = FALSE /\ service' = service
    BY <1>1 DEF StopSelf
  <2> HIDE DEF d
  <2>3. commands' \in Seq(ServiceCommands)
    BY <2>1, <2>2, AppendProperties
  <2> QED BY <2>2, <2>3 DEF Addressed
<1>2. CASE ~(up /\ s = service)
  BY <1>2 DEF StopSelf, Addressed
<1> QED BY <1>1, <1>2

\* What is paid for is within the bounds.
LEMMA WithinBounds ==
  ASSUME SenderIInv, Paid
  PROVE  /\ Count(calls, {"startCapture"}) \in Nat /\ Count(calls, {"stopCapture"}) \in Nat
         /\ user.starts \in 0 .. MaxStarts /\ user.breaks \in 0 .. MaxBreaks /\ MaxStarts \in Nat /\ MaxBreaks \in Nat
         /\ dialogs \in 0 .. MaxStarts /\ service \in Service \union {None}
         /\ dialogs > 0 \/ Count(calls, {"stopCapture"}) > 0 => service + 1 \in Service
         /\ dialogs \in Nat /\ service \in Nat
<1>1. Count(calls, {"startCapture"}) \in Nat /\ Count(calls, {"stopCapture"}) \in Nat
  <2>1. calls \in Seq(Call) /\ "listen" \in Call
    BY DEF SenderIInv, SenderQueues, Call
  <2> QED BY <2>1, CountAppend
<1>2. user.starts \in 0 .. MaxStarts /\ user.breaks \in 0 .. MaxBreaks /\ MaxStarts \in Nat /\ MaxBreaks \in Nat
  BY SenderAssumption DEF Paid
<1>3. dialogs \in Nat /\ service \in Nat
  BY DEF SenderIInv, SenderQueues
<1>4. /\ dialogs + Count(calls, {"startCapture"}) <= user.starts
      /\ service + dialogs + Count(calls, {"startCapture"}) + Count(calls, {"stopCapture"}) <= user.starts + user.breaks
  BY DEF Paid
<1> QED BY <1>1, <1>2, <1>3, <1>4 DEF Service, None

\* The user, and the answers to the consent dialog.
LEMMA UserPaid ==
  ASSUME SenderIInv, PaidIInv,
         StartMirroring \/ StopMirroring \/ StopOnNotification \/ Allow \/ Deny \/ Recreate
  PROVE  PaidIInv'
<1> DEFINE starts == Count(calls, {"startCapture"})
           stops  == Count(calls, {"stopCapture"})
<1>0. Paid /\ Addressed /\ ThreadsTyped /\ SenderQueues /\ calls \in Seq(Call)
  BY DEF PaidIInv, SenderIInv, SenderQueues
<1>1. /\ starts \in Nat /\ stops \in Nat /\ dialogs \in Nat /\ service \in Nat
      /\ user.starts \in Nat /\ user.breaks \in Nat
      /\ dialogs + starts <= user.starts /\ service + dialogs + starts + stops <= user.starts + user.breaks
  BY <1>0, WithinBounds DEF Paid
<1>2. service \in Service \union {None} /\ (dialogs > 0 => service + 1 \in Service)
  BY <1>0, WithinBounds
<1>3. /\ Counted("starts", MaxStarts) =>
           /\ user' \in [starts : 0 .. MaxStarts, breaks : 0 .. MaxBreaks]
           /\ user'.starts = user.starts + 1 /\ user'.breaks = user.breaks
      /\ Counted("breaks", MaxBreaks) =>
           /\ user' \in [starts : 0 .. MaxStarts, breaks : 0 .. MaxBreaks]
           /\ user'.starts = user.starts /\ user'.breaks = user.breaks + 1
  <2>1. user \in [starts : 0 .. MaxStarts, breaks : 0 .. MaxBreaks] /\ MaxStarts \in Nat /\ MaxBreaks \in Nat
    BY SenderAssumption, <1>0 DEF Paid
  <2> QED BY <2>1 DEF Counted
<1>4. ThreadsTyped'
  BY <1>0 DEF StartMirroring, StopMirroring, StopOnNotification, Allow, Deny, Recreate, threads, ThreadsTyped
<1> SUFFICES Paid' /\ Addressed'
  BY <1>4 DEF PaidIInv
<1>5. CASE StartMirroring
  <2>1. /\ Count(calls', {"startCapture"}) = starts + 1 /\ Count(calls', {"stopCapture"}) = stops
        /\ UNCHANGED <<dialogs, service, commands, up>> /\ Counted("starts", MaxStarts)
    <3>1. calls' = Append(calls, "startCapture") /\ "startCapture" \in Call
      BY <1>5 DEF StartMirroring, Call
    <3>2. "startCapture" \in {"startCapture"} /\ "startCapture" \notin {"stopCapture"}
      OBVIOUS
    <3> QED BY <1>0, <1>5, <3>1, <3>2, CountAppend DEF StartMirroring, activity, android
  <2> HIDE DEF starts, stops
  <2>2. Paid'
    BY <1>1, <1>3, <2>1 DEF Paid
  <2> QED BY <1>0, <2>1, <2>2 DEF Addressed
<1>6. CASE StopMirroring
  <2>1. /\ Count(calls', {"startCapture"}) = starts /\ Count(calls', {"stopCapture"}) = stops + 1
        /\ UNCHANGED <<dialogs, service, commands, up>> /\ Counted("breaks", MaxBreaks)
    <3>1. calls' = Append(calls, "stopCapture") /\ "stopCapture" \in Call
      BY <1>6 DEF StopMirroring, Call
    <3>2. "stopCapture" \in {"stopCapture"} /\ "stopCapture" \notin {"startCapture"}
      OBVIOUS
    <3> QED BY <1>0, <1>6, <3>1, <3>2, CountAppend DEF StopMirroring, activity, android
  <2> HIDE DEF starts, stops
  <2>2. Paid'
    BY <1>1, <1>3, <2>1 DEF Paid
  <2> QED BY <1>0, <2>1, <2>2 DEF Addressed
<1>7. CASE StopOnNotification
  <2>1. up /\ service \in Service /\ Counted("breaks", MaxBreaks) /\ UNCHANGED <<calls, dialogs>>
    BY <1>0, <1>2, <1>7 DEF StopOnNotification, Addressed, dart, activity
  <2>2. Addressed' /\ service' = service
    BY <1>0, <1>7, <2>1, StartServicePaid DEF StopOnNotification
  <2>3. Count(calls', {"startCapture"}) = starts /\ Count(calls', {"stopCapture"}) = stops
    BY <2>1
  <2> HIDE DEF starts, stops
  <2>4. Paid'
    BY <1>1, <1>3, <2>1, <2>2, <2>3 DEF Paid
  <2> QED BY <2>2, <2>4
<1>8. CASE Allow \/ Deny
  <2>1. dialogs > 0 /\ dialogs' = dialogs - 1 /\ UNCHANGED <<calls, user>>
    BY <1>8 DEF Allow, Deny, dart
  <2>2. Addressed' /\ service' \in Nat /\ service' <= service + 1
    <3>1. CASE Allow
      <4>1. IF up THEN service \in Service ELSE service + 1 \in Service
        BY <1>0, <1>2, <2>1 DEF Addressed
      <4> QED BY <1>0, <3>1, <4>1, StartServicePaid DEF Allow
    <3>2. CASE Deny
      BY <1>0, <1>1, <3>2 DEF Deny, android, Addressed
    <3> QED BY <1>8, <3>1, <3>2
  <2>3. Count(calls', {"startCapture"}) = starts /\ Count(calls', {"stopCapture"}) = stops
    BY <2>1
  <2> HIDE DEF starts, stops
  <2>4. Paid'
    BY <1>0, <1>1, <2>1, <2>2, <2>3 DEF Paid
  <2> QED BY <2>2, <2>4
<1>9. CASE Recreate
  <2>1. calls' = <<"listen">> /\ Counted("breaks", MaxBreaks) /\ UNCHANGED <<dialogs, service, commands, up>>
    BY <1>9 DEF Recreate, android
  <2>2. Count(calls', {"startCapture"}) = 0 /\ Count(calls', {"stopCapture"}) = 0
    <3>1. "listen" \notin {"startCapture"} /\ "listen" \notin {"stopCapture"}
      OBVIOUS
    <3> QED BY <2>1, <3>1, OnlyListens
  <2> HIDE DEF starts, stops
  <2>3. Paid'
    BY <1>1, <1>3, <2>1, <2>2 DEF Paid
  <2> QED BY <1>0, <2>1, <2>3 DEF Addressed
<1> QED BY <1>5, <1>6, <1>7, <1>8, <1>9

\* MainActivity takes a call: a tap becomes a dialog, a Stop becomes a command.
LEMMA MethodCallPaid == ASSUME SenderIInv, PaidIInv, OnMethodCall PROVE PaidIInv'
<1> DEFINE starts  == Count(calls, {"startCapture"})
           stops   == Count(calls, {"stopCapture"})
           starts2 == Count(calls', {"startCapture"})
           stops2  == Count(calls', {"stopCapture"})
           h == Head(calls)
<1>0. Paid /\ Addressed /\ ThreadsTyped /\ SenderQueues /\ calls \in Seq(Call)
  BY DEF PaidIInv, SenderIInv, SenderQueues
<1>1. /\ starts \in Nat /\ stops \in Nat /\ dialogs \in Nat /\ service \in Nat
      /\ user.starts \in Nat /\ user.breaks \in Nat
      /\ dialogs + starts <= user.starts /\ service + dialogs + starts + stops <= user.starts + user.breaks
  BY <1>0, WithinBounds DEF Paid
<1>2. service \in Service \union {None} /\ (stops > 0 => service + 1 \in Service)
  BY <1>0, WithinBounds
<1>3. calls # <<>> /\ calls' = Tail(calls) /\ UNCHANGED <<user, stream, field, link, encoding>>
  BY DEF OnMethodCall, threads
<1>4. /\ starts2 \in Nat /\ starts2 <= IF h = "startCapture" THEN starts - 1 ELSE starts
      /\ stops2 \in Nat /\ stops2 <= IF h = "stopCapture" THEN stops - 1 ELSE stops
  <2>1. \A x : x \in {"startCapture"} <=> x = "startCapture"
    OBVIOUS
  <2>2. \A x : x \in {"stopCapture"} <=> x = "stopCapture"
    OBVIOUS
  <2>3. starts2 \in Nat /\ starts2 <= IF h = "startCapture" THEN starts - 1 ELSE starts
    BY <1>0, <1>3, <2>1, CountTail
  <2>4. stops2 \in Nat /\ stops2 <= IF h = "stopCapture" THEN stops - 1 ELSE stops
    BY <1>0, <1>3, <2>2, CountTail
  <2> QED BY <2>3, <2>4
<1>5. Paid' <=> /\ user' \in [starts : 0 .. MaxStarts, breaks : 0 .. MaxBreaks]
                /\ dialogs' + starts2 <= user'.starts
                /\ service' + dialogs' + starts2 + stops2 <= user'.starts + user'.breaks
  BY DEF Paid
<1>6. /\ ThreadsTyped'
      /\ user' \in [starts : 0 .. MaxStarts, breaks : 0 .. MaxBreaks]
  BY <1>0, <1>3 DEF ThreadsTyped, Paid
<1> HIDE DEF starts, stops, starts2, stops2, h
<1>7. CASE h = "listen" /\ UNCHANGED <<dialogs, host, android>>
  <2>1. Addressed'
    BY <1>0, <1>7 DEF Addressed, android
  <2>2. Paid'
    BY <1>1, <1>3, <1>4, <1>5, <1>6, <1>7 DEF android
  <2> QED BY <1>6, <2>1, <2>2 DEF PaidIInv
<1>8. CASE h = "startCapture" /\ dialogs' = dialogs + 1 /\ UNCHANGED android
  <2>1. Addressed'
    BY <1>0, <1>8 DEF Addressed, android
  <2>2. Paid'
    BY <1>1, <1>3, <1>4, <1>5, <1>6, <1>8 DEF android
  <2> QED BY <1>6, <2>1, <2>2 DEF PaidIInv
<1>9. CASE h = "stopCapture" /\ StartService("STOP") /\ UNCHANGED activity
  <2>1. stops > 0
    BY <1>1, <1>4, <1>9
  <2>2. IF up THEN service \in Service ELSE service + 1 \in Service
    BY <1>0, <1>2, <2>1 DEF Addressed
  <2>3. Addressed' /\ service' \in Nat /\ service' <= service + 1
    BY <1>0, <1>9, <2>2, StartServicePaid
  <2>4. Paid'
    BY <1>1, <1>3, <1>4, <1>5, <1>6, <1>9, <2>3 DEF activity
  <2> QED BY <1>6, <2>3, <2>4 DEF PaidIInv
<1> QED BY <1>7, <1>8, <1>9 DEF OnMethodCall, h

\* A step that the user has no part in.
LEMMA OthersPaid ==
  ASSUME PaidIInv, UNCHANGED <<calls, dialogs, service, user>>, Addressed', ThreadsTyped'
  PROVE  PaidIInv'
BY DEF PaidIInv, Paid

\* The service takes a command.
LEMMA CommandPaid == ASSUME SenderIInv, PaidIInv, ServiceCommand PROVE PaidIInv'
<1> DEFINE c == Head(commands)
           rest == Tail(commands)
<1>0. Paid /\ Addressed /\ ThreadsTyped /\ SenderQueues /\ service \in Service \union {None}
  BY WithinBounds DEF PaidIInv, SenderIInv
<1>1. commands # <<>> /\ UNCHANGED <<calls, dialogs, user>> /\ (OnStop(c) \/ OnRefused(c) \/ OnStart(c) \/ OnDestroy(c))
  BY DEF ServiceCommand, dart, activity
<1>2. rest \in Seq(ServiceCommands) /\ c \in ServiceCommands
  BY <1>0, <1>1, HeadTailProperties DEF Addressed
<1> HIDE DEF c, rest
<1>3. CASE OnStop(c) \/ OnRefused(c)
  <2>1. StopSelf(c.to, rest) /\ UNCHANGED <<stream, field, link, encoding>>
    BY <1>3 DEF OnStop, OnRefused, rest, threads
  <2>2. Addressed' /\ service' = service
    BY <1>0, <1>2, <2>1, StopSelfPaid
  <2>3. ThreadsTyped'
    BY <1>0, <2>1 DEF ThreadsTyped
  <2> QED BY <1>1, <2>2, <2>3, OthersPaid
<1>4. CASE OnStart(c)
  <2>1. PICK t \in Thread : stream' = [stream EXCEPT ![t] = [of |-> c.to, at |-> "prepare"]]
    BY <1>4 DEF OnStart
  <2>2. commands' = rest /\ UNCHANGED <<up, service, field, link, encoding>>
    BY <1>4 DEF OnStart, rest
  <2>3. c.to \in Service /\ "prepare" \in Stage
    BY <1>2 DEF ServiceCommands, Stage
  <2>4. stream' \in [Thread -> [of : Service \union {None}, at : Stage]]
    BY <1>0, <2>1, <2>3 DEF ThreadsTyped
  <2>5. ThreadsTyped' /\ Addressed'
    BY <1>0, <1>2, <2>2, <2>4 DEF ThreadsTyped, Addressed
  <2> QED BY <1>1, <2>2, <2>5, OthersPaid
<1>5. CASE OnDestroy(c)
  <2>1. commands' = rest /\ UNCHANGED <<up, service>> /\ Teardown(c.to)
    BY <1>5 DEF OnDestroy, rest
  <2>2. NoFields \in Fields
    BY DEF NoFields, Fields
  <2>3. ThreadsTyped'
    BY <1>0, <2>1, <2>2 DEF Teardown, ThreadsTyped
  <2>4. Addressed'
    BY <1>0, <1>2, <2>1 DEF Addressed
  <2> QED BY <1>1, <2>1, <2>3, <2>4, OthersPaid
<1> QED BY <1>1, <1>3, <1>4, <1>5

\* A stream thread goes on, or stops the service it is of.
LEMMA GoesTyped ==
  ASSUME ThreadsTyped, NEW t \in Thread, NEW from, NEW to \in Stage, Goes(t, from, to)
  PROVE  stream' \in [Thread -> [of : Service \union {None}, at : Stage]]
BY DEF Goes, ThreadsTyped

\* The stream threads and the encoders.
LEMMA ThreadPaid ==
  ASSUME SenderIInv, PaidIInv, NEW t \in Thread, Pipeline(t) \/ HelloAck(t) \/ EncoderError(t)
  PROVE  PaidIInv'
<1>0. Paid /\ Addressed /\ ThreadsTyped /\ SenderQueues /\ service \in Service \union {None}
      /\ commands \in Seq(ServiceCommands)
  BY WithinBounds DEF PaidIInv, SenderIInv, Addressed
<1>1. \A x \in {"connect", "hello", "display", "encode", "audio", "done"} : x \in Stage
  BY DEF Stage
<1>2. ASSUME NEW from, Raises(t, from), field' \in [Service -> Fields] PROVE PaidIInv'
  <2>1. /\ Goes(t, from, "done") /\ StopSelf(stream[t].of, commands)
        /\ UNCHANGED <<calls, dialogs, user, link, encoding>>
    BY <1>2 DEF Raises, dart, activity
  <2>2. Addressed' /\ service' = service
    BY <1>0, <2>1, StopSelfPaid
  <2>3. ThreadsTyped'
    BY <1>0, <1>1, <1>2, <2>1, GoesTyped DEF ThreadsTyped
  <2> QED BY <2>1, <2>2, <2>3, OthersPaid
<1>3. ASSUME NEW from, Fails(t, from) PROVE PaidIInv'
  BY <1>0, <1>2, <1>3 DEF Fails, ThreadsTyped
<1>4. ASSUME Untouched, NEW from, NEW to \in {"connect", "hello", "display", "encode", "audio", "done"},
             Goes(t, from, to), field' \in [Service -> Fields],
             link' \in [Thread -> {"none", "open", "closed"}], encoding' \in [Thread -> Thread \union {None}]
      PROVE  PaidIInv'
  <2>1. UNCHANGED <<calls, dialogs, service, user, commands, up>>
    BY <1>4 DEF Untouched, dart, activity, android
  <2>2. ThreadsTyped'
    BY <1>0, <1>1, <1>4, GoesTyped DEF ThreadsTyped
  <2>3. Addressed'
    BY <1>0, <2>1 DEF Addressed
  <2> QED BY <2>1, <2>2, <2>3, OthersPaid
<1>5. CASE Prepare(t)
  <2> DEFINE of == stream[t].of
  <2>1. field \in [Service -> Fields]
    BY <1>0 DEF ThreadsTyped
  <2>2. ASSUME field' = [field EXCEPT ![of].projection = t] PROVE field' \in [Service -> Fields]
    <3>1. \A f \in Fields : [f EXCEPT !.projection = t] \in Fields
      BY DEF Fields
    <3> QED BY <2>1, <2>2, <3>1
  <2>3. ASSUME NEW e \in {t, Unconfigured}, field' = [field EXCEPT ![of].projection = t, ![of].encoder = e]
        PROVE  field' \in [Service -> Fields]
    <3>1. \A f \in Fields : [f EXCEPT !.projection = t] \in Fields /\ [f EXCEPT !.encoder = e] \in Fields
      BY <2>3 DEF Fields
    <3>2. [field EXCEPT ![of].projection = t] \in [Service -> Fields]
      BY <2>1, <3>1
    <3> QED BY <2>3, <3>1, <3>2
  <2>4. \/ /\ Goes(t, "prepare", "connect") /\ UNCHANGED <<link, encoding>> /\ Untouched
           /\ field' = [field EXCEPT ![of].projection = t, ![of].encoder = t]
        \/ /\ Raises(t, "prepare")
           /\ \/ field' = field
              \/ field' = [field EXCEPT ![of].projection = t]
              \/ field' = [field EXCEPT ![of].projection = t, ![of].encoder = Unconfigured]
    BY <1>5 DEF Prepare
  <2> HIDE DEF of
  <2>5. field' \in [Service -> Fields]
    BY <2>1, <2>2, <2>3, <2>4
  <2> QED BY <1>0, <1>2, <1>4, <2>4, <2>5 DEF ThreadsTyped
<1>6. CASE OpenSocket(t)
  <2>1. ASSUME field' = [field EXCEPT ![stream[t].of].socket = t], link' = [link EXCEPT ![t] = "open"]
        PROVE  field' \in [Service -> Fields] /\ link' \in [Thread -> {"none", "open", "closed"}]
    BY <1>0, <2>1 DEF ThreadsTyped, Fields
  <2> QED BY <1>0, <1>3, <1>4, <1>6, <2>1 DEF OpenSocket, ThreadsTyped
<1>7. CASE NoHelloAck(t) \/ HelloAck(t) \/ StartAudioCapture(t)
  <2>1. CASE NoHelloAck(t)
    BY <1>3, <2>1 DEF NoHelloAck
  <2>2. CASE HelloAck(t)
    BY <1>0, <1>4, <2>2 DEF HelloAck, ThreadsTyped
  <2>3. CASE StartAudioCapture(t)
    BY <1>0, <1>4, <2>3 DEF StartAudioCapture, ThreadsTyped
  <2> QED BY <1>7, <2>1, <2>2, <2>3
<1>8. CASE CreateVirtualDisplay(t)
  <2>1. field' \in [Service -> Fields]
    <3>1. field' = [field EXCEPT ![stream[t].of].isRunning = TRUE]
      BY <1>8 DEF CreateVirtualDisplay
    <3>2. \A f \in Fields : [f EXCEPT !.isRunning = TRUE] \in Fields
      BY DEF Fields
    <3>3. field \in [Service -> Fields]
      BY <1>0 DEF ThreadsTyped
    <3> QED BY <3>1, <3>2, <3>3
  <2>2. \/ Raises(t, "display")
        \/ Goes(t, "display", "encode") /\ UNCHANGED <<posted, link, encoding>> /\ Untouched
    BY <1>8 DEF CreateVirtualDisplay
  <2> QED BY <1>0, <1>2, <1>4, <2>1, <2>2 DEF ThreadsTyped
<1>9. CASE StartEncoder(t)
  <2> DEFINE e == field[stream[t].of].encoder
  <2>1. ASSUME encoding' = [encoding EXCEPT ![e] = t]
        PROVE  encoding' \in [Thread -> Thread \union {None}]
    BY <1>0, <2>1 DEF ThreadsTyped
  <2>2. \/ Fails(t, "encode")
        \/ /\ Goes(t, "encode", "audio") /\ encoding' = [encoding EXCEPT ![e] = t]
           /\ UNCHANGED <<posted, field, link>> /\ Untouched
    BY <1>9 DEF StartEncoder
  <2> HIDE DEF e
  <2> QED BY <1>0, <1>3, <1>4, <2>1, <2>2 DEF ThreadsTyped
<1>10. CASE EncoderError(t)
  <2>1. UNCHANGED <<calls, dialogs, user, stream, field, link, encoding>> /\ \E s : StopSelf(s, commands)
    BY <1>10 DEF EncoderError, dart, activity, threads
  <2>2. Addressed' /\ service' = service
    BY <1>0, <2>1, StopSelfPaid
  <2>3. ThreadsTyped'
    BY <1>0, <2>1 DEF ThreadsTyped
  <2> QED BY <2>1, <2>2, <2>3, OthersPaid
<1> QED BY <1>5, <1>6, <1>7, <1>8, <1>9, <1>10 DEF Pipeline

\* The app shows one of its four screens.
LEMMA ScreenShown ==
  ASSUME ui \in {"Idle", "Connecting", "Mirroring", "Stopping"}, [SenderNext]_senderVars
  PROVE  ui' \in {"Idle", "Connecting", "Mirroring", "Stopping"}
<1>1. CASE StartMirroring \/ StopMirroring \/ Recreate \/ OnNativeEvent
  BY <1>1 DEF StartMirroring, StopMirroring, Recreate, OnNativeEvent, UiAfter
<1>2. CASE StopOnNotification \/ Allow \/ Deny \/ OnMethodCall \/ Deliver \/ ServiceCommand \/ UNCHANGED senderVars
  BY <1>2 DEF StopOnNotification, Allow, Deny, OnMethodCall, Deliver, ServiceCommand, senderVars, dart
<1>3. ASSUME NEW t \in Thread, Pipeline(t) \/ HelloAck(t) \/ EncoderError(t) PROVE ui' = ui
  BY <1>3 DEF Pipeline, Prepare, OpenSocket, HelloAck, NoHelloAck, CreateVirtualDisplay, StartEncoder,
              StartAudioCapture, EncoderError, Fails, Raises, Untouched, dart
<1> QED BY <1>1, <1>2, <1>3 DEF SenderNext

\* Every variable of SenderSession keeps its type, for any number of taps and
\* disturbances: there is no consent dialog without a tap of its own and no service
\* instance that no tap and no Stop asked for, no command goes to a service that
\* never was, and what the services and threads hold is always of a thread there is.
THEOREM SenderTypeCorrect == SenderSpec => []SenderTypeOK
<1> DEFINE Shown == ui \in {"Idle", "Connecting", "Mirroring", "Stopping"}
<1>1. SenderInit => PaidIInv /\ Shown
  <2> SUFFICES ASSUME SenderInit PROVE PaidIInv /\ Shown
    OBVIOUS
  <2>1. Paid
    <3>1. calls = <<"listen">>
      BY DEF SenderInit
    <3>2. "listen" \notin {"startCapture"} /\ "listen" \notin {"stopCapture"}
      OBVIOUS
    <3>3. Count(calls, {"startCapture"}) = 0 /\ Count(calls, {"stopCapture"}) = 0
      BY <3>1, <3>2, OnlyListens
    <3>4. user \in [starts : 0 .. MaxStarts, breaks : 0 .. MaxBreaks] /\ user.starts = 0 /\ user.breaks = 0
      BY SenderAssumption DEF SenderInit
    <3> QED BY <3>3, <3>4 DEF SenderInit, Paid, None
  <2>2. Addressed
    BY EmptySeq DEF SenderInit, Addressed
  <2>3. ThreadsTyped
    BY DEF SenderInit, ThreadsTyped, Stage, Fields, NoFields
  <2>4. Shown
    BY DEF SenderInit
  <2> QED BY <2>1, <2>2, <2>3, <2>4 DEF PaidIInv
<1>2. ASSUME SenderIInv, PaidIInv, Shown, [SenderNext]_senderVars PROVE PaidIInv' /\ Shown'
  <2>1. ASSUME OnNativeEvent \/ Deliver \/ UNCHANGED senderVars PROVE PaidIInv'
    <3>1. UNCHANGED <<calls, dialogs, commands, up, service, stream, field, link, encoding, user>>
      BY <2>1 DEF OnNativeEvent, Deliver, senderVars, dart, activity, android, threads
    <3>2. Addressed' /\ ThreadsTyped'
      BY <1>2, <3>1 DEF PaidIInv, Addressed, ThreadsTyped
    <3> QED BY <1>2, <3>1, <3>2, OthersPaid
  <2>2. PaidIInv'
    BY <1>2, <2>1, UserPaid, MethodCallPaid, CommandPaid, ThreadPaid DEF SenderNext
  <2> QED BY <1>2, <2>2, ScreenShown
<1>3. SenderIInv /\ PaidIInv /\ Shown => SenderTypeOK
  <2> SUFFICES ASSUME SenderIInv, PaidIInv, Shown PROVE SenderTypeOK
    OBVIOUS
  <2>1. dialogs \in 0 .. MaxStarts /\ service \in Service \union {None}
    BY WithinBounds DEF PaidIInv
  <2>2. calls \in Seq(Call) /\ toDart \in Seq(Message) /\ posted \in Seq(Event) /\ {sink, host, up} \subseteq BOOLEAN
    BY DEF SenderIInv, SenderQueues
  <2>3. Message = {"CONNECTED", "DISCONNECTED", "ERROR", "stopped"}
    BY DEF Message, Event
  <2> QED BY <2>1, <2>2, <2>3 DEF PaidIInv, Paid, Addressed, ThreadsTyped, ServiceCommands, Fields, Stage, Call, Event,
                                        SenderTypeOK
<1> QED BY <1>1, <1>2, <1>3, SenderInvariance, PTL DEF SenderSpec
=============================================================================
