--------------------------- MODULE AirShowSession ---------------------------
(***************************************************************************)
(* AirShowHandler: the receiver of AirShow's own protocol on port 7400.    *)
(* One client at a time, a greeting line, then frames, all on the Qt       *)
(* thread; the HUD and the appsrc pipeline are shared with the handlers of *)
(* other protocols, which are the environment here.                        *)
(*                                                                         *)
(* TCP hands over a client's bytes in pieces of any size.  A client sends  *)
(* items, its greeting (item 0) and its frames (items 1, 2, ...), each cut *)
(* into two pieces: the second ends the line or the frame.  A frame is     *)
(* what the length field says from wherever the handler starts to read:    *)
(* here, any two pieces.  Frames stay below 2^31 bytes.  Of the bytes that *)
(* wait on a connection that hangs up, any part may be lost.               *)
(***************************************************************************)
EXTENDS Naturals, Sequences

CONSTANTS
  Client,     \* connections, each made once
  NoClient,
  Other,      \* stands for a session of another protocol
  Audio,      \* frames that carry audio
  MaxFrames   \* bound: frames of a client

ASSUME AirShowAssumption ==
  /\ NoClient \notin Client /\ Other \notin Client /\ NoClient # Other
  /\ MaxFrames \in Nat /\ Audio \subseteq 1 .. MaxFrames

Pieces(c) == {<<c, i, part>> : i \in 0 .. MaxFrames, part \in {1, 2}}
Piece == UNION {Pieces(c) : c \in Client}
EndsLine(p) == p[2] = 0 /\ p[3] = 2
Caps == {"none", "pcm", "other"}

VARIABLES
  running,    \* m_running
  conn,       \* each connection, as its client sees it
  hello,      \* its greeting is a HELLO of version 1
  sent,       \* pieces it has sent
  wire,       \* those the handler has not read
  acked,      \* clients that were sent HELLO_ACK
  client,     \* m_client
  state,      \* m_state
  buffer,     \* m_readBuffer
  capSet,     \* m_audioCapSet
  appsrc,     \* MediaPipeline::videoAppsrc() and audioAppsrc() exist
  caps,       \* caps of the audio appsrc
  hud,        \* whom the HUD shows, or NoClient
  other,      \* a session of another protocol runs
  ready,      \* ReceiverWindow has built its pipeline
  frames      \* history: what processFrame() was given, per client

net     == <<conn, hello, sent, wire>>
session == <<client, state, buffer, capSet>>
shared  == <<appsrc, caps, hud, other, ready>>
vars    == <<running, net, acked, session, shared, frames>>

TypeOK ==
  /\ running \in BOOLEAN
  /\ conn \in [Client -> {"new", "waiting", "open", "closed"}]
  /\ hello \in [Client -> BOOLEAN]
  /\ sent \in [Client -> 0 .. 2 * (MaxFrames + 1)]
  /\ \A c \in Client : wire[c] \in Seq(Pieces(c))
  /\ acked \subseteq Client
  /\ client \in Client \union {NoClient}
  /\ state \in {"Idle", "Handshake", "Streaming"}
  /\ buffer \in Seq(IF client = NoClient THEN {} ELSE Pieces(client))
  /\ {capSet, appsrc, other, ready} \subseteq BOOLEAN
  /\ caps \in Caps
  /\ hud \in Client \union {NoClient, Other}
  /\ frames \in [Client -> Seq(Seq(Piece))]

Init ==
  /\ running = TRUE
  /\ conn = [c \in Client |-> "new"] /\ hello \in [Client -> BOOLEAN]
  /\ sent = [c \in Client |-> 0] /\ wire = [c \in Client |-> <<>>]
  /\ acked = {}
  /\ client = NoClient /\ state = "Idle" /\ buffer = <<>> /\ capSet = FALSE
  /\ appsrc = FALSE /\ caps = "none" /\ hud = NoClient
  /\ other = FALSE /\ ready = FALSE
  /\ frames = [c \in Client |-> <<>>]

-----------------------------------------------------------------------------
(* Clients.                                                                *)

Connect(c) ==
  /\ running /\ conn[c] = "new"
  /\ conn' = [conn EXCEPT ![c] = "waiting"]
  /\ UNCHANGED <<running, hello, sent, wire, acked, session, shared, frames>>

Send(c) ==
  /\ conn[c] \in {"waiting", "open"} /\ sent[c] < 2 * (MaxFrames + 1)
  /\ sent' = [sent EXCEPT ![c] = @ + 1]
  /\ wire' = [wire EXCEPT ![c] = Append(@, <<c, sent[c] \div 2, (sent[c] % 2) + 1>>)]
  /\ UNCHANGED <<running, conn, hello, acked, session, shared, frames>>

-----------------------------------------------------------------------------
(* The handler.                                                            *)

\* m_readBuffer.clear(), on either end of a session.
Emptied == <<>>

\* Mutant: the HUD keeps what it shows.
ReleasedButHud == capSet' = FALSE /\ UNCHANGED hud
\* disconnectClient() forgets the session, closes the socket, and turns the HUD
\* off whatever it shows.
Released == hud' = NoClient /\ capSet' = FALSE

\* Mutant: the socket is forgotten, not closed.
HungOpen(c) == conn[c]
Hung(c) == IF c = client THEN "closed" ELSE conn[c]

DisconnectClient ==
  /\ conn' = [c \in Client |-> Hung(c)]
  /\ wire' = [wire EXCEPT ![client] = <<>>]
  /\ client' = NoClient /\ state' = "Idle" /\ buffer' = Emptied
  /\ Released

\* Mutant: the new client's state is left as it was.
FirstStateIdle == "Idle"
\* A client before this one is disconnected first.
FirstState == "Handshake"

OnNewConnection(c) ==
  /\ running /\ conn[c] = "waiting"
  /\ client' = c /\ state' = FirstState /\ buffer' = Emptied
  /\ conn' = [d \in Client |-> IF d = c THEN "open" ELSE Hung(d)]
  /\ wire' = [d \in Client |-> IF d = client THEN <<>> ELSE wire[d]]
  /\ IF client = NoClient THEN UNCHANGED <<hud, capSet>> ELSE Released
  /\ UNCHANGED <<running, hello, sent, acked, appsrc, caps, other, ready, frames>>

\* Mutant: a single frame per read.
WholeFirst(bytes) == IF Len(bytes) < 2 THEN 0 ELSE 1
\* handleStreamingData() and processFrame(): every complete frame leaves bytes,
\* the rest waits.  The first audio frame that has a pipeline sets the caps.
Whole(bytes) == Len(bytes) \div 2
Frame(bytes, i) == SubSeq(bytes, 2 * i - 1, 2 * i)
Sounds(bytes) == \E i \in 1 .. Whole(bytes) : Frame(bytes, i)[1][2] \in Audio

HandleStreamingData(bytes) ==
  /\ buffer' = SubSeq(bytes, 2 * Whole(bytes) + 1, Len(bytes))
  /\ frames' = [frames EXCEPT ![client] =
                  @ \o [i \in 1 .. Whole(bytes) |-> Frame(bytes, i)]]
  /\ IF Sounds(bytes) /\ appsrc' /\ ~capSet
       THEN caps' = "pcm" /\ capSet' = TRUE
       ELSE UNCHANGED capSet /\ caps' = IF appsrc' /\ ~appsrc THEN "none" ELSE caps

\* Mutant: the buffer is cleared with the line.
RestCleared(bytes, i) == <<>>
\* handleHandshake(): the first line decides; what follows it is frames.
Rest(bytes, i) == SubSeq(bytes, i + 1, Len(bytes))
NoLine(bytes) == ~\E i \in DOMAIN bytes : EndsLine(bytes[i])
Greeted(bytes) ==
  \E i \in DOMAIN bytes :
    /\ EndsLine(bytes[i]) /\ \A j \in 1 .. i - 1 : ~EndsLine(bytes[j])
    /\ acked' = acked \union {client}
    /\ state' = "Streaming"
    /\ appsrc' \in IF appsrc THEN {TRUE} ELSE BOOLEAN
    /\ hud' = client
    /\ HandleStreamingData(Rest(bytes, i))

Unread(n) == wire' = [wire EXCEPT ![client] = SubSeq(@, n + 1, Len(@))]

OnReadyRead ==
  /\ client # NoClient
  /\ \E n \in DOMAIN wire[client] : LET bytes == buffer \o SubSeq(wire[client], 1, n) IN
       \/ /\ state = "Idle" \/ (state = "Handshake" /\ NoLine(bytes))
          /\ buffer' = bytes /\ Unread(n)
          /\ UNCHANGED <<conn, acked, client, state, capSet, appsrc, caps, hud, frames>>
       \/ /\ state = "Handshake" /\ ~NoLine(bytes) /\ hello[client]
          /\ Greeted(bytes) /\ Unread(n) /\ UNCHANGED <<conn, client>>
       \/ /\ state = "Handshake" /\ ~NoLine(bytes) /\ ~hello[client]
          /\ DisconnectClient /\ UNCHANGED <<acked, appsrc, caps, frames>>
       \/ /\ state = "Streaming"
          /\ UNCHANGED <<conn, acked, client, state, appsrc, hud>>
          /\ HandleStreamingData(bytes) /\ Unread(n)
  /\ UNCHANGED <<running, hello, sent, other, ready>>

\* The client hung up.
OnDisconnected ==
  /\ client # NoClient /\ DisconnectClient
  /\ UNCHANGED <<running, hello, sent, acked, appsrc, caps, other, ready, frames>>

\* Connections that still wait go with the server.
Stop ==
  /\ running /\ running' = FALSE
  /\ conn' = [c \in Client |-> IF conn[c] = "new" THEN "new" ELSE "closed"]
  /\ wire' = [c \in Client |-> <<>>]
  /\ client' = NoClient /\ state' = (IF client = NoClient THEN state ELSE "Idle")
  /\ IF client = NoClient THEN UNCHANGED <<buffer, hud, capSet>>
                          ELSE buffer' = Emptied /\ Released
  /\ UNCHANGED <<hello, sent, acked, appsrc, caps, other, ready, frames>>

-----------------------------------------------------------------------------
(* The rest of the program, as far as it shares the HUD and the pipeline.  *)

\* ReceiverWindow builds the pipeline once, over one that may exist.
WindowReady ==
  /\ ~ready /\ ready' = TRUE
  /\ \/ appsrc' \in BOOLEAN /\ caps' = "none"
     \/ UNCHANGED <<appsrc, caps>>
  /\ UNCHANGED <<running, net, acked, session, hud, other, frames>>

OtherStarts ==
  /\ ~other /\ other' = TRUE /\ hud' = Other
  /\ caps' \in IF appsrc THEN {caps, "other"} ELSE {caps}
  /\ UNCHANGED <<running, net, acked, session, appsrc, ready, frames>>

OtherEnds ==
  /\ other /\ other' = FALSE /\ hud' = NoClient
  /\ UNCHANGED <<running, net, acked, session, appsrc, caps, ready, frames>>

Next ==
  \/ \E c \in Client : Connect(c) \/ Send(c) \/ OnNewConnection(c)
  \/ OnReadyRead
  \/ OnDisconnected
  \/ Stop
  \/ WindowReady
  \/ OtherStarts
  \/ OtherEnds

\* The event loop serves sockets.
Fairness ==
  /\ \A c \in Client : WF_vars(OnNewConnection(c))
  /\ WF_vars(OnReadyRead)

Spec == Init /\ [][Next]_vars
LiveSpec == Spec /\ Fairness

-----------------------------------------------------------------------------
(* Properties.                                                             *)

\* However TCP cuts the bytes, and although a connection before or the greeting
\* used the same buffer, every frame handed to the pipeline is one frame of its
\* client, and they come in the order sent with none missing.
FramesAreWhole ==
  \A c \in Client : \A i \in DOMAIN frames[c] : frames[c][i] = <<<<c, i, 1>>, <<c, i, 2>>>>

\* Nothing that could be processed waits for the next read: a complete line or
\* frame that arrived with something else is used in the same event.
NothingStranded ==
  /\ state = "Streaming" => Len(buffer) < 2
  /\ state = "Handshake" => NoLine(buffer)

\* Single session: a client whose connection the handler has left open is the
\* client it serves, and one that was told to stream is being listened to.
OpenIsServed ==
  \A c \in Client : conn[c] = "open" =>
    client = c /\ (c \in acked <=> state = "Streaming")

\* When the HUD shows an AirShow client, that client streams.
HudNamesStreamer == hud \in Client => hud = client /\ state = "Streaming"

\* A client that connected and completed its greeting is acknowledged or closed.
GreetingIsAnswered ==
  \A c \in Client : conn[c] \in {"waiting", "open"} /\ sent[c] >= 2
                      ~> c \in acked \/ conn[c] = "closed"

(***************************************************************************)
(* Statements of the repository that the code does not keep.               *)
(***************************************************************************)

\* "Application shows connection status (waiting/connected/device name/protocol)"
\* (.planning/REQUIREMENTS.md:45): a session is never shown as waiting.
SessionIsShown == other => hud # NoClient

\* "true after PCM caps set on audioAppsrc" (AirShowHandler.h:95).
CapsAreSet == capSet => caps # "none"
=============================================================================
