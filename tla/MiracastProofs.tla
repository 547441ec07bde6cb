--------------------------- MODULE MiracastProofs ---------------------------
(***************************************************************************)
(* For any number of sources: Miracast is type correct, its negotiation    *)
(* counts messages of the present connection only, and the HUD follows the *)
(* stream, but for streams that m_state left without teardown().           *)
(***************************************************************************)
EXTENDS Miracast, TLAPS

\* Whoever asks or is connected has an address.
Addressed == /\ miceClient # NoSource => sourceAddr \in Source
             /\ prompt # NoSource => sourceAddr \in Source

\* No message is counted on a connection that is not up yet.
Fresh == rtspUp \/ steps = 0

IInv == TypeOK /\ Addressed /\ Fresh /\ NegotiatedWithPeer /\ HudFollowsStream

HudType == [on : BOOLEAN, name : Peer]

\* The HUD off and on are states of the HUD.
LEMMA HudTyped == ASSUME sourceName \in Peer PROVE HudOff \in HudType /\ HudOn \in HudType
  BY DEF HudOff, HudOn, HudType, Peer

\* Where the first and the last message of the negotiation stand.
LEMMA Positions == /\ Position["M1"] = 0 /\ Position["SendingPlay"] = 6
                   /\ \A s \in Negotiating : Position[s] \in 0 .. 6
  BY DEF Position, Negotiating

\* The initial state satisfies the invariant.
LEMMA InitOK == Init => IInv
<1> SUFFICES ASSUME Init PROVE IInv
  OBVIOUS
<1>1. TypeOK
  <2>1. state \in State
    BY DEF Init, State
  <2>3. steps \in 0 .. 7
    BY DEF Init
  <2>4. abandoned \in BOOLEAN /\ rtspUp \in BOOLEAN
    BY Zenon DEF Init
  <2>2. hud \in HudType
    <3>1. sourceName \in Peer
      BY DEF Init, Peer
    <3> QED BY <3>1, HudTyped DEF Init
  <2> QED BY <2>1, <2>2, <2>3, <2>4 DEF Init, TypeOK, Peer, HudType
<1>2. NegotiatedWithPeer
  BY DEF Init, NegotiatedWithPeer, Negotiating
<1>3. HudFollowsStream /\ Addressed /\ Fresh
  BY DEF Init, HudFollowsStream, HudOff, Addressed, Fresh
<1> QED BY <1>1, <1>2, <1>3 DEF IInv

\* An RTSP message that changes the state moves it one step along M1..M7.
LEMMA OneStep ==
  ASSUME NEW m, NextState(m) # state
  PROVE  \/ state = "M1" /\ NextState(m) = "M2"
         \/ state = "M2" /\ NextState(m) = "M3"
         \/ state = "M3" /\ NextState(m) = "M4"
         \/ state = "M4" /\ NextState(m) = "M5"
         \/ state = "M5" /\ NextState(m) = "SendingSetup"
         \/ state = "SendingSetup" /\ NextState(m) = "SendingPlay"
         \/ state = "SendingPlay" /\ NextState(m) = "Streaming"
  BY DEF NextState

\* Whatever an RTSP message does to the media, it stays well formed, and the HUD
\* goes on with the PLAY answer only.
LEMMA RtspDataKeeps == ASSUME IInv, NEW m \in Rtsp, OnRtspData(m) PROVE IInv'
<1>1. rtspUp /\ rtspUp' /\ state' = NextState(m) /\ NextState(m) # state /\ steps' = steps + 1
  BY DEF OnRtspData, IInv, TypeOK
<1>2. state \in Negotiating /\ state' \in Negotiating \union {"Streaming"}
  BY <1>1, OneStep DEF Negotiating
<1>3. steps = Position[state]
  BY <1>2 DEF IInv, NegotiatedWithPeer
<1>4. NegotiatedWithPeer'
  <2>1. state' \in Negotiating => Position[state'] = Position[state] + 1
    BY <1>1, OneStep DEF Position, Negotiating
  <2>2. state' = "Streaming" => Position[state] = 6
    BY <1>1, OneStep, Positions
  <2>3. (state' \in Negotiating => rtspUp' /\ steps' = Position[state'])
    BY <1>1, <1>3, <2>1
  <2>4. state' = "Streaming" => rtspUp' /\ steps' = 7
    BY <1>1, <1>3, <2>2
  <2> QED BY <2>3, <2>4 DEF NegotiatedWithPeer, Position
<1>5. TypeOK'
  <2>1. steps' \in 0 .. 7
    BY <1>1, <1>2, <1>3, Positions
  <2>2. pipeline' \in {"none", "PAUSED", "PLAYING"}
    BY DEF IInv, TypeOK, OnRtspData, Setup, Play, media
  <2>3. hud' \in HudType
    <3>1. hud' = hud \/ hud' = HudOn
      BY DEF OnRtspData, Setup, Play, media
    <3> QED BY <3>1, HudTyped DEF IInv, TypeOK, HudType
  <2>4. state' \in State
    BY <1>2 DEF State
  <2>5. UNCHANGED <<miceClient, sourceAddr, sourceName, prompt, rtspPeer, rtspUp, allowed, abandoned>>
    BY DEF OnRtspData, mice
  <2> QED BY <2>1, <2>2, <2>3, <2>4, <2>5 DEF IInv, TypeOK, HudType, Peer
<1>6. HudFollowsStream'
  <2>1. CASE state = "SendingPlay"
    <3>1. state' = "Streaming"
      BY <1>1, <2>1, OneStep
    <3>2. hud' = HudOn
      BY <2>1 DEF OnRtspData, Play
    <3> QED BY <3>1, <3>2 DEF HudOn, HudFollowsStream
  <2>2. CASE state # "SendingPlay"
    <3>1. state # "Streaming" /\ state' \in Negotiating
      BY <1>1, <1>2, <2>2, OneStep DEF Negotiating
    <3>2. hud' = hud /\ abandoned' = abandoned
      BY <2>2 DEF OnRtspData, Setup, media
    <3>3. steps' # 7
      <4>1. Position[state] \in 0 .. 5
        BY <1>2, <2>2 DEF Position, Negotiating
      <4> QED BY <1>1, <1>3, <4>1
    <3> QED BY <3>1, <3>2, <3>3 DEF IInv, HudFollowsStream
  <2> QED BY <2>1, <2>2
<1>7. Addressed' /\ Fresh'
  BY DEF OnRtspData, mice, IInv, Addressed, Fresh
<1> QED BY <1>4, <1>5, <1>6, <1>7 DEF IInv

\* A step to a state outside the negotiation that leaves the HUD to itself, or
\* turns it off, keeps the invariant if it notes that it abandons a stream.
LEMMA Leave ==
  ASSUME IInv, TypeOK', Addressed', Fresh', state' \in {"WaitingSourceReady", "ConnectingToSource"},
         \/ hud' = HudOff /\ steps' = 0
         \/ /\ hud' = hud /\ steps' \in {steps, 0}
            /\ \/ abandoned' = (abandoned \/ state = "Streaming")
               \/ abandoned' = abandoned /\ state # "Streaming"
  PROVE  IInv'
<1>1. NegotiatedWithPeer'
  BY DEF NegotiatedWithPeer, Negotiating
<1>2. CASE hud' = HudOff /\ steps' = 0
  <2>1. ~hud'.on /\ steps' # 7
    BY <1>2 DEF HudOff
  <2> QED BY <1>1, <2>1 DEF IInv, HudFollowsStream
<1>3. CASE hud' = hud /\ steps' \in {steps, 0}
  <2>1. steps' = 7 => steps = 7
    BY <1>3
  <2>2. hud'.on => abandoned'
    <3>1. hud.on => state = "Streaming" \/ abandoned
      BY DEF IInv, HudFollowsStream
    <3>2. CASE abandoned' = (abandoned \/ state = "Streaming")
      BY Zenon, <1>3, <3>1, <3>2
    <3>3. CASE abandoned' = abandoned /\ state # "Streaming"
      BY Zenon, <1>3, <3>1, <3>3
    <3>4. \/ abandoned' = (abandoned \/ state = "Streaming")
          \/ abandoned' = abandoned /\ state # "Streaming"
          \/ hud' = HudOff
      OBVIOUS
    <3>5. hud' = HudOff => ~hud'.on
      BY DEF HudOff
    <3> QED BY Zenon, <3>2, <3>3, <3>4, <3>5
  <2> QED BY <1>1, <1>3, <2>1, <2>2 DEF IInv, HudFollowsStream
<1> QED BY <1>2, <1>3

\* What opening the RTSP connection leaves behind.
LEMMA OpenKeeps ==
  ASSUME IInv, sourceAddr \in Source, ConnectToSource,
         UNCHANGED <<mice, media>>, sourceName' \in Peer, prompt' \in {prompt, NoSource},
         allowed' \subseteq Source
  PROVE  IInv'
<1>1. /\ state' = "ConnectingToSource" /\ rtspPeer' = sourceAddr /\ rtspUp' = FALSE
      /\ steps' = 0 /\ abandoned' = (abandoned \/ state = "Streaming")
  BY DEF ConnectToSource, OpenRtsp, Abandon
<1>2. TypeOK'
  <2>1. rtspUp' \in BOOLEAN /\ abandoned' \in BOOLEAN
    BY Zenon, <1>1
  <2>2. steps' \in 0 .. 7 /\ state' \in State
    BY <1>1 DEF State
  <2> QED BY <1>1, <2>1, <2>2 DEF IInv, TypeOK, mice, media, Peer
<1>3. Addressed' /\ Fresh'
  BY <1>1 DEF IInv, Addressed, Fresh, mice
<1> QED BY <1>1, <1>2, <1>3, Leave DEF media

\* A MICE connection goes back to waiting for SOURCE_READY, also while a source streams.
LEMMA MiceKeeps == ASSUME IInv, NEW a \in Source, OnMiceConnection(a) PROVE IInv'
<1>1. TypeOK' /\ Addressed' /\ Fresh'
  BY DEF OnMiceConnection, Abandon, IInv, TypeOK, Addressed, Fresh, media, State, Peer
<1> QED BY <1>1, Leave DEF OnMiceConnection, Abandon, media

\* SOURCE_READY opens the RTSP connection or asks for approval.
LEMMA ReadyKeeps == ASSUME IInv, NEW auto \in BOOLEAN, SourceReady(auto) PROVE IInv'
<1>1. sourceAddr \in Source /\ miceClient \in Peer
  BY DEF SourceReady, IInv, TypeOK, Addressed
<1>2. CASE auto
  <2>1. ConnectToSource /\ UNCHANGED <<mice, media>> /\ prompt' = prompt
    BY <1>2 DEF SourceReady
  <2>2. sourceName' \in Peer /\ allowed' \subseteq Source
    BY <1>1, <1>2 DEF SourceReady, IInv, TypeOK
  <2> QED BY <1>1, <2>1, <2>2, OpenKeeps
<1>3. CASE ~auto
  <2>1. TypeOK' /\ Addressed' /\ Fresh'
    BY <1>1, <1>3 DEF SourceReady, IInv, TypeOK, Addressed, Fresh, mice, media, Peer
  <2>2. UNCHANGED <<state, rtspUp, steps, hud, abandoned>>
    BY <1>3 DEF SourceReady, media
  <2>3. NegotiatedWithPeer' /\ HudFollowsStream'
    BY <2>2 DEF IInv, NegotiatedWithPeer, HudFollowsStream, Position
  <2> QED BY <2>1, <2>3 DEF IInv
<1> QED BY <1>2, <1>3

\* An approved source has its RTSP connection opened.
LEMMA ApproveKeeps == ASSUME IInv, Approve PROVE IInv'
<1>1. sourceAddr \in Source /\ prompt \in Source
  BY DEF Approve, IInv, TypeOK, Addressed, Peer
<1>2. ConnectToSource /\ UNCHANGED <<mice, media>> /\ prompt' = NoSource /\ sourceName' = sourceName
  BY DEF Approve
<1>3. sourceName' \in Peer /\ allowed' \subseteq Source
  BY <1>1, <1>2 DEF Approve, IInv, TypeOK
<1> QED BY <1>1, <1>2, <1>3, OpenKeeps

\* A denied source has no MICE client left, and the state waits for the next one.
LEMMA DenyKeeps == ASSUME IInv, Deny PROVE IInv'
<1>1. TypeOK' /\ Addressed' /\ Fresh'
  BY DEF Deny, Abandon, IInv, TypeOK, Addressed, Fresh, media, State, Peer
<1> QED BY <1>1, Leave DEF Deny, Abandon, media

\* With the RTSP connection the negotiation starts, at its first message.
LEMMA ConnectedKeeps == ASSUME IInv, OnRtspConnected PROVE IInv'
<1> USE DEF OnRtspConnected
<1>1. TypeOK' /\ Addressed' /\ Fresh'
  BY DEF IInv, TypeOK, Addressed, Fresh, mice, media, State, Negotiating
<1>2. state # "Streaming" /\ state \notin Negotiating
  BY DEF IInv, TypeOK, NegotiatedWithPeer
<1>3. HudFollowsStream'
  BY <1>2 DEF IInv, HudFollowsStream, media
<1>4. state' = "M1" /\ rtspUp' /\ steps' = 0
  BY DEF IInv, Fresh
<1>5. NegotiatedWithPeer'
  <2>1. Position[state'] = 0
    BY <1>4, Positions
  <2> QED BY <1>4, <2>1 DEF NegotiatedWithPeer, Position
<1> QED BY <1>1, <1>3, <1>5 DEF IInv

\* A teardown ends the stream and turns the HUD off.
LEMMA TeardownKeeps == ASSUME IInv, Teardown PROVE IInv'
<1> USE DEF Teardown, TeardownTo
<1>1. HudOff \in HudType
  BY HudTyped DEF IInv, TypeOK
<1>2. rtspUp' \in BOOLEAN /\ abandoned' \in BOOLEAN
  BY Zenon
<1>3. steps' \in 0 .. 7 /\ state' \in State
  BY DEF State
<1>4. TypeOK' /\ Addressed' /\ Fresh'
  BY <1>1, <1>2, <1>3 DEF IInv, TypeOK, Addressed, Fresh, HudType, Peer
<1> QED BY <1>4, Leave

\* A lost connection, before the stream, only takes the socket with it.
LEMMA DropKeeps == ASSUME IInv, DropRtsp, state # "Streaming" PROVE IInv'
<1>1. rtspUp' \in BOOLEAN
  BY Zenon DEF DropRtsp
<1>2. steps' \in 0 .. 7 /\ state' \in State
  BY DEF DropRtsp, State
<1>3. TypeOK' /\ Addressed' /\ Fresh'
  BY <1>1, <1>2 DEF DropRtsp, IInv, TypeOK, Addressed, Fresh, mice, media, Peer
<1> QED BY <1>3, Leave DEF DropRtsp, media

\* Every reachable state satisfies the invariant.
THEOREM Invariance == Spec => []IInv
<1>1. IInv /\ [Next]_vars => IInv'
  <2> SUFFICES ASSUME IInv, [Next]_vars PROVE IInv'
    OBVIOUS
  <2>1. CASE UNCHANGED vars
    BY <2>1 DEF vars, IInv, TypeOK, Addressed, Fresh, NegotiatedWithPeer, HudFollowsStream, Position
  <2>2. CASE OnTeardown
    BY <2>2, TeardownKeeps DEF OnTeardown
  <2>3. CASE OnRtspDisconnected
    BY <2>3, TeardownKeeps, DropKeeps DEF OnRtspDisconnected, Disconnect
  <2> QED BY <2>1, <2>2, <2>3, MiceKeeps, ReadyKeeps, ApproveKeeps, DenyKeeps, ConnectedKeeps,
             RtspDataKeeps DEF Next
<1> QED BY <1>1, InitOK, PTL DEF Spec

\* The state of Miracast stays within its types.
THEOREM TypeCorrect == Spec => []TypeOK
  BY Invariance, PTL DEF IInv

\* A negotiation step is only ever credited to the connection it was taken on.
THEOREM Negotiated == Spec => []NegotiatedWithPeer
  BY Invariance, PTL DEF IInv

\* The HUD is on as long as a connection that was negotiated through to PLAY is up;
\* and while it is on a source streams, or m_state left Streaming without teardown()
\* and no stream has been torn down since.
THEOREM HudFollows == Spec => []HudFollowsStream
  BY Invariance, PTL DEF IInv
=============================================================================
