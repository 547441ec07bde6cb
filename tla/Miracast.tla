------------------------------ MODULE Miracast ------------------------------
(***************************************************************************)
(* MiracastHandler: the MS-MICE listener, the approval callback, the RTSP  *)
(* negotiation M1..M7, and its use of MediaPipeline and of the HUD.        *)
(*                                                                         *)
(* Everything runs on the Qt thread.  One m_state serves two connections:  *)
(* the MICE connection a source opens and the RTSP connection the handler  *)
(* opens to the source.  The approval callback captures only this.  The    *)
(* dialog holds one prompt; a newer one replaces it (see Approval).        *)
(* Sources are on the local network; stop() runs at exit only.             *)
(***************************************************************************)
EXTENDS Naturals

CONSTANTS Source, NoSource

ASSUME SourceAssumption == NoSource \notin Source

Peer == Source \union {NoSource}
Negotiating == {"M1", "M2", "M3", "M4", "M5", "SendingSetup", "SendingPlay"}
State == {"WaitingSourceReady", "ConnectingToSource", "Streaming"} \union Negotiating
Rtsp  == {"OPTIONS", "GET_PARAMETER", "SET_PARAMETER", "TEARDOWN", "200 OK", "error"}

VARIABLES
  state,        \* m_state
  miceClient,   \* who the MICE connection in m_miceClient comes from
  sourceAddr,   \* m_sourceAddr
  sourceName,   \* m_sourceName
  prompt,       \* the source whose approval the dialog asks for
  rtspPeer,     \* who m_rtspSocket leads to
  rtspUp,       \* it is connected
  pipeline,     \* m_miracastPipeline: "none", "PAUSED", "PLAYING"
  hud,          \* whether the HUD is on, and the name it shows
  allowed,      \* history: sources that were approved
  steps,        \* history: RTSP messages taken from the present connection
  abandoned     \* history: m_state left Streaming without teardown(), and none came since

vars == <<state, miceClient, sourceAddr, sourceName, prompt, rtspPeer, rtspUp, pipeline,
          hud, allowed, steps, abandoned>>
HudOff == [on |-> FALSE, name |-> NoSource]
HudOn  == [on |-> TRUE, name |-> sourceName]

mice  == <<miceClient, sourceAddr>>
media == <<pipeline, hud>>

TypeOK ==
  /\ state \in State
  /\ miceClient \in Peer /\ sourceAddr \in Peer /\ sourceName \in Peer
  /\ prompt \in Peer
  /\ rtspPeer \in Peer /\ rtspUp \in BOOLEAN
  /\ pipeline \in {"none", "PAUSED", "PLAYING"}
  /\ hud \in [on : BOOLEAN, name : Peer]
  /\ allowed \subseteq Source
  /\ steps \in 0 .. 7
  /\ abandoned \in BOOLEAN

Init ==
  /\ state = "WaitingSourceReady"
  /\ miceClient = NoSource /\ sourceAddr = NoSource /\ sourceName = NoSource
  /\ prompt = NoSource
  /\ rtspPeer = NoSource /\ rtspUp = FALSE
  /\ pipeline = "none" /\ hud = HudOff
  /\ allowed = {} /\ steps = 0 /\ abandoned = FALSE

-----------------------------------------------------------------------------
(* The MICE connection.                                                    *)

\* m_state is set, whatever it was: a stream of the moment is forgotten, also if
\* the message came from the source that streams.
Abandon(next) ==
  /\ state' = next
  /\ abandoned' = (abandoned \/ state = "Streaming")

\* The new client replaces the old one; the RTSP session is left alone.
OnMiceConnection(a) ==
  /\ miceClient' = a /\ sourceAddr' = a
  /\ Abandon("WaitingSourceReady")
  /\ UNCHANGED <<sourceName, prompt, rtspPeer, rtspUp, media, allowed, steps>>

OpenRtsp(next) ==
  /\ rtspPeer' = sourceAddr
  /\ rtspUp' = FALSE
  /\ steps' = 0
  /\ Abandon(next)

\* Mutant: m_state is not set.
ConnectToSourceStale == OpenRtsp(state)

\* connectToSource(): the old RTSP socket is dropped without teardown().
ConnectToSource == OpenRtsp("ConnectingToSource")

\* parseMiceMessage(); auto: approval needs no user.
SourceReady(auto) ==
  /\ miceClient # NoSource
  /\ sourceName' = miceClient
  /\ IF auto
     THEN /\ allowed' = allowed \union {sourceAddr}
          /\ ConnectToSource
          /\ UNCHANGED prompt
     ELSE /\ prompt' = sourceAddr
          /\ UNCHANGED <<allowed, rtspPeer, rtspUp, steps, state, abandoned>>
  /\ UNCHANGED <<mice, media>>

Approve ==
  /\ prompt # NoSource
  /\ allowed' = allowed \union {prompt}
  /\ prompt' = NoSource
  /\ ConnectToSource
  /\ UNCHANGED <<mice, sourceName, media>>

\* The MICE client of the moment is disconnected and says no more.
Deny ==
  /\ prompt # NoSource
  /\ prompt' = NoSource
  /\ miceClient' = NoSource
  /\ Abandon("WaitingSourceReady")
  /\ UNCHANGED <<sourceAddr, sourceName, rtspPeer, rtspUp, media, allowed, steps>>

-----------------------------------------------------------------------------
(* The RTSP connection.                                                    *)

OnRtspConnected ==
  /\ rtspPeer # NoSource /\ ~rtspUp
  /\ rtspUp' = TRUE
  /\ state' = "M1"
  /\ UNCHANGED <<mice, sourceName, prompt, rtspPeer, media, allowed, steps, abandoned>>

\* The state a message leads to; one that does not fit is ignored.
NextState(m) ==
  CASE state = "M1" /\ m = "OPTIONS"            -> "M2"
    [] state = "M2" /\ m = "200 OK"             -> "M3"
    [] state = "M3" /\ m = "GET_PARAMETER"      -> "M4"
    [] state = "M4" /\ m = "SET_PARAMETER"      -> "M5"
    [] state = "M5" /\ m = "SET_PARAMETER"      -> "SendingSetup"
    [] state = "SendingSetup" /\ m = "200 OK"   -> "SendingPlay"
    [] state = "SendingPlay" /\ m = "200 OK"    -> "Streaming"
    [] OTHER                                    -> state

\* initMiracastPipeline() may fail; the negotiation goes on.
Setup == pipeline' \in {"none", "PAUSED"} /\ UNCHANGED hud

\* MediaPipeline::play() sets m_pipeline, the AirPlay pipeline, to PLAYING.
Play == hud' = HudOn /\ UNCHANGED pipeline

OnRtspData(m) ==
  /\ rtspPeer # NoSource /\ rtspUp
  /\ NextState(m) # state
  /\ state' = NextState(m)
  /\ steps' = steps + 1
  /\ CASE state = "SendingSetup" -> Setup
       [] state = "SendingPlay"  -> Play
       [] OTHER                  -> UNCHANGED media
  /\ UNCHANGED <<mice, sourceName, prompt, rtspPeer, rtspUp, allowed, abandoned>>

TeardownTo(next) ==
  /\ state' = next
  /\ pipeline' = "none" /\ hud' = HudOff
  /\ rtspPeer' = NoSource /\ rtspUp' = FALSE
  /\ miceClient' = NoSource /\ sourceName' = NoSource
  /\ steps' = 0 /\ abandoned' = FALSE
  /\ UNCHANGED <<sourceAddr, prompt, allowed>>

Teardown == TeardownTo("WaitingSourceReady")

OnTeardown ==
  /\ rtspPeer # NoSource /\ rtspUp /\ state = "Streaming"
  /\ Teardown

\* Only the socket goes.
DropRtsp ==
  /\ rtspPeer' = NoSource /\ rtspUp' = FALSE
  /\ state' = "WaitingSourceReady"
  /\ steps' = 0
  /\ UNCHANGED <<mice, sourceName, prompt, media, allowed, abandoned>>

\* Mutant: onRtspDisconnected() never tears down.
DisconnectDropping == DropRtsp

Disconnect == IF state = "Streaming" THEN Teardown ELSE DropRtsp

OnRtspDisconnected == rtspPeer # NoSource /\ rtspUp /\ Disconnect

Next ==
  \/ \E a \in Source : OnMiceConnection(a)
  \/ \E auto \in BOOLEAN : SourceReady(auto)
  \/ Approve
  \/ Deny
  \/ OnRtspConnected
  \/ \E m \in Rtsp : OnRtspData(m)
  \/ OnTeardown
  \/ OnRtspDisconnected

Spec == Init /\ [][Next]_vars

-----------------------------------------------------------------------------
(* Properties.                                                             *)

Position == [s \in Negotiating |->
  CASE s = "M1" -> 0 [] s = "M2" -> 1 [] s = "M3" -> 2 [] s = "M4" -> 3 [] s = "M5" -> 4
    [] s = "SendingSetup" -> 5 [] s = "SendingPlay" -> 6]

\* The negotiation state always counts messages of the connection in use: steps
\* taken with one source are never credited to another, although m_state is
\* shared by two connections and set by callbacks of either.
NegotiatedWithPeer ==
  /\ state \in Negotiating => rtspUp /\ steps = Position[state]
  /\ state = "Streaming" => rtspUp /\ steps = 7

\* The HUD is on as long as a connection has been negotiated through to PLAY and is
\* up, also when m_state no longer says so.  Else it is off, whatever order prompts,
\* negotiation and hang-ups take, unless a stream was abandoned: a MICE connection, a
\* SOURCE_READY that needs no approval, or a late answer to a prompt, of the source
\* that streams or of another one, set m_state.  The next teardown() makes up for it.
HudFollowsStream ==
  /\ steps = 7 => hud.on
  /\ hud.on => state = "Streaming" \/ abandoned

(***************************************************************************)
(* Statements of the repository that the code does not keep.               *)
(***************************************************************************)

\* "MiracastHandler transitions to PLAYING when PLAY is received (M7)"
\* (MediaPipeline.cpp:1136).
StreamingPlays == state = "Streaming" /\ pipeline # "none" => pipeline = "PLAYING"

\* "Require SecurityManager approval before connecting" (MiracastHandler.cpp:161):
\* the handler only connects to a source that was approved.
OnlyApproved == rtspPeer # NoSource => rtspPeer \in allowed

\* "Application shows an idle/waiting screen when no device is connected"
\* (.planning/REQUIREMENTS.md:46).
IdleWhenAlone == rtspPeer = NoSource /\ miceClient = NoSource => ~hud.on

\* "Application shows connection status (waiting/connected/device name/protocol)"
\* (.planning/REQUIREMENTS.md:45): the name is that of the device that streams.
HudNamesPeer == state = "Streaming" => hud.name = rtspPeer

\* "Application shows connection status (waiting/connected/device name/protocol)"
\* (.planning/REQUIREMENTS.md:45): waiting is shown while the handler waits.  One
\* source is enough: a second SOURCE_READY on its own MICE connection, then Allow or
\* Deny, takes m_state from Streaming without teardown().
HudIsOfStream == hud.on => state = "Streaming"

\* "Clean up and reset to waiting for next connection"
\* (MiracastHandler.cpp:466): no receive pipeline is left without a connection.
NoPipelineLeft == rtspPeer = NoSource => pipeline = "none"
=============================================================================
