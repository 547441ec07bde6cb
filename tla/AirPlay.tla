------------------------------ MODULE AirPlay ------------------------------
(***************************************************************************)
(* AirPlayHandler: the callbacks of UxPlay's RAOP server over the HUD and  *)
(* the appsrc pipeline.  UxPlay is external: one RAOP thread runs the      *)
(* control callbacks of all connections one at a time, the RTP threads of  *)
(* a connection push its frames, conn_init comes at any time before        *)
(* conn_destroy, and stopping the server ends every connection.            *)
(*                                                                         *)
(* checkConnection() is what module Approval shows it to be: it returns at *)
(* once, or when the user answers on the Qt thread, or when it times out.  *)
(* The HUD of other protocols is left out.  The pipeline is the one that   *)
(* ReceiverWindow builds, so the pointers to its appsrcs that the handler  *)
(* caches are what it would fetch again.                                   *)
(***************************************************************************)
EXTENDS Naturals, Sequences

CONSTANTS
  Conn,      \* AirPlay connections, each made once
  NoConn,    \* no connection; also the empty device name
  CodecOf,   \* the audio codec each asks for
  Off        \* the HUD shows no session

ASSUME AirPlayAssumption ==
  /\ NoConn \notin Conn /\ Off \notin Conn \union {NoConn}
  /\ CodecOf \in [Conn -> {"alac", "aac"}]

VARIABLES
  raop,       \* m_raop: "none", "serving", or "stopping" in raop_stop_httpd()
  conn,       \* each connection
  inits,      \* connections whose conn_init was called
  asking,     \* the connection the RAOP thread is blocked for
  device,     \* m_currentDeviceName: the connection that reported it
  appsrc,     \* MediaPipeline::videoAppsrc() and audioAppsrc() exist
  capsSet,    \* m_audioCapsSet
  caps,       \* caps of the audio appsrc
  pk,         \* TXT record "pk" of the AirPlay services
  posted,     \* setConnected() calls queued on the Qt thread: what the HUD will show
  hud,        \* what the HUD shows
  inFlight,   \* a video frame is on its way through the pipeline
  formatted,  \* history: open connections that asked for their format
  mixed       \* history: those whose audio another session's came between

session   == <<conn, inits, asking, device>>
media     == <<appsrc, capsSet, caps, inFlight>>
screen    == <<posted, hud>>
history   == <<formatted, mixed>>
airplay   == <<raop, session, media, pk, screen, history>>

AirPlayTypeOK ==
  /\ raop \in {"none", "serving", "stopping"}
  /\ conn \in [Conn -> {"new", "open", "admitted", "refused", "closed"}]
  /\ inits \subseteq Conn /\ formatted \subseteq Conn /\ mixed \subseteq Conn
  /\ {asking, device} \subseteq Conn \union {NoConn}
  /\ {appsrc, capsSet, inFlight} \subseteq BOOLEAN
  /\ caps \in {"none", "alac", "aac", "pcm"}
  /\ pk \in {"none", "placeholder", "key"}
  /\ posted \in Seq(Conn \union {NoConn, Off})
  /\ hud \in Conn \union {NoConn, Off}

AirPlayInit ==
  /\ raop = "none" /\ conn = [c \in Conn |-> "new"]
  /\ inits = {} /\ asking = NoConn /\ device = NoConn
  /\ appsrc = FALSE /\ capsSet = FALSE /\ caps = "none"
  /\ pk = "none" /\ posted = <<>> /\ hud = Off /\ inFlight = FALSE
  /\ formatted = {} /\ mixed = {}

Live == {c \in Conn : conn[c] \in {"open", "admitted", "refused"}}

-----------------------------------------------------------------------------
(* The main thread.                                                        *)

\* start() fails in raop_init(), in raop_init2() or in raop_start_httpd(): what
\* was made is destroyed.  The key replaces the placeholder before the server
\* listens, if it can be read and something is advertised.
Start ==
  /\ raop = "none"
  /\ \/ raop' = "none" /\ UNCHANGED pk
     \/ /\ raop' \in {"none", "serving"}
        /\ pk' \in IF pk = "none" THEN {pk} ELSE {pk, "key"}
  /\ UNCHANGED <<session, media, screen, history>>

\* stop() calls raop_stop_httpd(), which joins the RAOP thread ...
StopHttpd ==
  /\ raop = "serving" /\ raop' = "stopping"
  /\ UNCHANGED <<session, media, pk, screen, history>>

\* ... and once every connection is gone destroys the server and resets.
Destroyed ==
  /\ raop = "stopping" /\ Live = {}
  /\ raop' = "none" /\ device' = NoConn /\ capsSet' = FALSE
  /\ UNCHANGED <<conn, inits, asking, appsrc, caps, inFlight, pk, screen, history>>

\* The event loop runs a lambda that a callback posted.
SetConnected ==
  /\ posted # <<>> /\ hud' = Head(posted) /\ posted' = Tail(posted)
  /\ UNCHANGED <<raop, session, media, pk, history>>

\* sceneGraphInitialized: the pipeline is built, or cannot be.
SceneGraphInitialized ==
  /\ ~appsrc /\ appsrc' = TRUE
  /\ UNCHANGED <<raop, session, capsSet, caps, inFlight, pk, screen, history>>

\* AirShowHandler announces PCM on the shared appsrc.
OtherSetsCaps ==
  /\ appsrc /\ caps' = "pcm"
  /\ mixed' = mixed \union formatted
  /\ UNCHANGED <<raop, session, appsrc, capsSet, inFlight, pk, screen, formatted>>

-----------------------------------------------------------------------------
(* The RAOP thread: nothing else happens on it while it asks.              *)

Accept(c) ==
  /\ raop = "serving" /\ asking = NoConn /\ conn[c] = "new"
  /\ conn' = [conn EXCEPT ![c] = "open"]
  /\ UNCHANGED <<raop, inits, asking, device, media, pk, screen, history>>

OnConnectionInit(c) ==
  /\ asking = NoConn /\ c \in Live \ inits
  /\ inits' = inits \union {c}
  /\ posted' = Append(posted, device)
  /\ UNCHANGED <<raop, conn, asking, device, media, pk, hud, history>>

\* The name is recorded, then checkConnection() returns at once or blocks.
OnReportClientRequest(c) ==
  /\ raop = "serving" /\ asking = NoConn /\ conn[c] = "open"
  /\ device' = c
  /\ \/ asking' = c /\ UNCHANGED conn
     \/ conn' = [conn EXCEPT ![c] = "admitted"] /\ UNCHANGED asking
  /\ UNCHANGED <<raop, inits, media, pk, screen, history>>

Returned(verdict) ==
  /\ asking # NoConn /\ asking' = NoConn
  /\ conn' = [conn EXCEPT ![asking] = verdict]
  /\ UNCHANGED <<raop, inits, device, media, pk, screen, history>>

\* checkConnection() returns with what the user pressed.
Answered == \E verdict \in {"admitted", "refused"} : Returned(verdict)

\* Mutant: checkConnection() waits for an answer only.
TimedOutNever == FALSE /\ UNCHANGED airplay

TimedOut == Returned("refused")

\* The first request of a session sets the caps, if there is a pipeline to set
\* them on; it counts as the first all the same.
OnAudioGetFormat(c) ==
  /\ asking = NoConn /\ conn[c] = "admitted"
  /\ capsSet' = TRUE
  /\ caps' = IF ~capsSet /\ appsrc THEN CodecOf[c] ELSE caps
  /\ formatted' = formatted \union {c}
  /\ LET rivals == formatted \ {c} IN
       mixed' = mixed \union (IF rivals = {} THEN {} ELSE rivals \union {c})
  /\ UNCHANGED <<raop, session, appsrc, inFlight, pk, screen>>

Closing(c) ==
  /\ asking = NoConn /\ c \in Live \intersect inits
  /\ conn' = [conn EXCEPT ![c] = "closed"]
  /\ formatted' = formatted \ {c} /\ mixed' = mixed \ {c}
  /\ UNCHANGED <<raop, inits, asking, device, appsrc, caps, inFlight, pk>>

\* Mutant: m_audioCapsSet survives the session.
OnConnectionDestroyKeepingCaps(c) ==
  Closing(c) /\ posted' = Append(posted, Off) /\ UNCHANGED <<hud, capsSet>>

\* Mutant: setConnected(false) is called, not queued.
OnConnectionDestroyAtOnce(c) ==
  Closing(c) /\ capsSet' = FALSE /\ hud' = Off /\ UNCHANGED posted

OnConnectionDestroy(c) ==
  Closing(c) /\ capsSet' = FALSE /\ posted' = Append(posted, Off) /\ UNCHANGED hud

-----------------------------------------------------------------------------
(* RTP threads and GStreamer.                                              *)

\* Without a pipeline a frame is dropped.
OnVideoFrame(c) ==
  /\ conn[c] = "admitted" /\ ~inFlight
  /\ appsrc /\ inFlight' = TRUE
  /\ UNCHANGED <<raop, session, appsrc, capsSet, caps, pk, screen, history>>

\* onNewVideoSample() hands the frame to the window's VideoFrameSink.
OnNewVideoSample ==
  /\ inFlight /\ inFlight' = FALSE
  /\ UNCHANGED <<raop, session, appsrc, capsSet, caps, pk, screen, history>>

Raop(c) ==
  \/ Accept(c) \/ OnConnectionInit(c) \/ OnReportClientRequest(c)
  \/ OnAudioGetFormat(c) \/ OnConnectionDestroy(c)
=============================================================================
