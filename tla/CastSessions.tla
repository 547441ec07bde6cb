---------------------------- MODULE CastSessions ----------------------------
(***************************************************************************)
(* The Cast control channel: CastHandler, its CastSessions, their approval,*)
(* the Cast part of MediaPipeline and the connection state (HUD) of        *)
(* ConnectionBridge.                                                       *)
(*                                                                         *)
(* Everything runs on the Qt thread, one event at a time.  setConnected()  *)
(* and finished() are posted, so they take effect behind whatever was      *)
(* posted before and behind socket events that are served first.           *)
(*                                                                         *)
(* A session is one TLS connection from the local network.  Only messages  *)
(* with an effect are modelled; the prompt is answered by the user or, for *)
(* a trusted device or with approval off, at once (see Approval).          *)
(***************************************************************************)
EXTENDS Naturals, Sequences

CONSTANTS
  Session,      \* TLS connections
  NoSession,    \* nothing, or another protocol's session
  MaxGated,     \* bound: gated messages a sender sends
  MaxEvents     \* bound: posted events

ASSUME SessionAssumption ==
  /\ NoSession \notin Session
  /\ MaxGated \in Nat /\ MaxEvents \in Nat

Gated   == {"LAUNCH", "CONNECT", "LOAD", "OFFER"}
Message == Gated \union {"STOP", "CLOSE"}
Flow    == [Session -> Seq(Gated)]

VARIABLES
  stage,         \* "none", "open" (in m_sessions), "gone"
  socket,        \* the TLS connection is up
  approved, approvalPending, rejected, held, didConnect, appLaunched,
  streaming,     \* m_streaming is set
  replaying,     \* the session whose held messages are being dispatched
  castPipeline,  \* the session m_castPipeline was built for
  playing,       \* URI pipelines set to PLAYING
  hud,           \* who the HUD shows: a session, "Other", or NoSession
  events,        \* posted events, oldest first
  arrived, done, \* history: gated messages received, and executed
  consent        \* history: the answer the session got

gate  == <<approved, approvalPending, rejected, held>>
media == <<streaming, castPipeline, playing>>
history == <<arrived, done, consent>>
vars == <<stage, socket, approved, approvalPending, rejected, held, didConnect,
          appLaunched, streaming, replaying, castPipeline, playing, hud, events,
          arrived, done, consent>>

Event == [kind : {"hudOn", "hudOff", "finished"}, of : Session]

TypeOK ==
  /\ stage \in [Session -> {"none", "open", "gone"}]
  /\ socket \in [Session -> BOOLEAN]
  /\ approved \in [Session -> BOOLEAN]
  /\ approvalPending \in [Session -> BOOLEAN]
  /\ rejected \in [Session -> BOOLEAN]
  /\ held \in Flow
  /\ didConnect \in [Session -> BOOLEAN]
  /\ appLaunched \in [Session -> BOOLEAN]
  /\ streaming \in [Session -> BOOLEAN]
  /\ replaying \in Session \union {NoSession}
  /\ castPipeline \in Session \union {NoSession}
  /\ playing \in Nat
  /\ hud \in Session \union {NoSession, "Other"}
  /\ events \in Seq(Event)
  /\ arrived \in Flow /\ done \in Flow
  /\ consent \in [Session -> {"none", "allow", "deny"}]

Init ==
  /\ stage = [s \in Session |-> "none"]
  /\ socket = [s \in Session |-> FALSE]
  /\ approved = [s \in Session |-> FALSE]
  /\ approvalPending = [s \in Session |-> FALSE]
  /\ rejected = [s \in Session |-> FALSE]
  /\ held = [s \in Session |-> <<>>]
  /\ didConnect = [s \in Session |-> FALSE]
  /\ appLaunched = [s \in Session |-> FALSE]
  /\ streaming = [s \in Session |-> FALSE]
  /\ replaying = NoSession
  /\ castPipeline = NoSession
  /\ playing = 0
  /\ hud = NoSession
  /\ events = <<>>
  /\ arrived = [s \in Session |-> <<>>]
  /\ done = [s \in Session |-> <<>>]
  /\ consent = [s \in Session |-> "none"]

\* The Qt thread can take up a new event.
Idle == replaying = NoSession

Room == Len(events) < MaxEvents

Post(kinds, s) == events \o [i \in DOMAIN kinds |-> [kind |-> kinds[i], of |-> s]]

-----------------------------------------------------------------------------
(* CastHandler.                                                            *)

\* A connection is refused while some session is casting.
Refused == \E t \in Session : stage[t] = "open" /\ didConnect[t]

OnPendingConnection(s) ==
  /\ Idle /\ stage[s] = "none"
  /\ stage' = [stage EXCEPT ![s] = IF Refused THEN "gone" ELSE "open"]
  /\ socket' = [socket EXCEPT ![s] = ~Refused]
  /\ UNCHANGED <<gate, didConnect, appLaunched, media, replaying, hud, events, history>>

-----------------------------------------------------------------------------
(* Streaming.                                                              *)

\* Mutant: m_streaming.reset() without stopCast().
StopStreamingOnly(s) ==
  /\ streaming' = [streaming EXCEPT ![s] = FALSE]
  /\ UNCHANGED castPipeline

\* stopStreaming(): stopCast() stops whatever m_castPipeline is.
StopStreaming(s) ==
  /\ streaming' = [streaming EXCEPT ![s] = FALSE]
  /\ castPipeline' = IF streaming[s] THEN NoSession ELSE castPipeline

\* onWebrtc(): nothing selected, started, or failed to start.
OnOffer(s) ==
  \/ UNCHANGED <<streaming, castPipeline>>
  \/ /\ streaming' = [streaming EXCEPT ![s] = TRUE]
     /\ castPipeline' = s
  \/ /\ streaming' = [streaming EXCEPT ![s] = FALSE]
     /\ castPipeline' = NoSession

-----------------------------------------------------------------------------
(* CastSession: the effect of a message once it may be dispatched.         *)

Launch(s) ==
  /\ \E known \in BOOLEAN :
       appLaunched' = IF known THEN [appLaunched EXCEPT ![s] = TRUE] ELSE appLaunched
  /\ UNCHANGED <<didConnect, media, events>>

ConnectTransport(s) ==
  /\ didConnect' = [didConnect EXCEPT ![s] = TRUE]
  /\ events' = Post(<<"hudOn">>, s)
  /\ UNCHANGED <<appLaunched, media>>

\* A new URI pipeline replaces the pointer to the one before, which plays on.
Load(s) ==
  /\ \E ok \in BOOLEAN : playing' = IF ok THEN playing + 1 ELSE playing
  /\ UNCHANGED <<didConnect, appLaunched, streaming, castPipeline, events>>

Offer(s) == OnOffer(s) /\ UNCHANGED <<didConnect, appLaunched, playing, events>>

Stop(s) ==
  /\ appLaunched' = [appLaunched EXCEPT ![s] = FALSE]
  /\ StopStreaming(s)
  /\ UNCHANGED <<didConnect, playing, events>>

Farewell(s) == Post(IF didConnect[s] THEN <<"hudOff", "finished">> ELSE <<"finished">>, s)

Close(s) ==
  /\ StopStreaming(s)
  /\ events' = Farewell(s)
  /\ UNCHANGED <<didConnect, appLaunched, playing>>

Execute(s, m) ==
  CASE m = "LAUNCH"  -> Launch(s)
    [] m = "CONNECT" -> ConnectTransport(s)
    [] m = "LOAD"    -> Load(s)
    [] m = "OFFER"   -> Offer(s)
    [] m = "STOP"    -> Stop(s)
    [] m = "CLOSE"   -> Close(s)

-----------------------------------------------------------------------------
(* CastSession: the gate.                                                  *)

\* Mutant: webrtc messages are not gated.
RequiresApprovalNotWebrtc(m) == m \in Gated \ {"OFFER"}

RequiresApproval(m) == m \in Gated

Rejected(s) == rejected[s]

Note(f, s, m) == IF m \in Gated THEN [f EXCEPT ![s] = Append(@, m)] ELSE f

\* dispatchMessage() of a message that arrives; auto: the approval needs no user.
DispatchMessage(s, m, auto) ==
  /\ Idle /\ Room /\ stage[s] = "open" /\ socket[s]
  /\ m \in Gated => Len(arrived[s]) < MaxGated
  /\ arrived' = Note(arrived, s, m)
  /\ \/ /\ Rejected(s)
        /\ ~auto
        /\ UNCHANGED <<gate, didConnect, appLaunched, media, events, replaying, done, consent>>
     \/ /\ ~Rejected(s) /\ ~approved[s] /\ RequiresApproval(m)
        /\ auto => ~approvalPending[s]
        /\ held' = [held EXCEPT ![s] = Append(@, m)]
        /\ IF auto
           THEN /\ approved' = [approved EXCEPT ![s] = TRUE]
                /\ consent' = [consent EXCEPT ![s] = "allow"]
                /\ replaying' = s
                /\ UNCHANGED approvalPending
           ELSE /\ approvalPending' = [approvalPending EXCEPT ![s] = TRUE]
                /\ UNCHANGED <<approved, consent, replaying>>
        /\ UNCHANGED <<rejected, didConnect, appLaunched, media, events, done>>
     \/ /\ ~Rejected(s) /\ (approved[s] \/ ~RequiresApproval(m))
        /\ ~auto
        /\ Execute(s, m)
        /\ done' = Note(done, s, m)
        /\ UNCHANGED <<gate, replaying, consent>>
  /\ UNCHANGED <<stage, socket, hud>>

\* onApprovalResolved(true), when the session still exists (QPointer).
Approve(s) ==
  /\ Idle /\ approvalPending[s]
  /\ approvalPending' = [approvalPending EXCEPT ![s] = FALSE]
  /\ IF stage[s] = "open"
     THEN /\ approved' = [approved EXCEPT ![s] = TRUE]
          /\ consent' = [consent EXCEPT ![s] = "allow"]
          /\ replaying' = s
     ELSE UNCHANGED <<approved, consent, replaying>>
  /\ UNCHANGED <<stage, socket, rejected, held, didConnect, appLaunched, media, hud,
                 events, arrived, done>>

\* Mutant: finished() is not emitted on a denial.
DenialSilent(s) == events

Denial(s) == Post(<<"finished">>, s)

\* onApprovalResolved(false)
Deny(s) ==
  /\ Idle /\ Room /\ approvalPending[s]
  /\ approvalPending' = [approvalPending EXCEPT ![s] = FALSE]
  /\ IF stage[s] = "open"
     THEN /\ rejected' = [rejected EXCEPT ![s] = TRUE]
          /\ consent' = [consent EXCEPT ![s] = "deny"]
          /\ held' = [held EXCEPT ![s] = <<>>]
          /\ events' = Denial(s)
     ELSE UNCHANGED <<rejected, consent, held, events>>
  /\ UNCHANGED <<stage, socket, approved, didConnect, appLaunched, media, replaying, hud,
                 arrived, done>>

\* Mutant: held messages come back newest first.
NextHeldLast(s) == Len(held[s])

NextHeld(s) == 1

\* One turn of the replay loop; nothing else runs until it is through.
Replay(s) ==
  /\ replaying = s
  /\ \/ /\ held[s] # <<>>
        /\ LET i == NextHeld(s)
           IN  /\ Execute(s, held[s][i])
               /\ done' = Note(done, s, held[s][i])
               /\ held' = [held EXCEPT ![s] =
                             SubSeq(@, 1, i - 1) \o SubSeq(@, i + 1, Len(@))]
        /\ UNCHANGED replaying
     \/ /\ held[s] = <<>>
        /\ replaying' = NoSession
        /\ UNCHANGED <<held, didConnect, appLaunched, media, events, done>>
  /\ UNCHANGED <<stage, socket, approved, approvalPending, rejected, hud, arrived, consent>>

OnDisconnected(s) ==
  /\ Idle /\ Room /\ stage[s] = "open" /\ socket[s]
  /\ socket' = [socket EXCEPT ![s] = FALSE]
  /\ StopStreaming(s)
  /\ events' = Farewell(s)
  /\ UNCHANGED <<stage, gate, didConnect, appLaunched, playing, replaying, hud, history>>

-----------------------------------------------------------------------------
(* Posted events.                                                          *)

OnHud(s, show) ==
  /\ hud' = IF show THEN s ELSE NoSession
  /\ events' = Tail(events)
  /\ UNCHANGED <<stage, socket, gate, didConnect, appLaunched, media, replaying, history>>

\* onSessionFinished(): the destructor stops the stream and closes the socket;
\* emits: the socket reports that at once, which runs onDisconnected().
OnSessionFinished(s) ==
  /\ stage' = [stage EXCEPT ![s] = "gone"]
  /\ socket' = [socket EXCEPT ![s] = FALSE]
  /\ IF stage[s] = "open" THEN StopStreaming(s) ELSE UNCHANGED <<streaming, castPipeline>>
  /\ \E emits \in BOOLEAN :
       events' = IF stage[s] = "open" /\ socket[s] /\ emits /\ didConnect[s]
                 THEN Append(Tail(events), [kind |-> "hudOff", of |-> s])
                 ELSE Tail(events)
  /\ UNCHANGED <<gate, didConnect, appLaunched, playing, replaying, hud, history>>

PostedEvent ==
  /\ Idle /\ events # <<>>
  /\ LET e == Head(events)
     IN  CASE e.kind = "hudOn"    -> OnHud(e.of, TRUE)
           [] e.kind = "hudOff"   -> OnHud(e.of, FALSE)
           [] e.kind = "finished" -> OnSessionFinished(e.of)

\* Another protocol's session takes the HUD, or leaves it.
OtherProtocol ==
  /\ Idle
  /\ hud' \in {"Other", NoSession}
  /\ UNCHANGED <<stage, socket, gate, didConnect, appLaunched, media, replaying, events,
                 history>>

ReplayStep == \E s \in Session : Replay(s)

Next ==
  \/ \E s \in Session :
       \/ OnPendingConnection(s)
       \/ \E m \in Message, auto \in BOOLEAN : DispatchMessage(s, m, auto)
       \/ Approve(s)
       \/ Deny(s)
       \/ OnDisconnected(s)
  \/ ReplayStep
  \/ PostedEvent
  \/ OtherProtocol

\* The Qt thread finishes a handler and serves posted events.
Fairness == WF_vars(ReplayStep) /\ WF_vars(PostedEvent)

Spec == Init /\ [][Next]_vars /\ Fairness

-----------------------------------------------------------------------------
(* Properties.                                                             *)

\* Messages that start or control a cast take effect in the order in which they
\* arrived, each once, however many were held and whatever arrives during the
\* prompt (CastSession.h:110-113).
GatedInOrder ==
  \A s \in Session : ~rejected[s] => arrived[s] = done[s] \o held[s]

\* Until a session is allowed none of these messages has an effect, so nothing is
\* launched, shown, loaded or streamed for it.
NothingBeforeConsent ==
  \A s \in Session :
    done[s] # <<>> \/ appLaunched[s] \/ didConnect[s] \/ streaming[s]
      => consent[s] = "allow"

\* The playback pipeline never outlives the receiver that feeds it, although the
\* sessions share one pipeline and stop it for each other.
NoOrphanPipeline ==
  castPipeline # NoSession => streaming[castPipeline] /\ stage[castPipeline] = "open"

\* Liveness: a session that was denied or whose connection broke is destroyed.
EndedIsRemoved ==
  \A s \in Session :
    stage[s] = "open" /\ (rejected[s] \/ ~socket[s]) ~> stage[s] = "gone"

(***************************************************************************)
(* Statements of the repository that the code does not keep.               *)
(***************************************************************************)

\* "Once one session goes active (sender sent CONNECT), all other sessions are
\* dropped" (CastHandler.h:33-34): two sessions never cast at the same time.
OneActiveSession ==
  \A s, t \in Session :
    stage[s] = "open" /\ didConnect[s] /\ stage[t] = "open" /\ didConnect[t] => s = t

\* "Only sessions that set connected=true should reset it to false on teardown"
\* (CastSession.h:120): the session that set it last does reset it, so a HUD
\* does not show a session that is gone for ever.
HudLeavesGone ==
  \A s \in Session : stage[s] = "gone" /\ hud = s ~> hud # s
=============================================================================
