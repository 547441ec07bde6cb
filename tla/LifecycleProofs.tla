--------------------------- MODULE LifecycleProofs ---------------------------
(***************************************************************************)
(* For any number of handlers, connections, libupnp threads and failures   *)
(* of a start: whoever can call into a handler finds it, an exit leaves    *)
(* nothing behind, and what sessions leave on the HUD and on the shared    *)
(* appsrc is theirs.                                                       *)
(***************************************************************************)
EXTENDS Lifecycle, SequenceTheorems, TLAPS

-----------------------------------------------------------------------------
(* The inductive invariant.                                                *)

All == {"handlers", "window", "pipeline"}

\* From the start of libupnp until it was stopped, while handlers run, and
\* when the pipeline is gone.
UpnpPhase    == {"startAll", "exec", "stopAll", "stopDiscovery", "stopUpnp"}
HandlerPhase == {"startAll", "exec", "stopAll"}
PipelineGone == {"~UpnpAdvertiser", "~DiscoveryManager", "exited"}
WindowGone   == PipelineGone \union {"~MediaPipeline"}

\* What main() has made and not destroyed yet.
Phases ==
  /\ at \in {"discovery", "load"} => "pipeline" \in alive
  /\ at \notin {"startAll", "stopAll"} => turn = 1
  /\ at \in UpnpPhase \union {"upnp", "~ProtocolManager"} => alive = All

\* The AirPlay server only runs between the turns of its handler.
ServerHasTurn ==
  raop # "none" =>
    /\ at \in HandlerPhase
    /\ \E i \in DOMAIN Handlers :
         /\ Handlers[i] = "AirPlay"
         /\ at = "startAll" => i < turn
         /\ at = "stopAll" => turn <= i

\* Of the handlers, AirPlay apart, those run whose turn to stop has not come.
HandlersHaveTurn ==
  /\ "AirPlay" \notin running
  /\ at \notin HandlerPhase => running \subseteq {"discovery"}
  /\ at = "stopAll" =>
       running \subseteq {Handlers[i] : i \in turn .. Len(Handlers)} \union {"discovery"}

\* What libupnp holds the advertiser will give back, and no thread of it is in a
\* handler without.
LibraryIsHeld ==
  /\ lib \/ device0 \/ (\E w \in Worker : worker[w] # "idle") => upnp
  /\ upnp \/ files # {} => at \in UpnpPhase

Withdrawn == at = "exited" => pk = "none" /\ running = {}

\* Sessions are those of a server; who is asked about has not been answered; who
\* asked for a format was admitted.
Sessions ==
  /\ raop = "none" => Live = {}
  /\ asking # NoConn => conn[asking] = "open"
  /\ \A c \in formatted : conn[c] = "admitted"

\* While m_audioCapsSet is set, somebody asked; without appsrc there are no caps.
Formats ==
  /\ capsSet => formatted # {}
  /\ appsrc \/ caps = "none" \/ at \in PipelineGone
  /\ \A c \in formatted \ mixed : caps # "none" => caps = CodecOf[c]

\* What the HUD will show when the event loop has run what is queued.
Final == IF posted = <<>> THEN hud ELSE posted[Len(posted)]

HudWillSettle == Live = {} /\ at \notin WindowGone => Final = Off

\* The parts of the type invariant that are not AirPlay's.
ProgramTypeOK ==
  /\ at \in {Order[i] : i \in DOMAIN Order}
  /\ turn \in 1 .. Len(Handlers) + 1
  /\ running \subseteq {Handlers[i] : i \in DOMAIN Handlers} \union {"discovery"}
  /\ alive \subseteq {"handlers", "window", "pipeline"}
  /\ {lib, device0, upnp} \subseteq BOOLEAN
  /\ files \subseteq {"description", "scpd"}
  /\ worker \in [Worker -> {"idle", "asking", "acting"}]
  /\ failed \in 0 .. MaxFailed

ProgramInv ==
  ProgramTypeOK /\ Phases /\ ServerHasTurn /\ HandlersHaveTurn /\ LibraryIsHeld /\ Withdrawn

AirInv == AirPlayTypeOK /\ Sessions /\ Formats /\ HudWillSettle

IInv == ProgramInv /\ AirInv

-----------------------------------------------------------------------------
(* Sessions, caps and the HUD: the steps of AirPlay while main() stays     *)
(* where it is.                                                            *)

\* What is queued last is what the HUD will show.
LEMMA AppendGives ==
  ASSUME AirPlayTypeOK, NEW x \in Conn \union {NoConn, Off}, posted' = Append(posted, x)
  PROVE  posted' \in Seq(Conn \union {NoConn, Off}) /\ Final' = x
<1> DEFINE Shown == Conn \union {NoConn, Off}
<1>1. posted \in Seq(Shown) /\ x \in Shown
  BY DEF AirPlayTypeOK
<1> HIDE DEF Shown
<1>2. posted' \in Seq(Shown) /\ posted' # <<>> /\ posted'[Len(posted')] = x
  BY <1>1
<1> QED BY <1>2 DEF Final, Shown

\* The tail of a queue ends as the queue does.
LEMMA TailGives ==
  ASSUME NEW S, NEW q \in Seq(S), q # <<>>
  PROVE  /\ Head(q) \in S /\ Tail(q) \in Seq(S)
         /\ IF Tail(q) = <<>> THEN Head(q) = q[Len(q)] ELSE Tail(q)[Len(Tail(q))] = q[Len(q)]
<1> DEFINE n == Len(q)
           t == Tail(q)
<1>1. n \in Nat /\ n >= 1 /\ Head(q) = q[1] /\ Head(q) \in S
  OBVIOUS
<1>2. t \in Seq(S) /\ Len(t) = n - 1 /\ \A i \in 1 .. n - 1 : t[i] = q[i + 1]
  OBVIOUS
<1> HIDE DEF n, t
<1>3. t = <<>> <=> Len(t) = 0
  BY <1>2, EmptySeq
<1>4. CASE n = 1
  BY <1>1, <1>2, <1>3, <1>4 DEF n, t
<1>5. CASE n # 1
  <2>1. n - 1 \in 1 .. n - 1 /\ (n - 1) + 1 = n
    BY <1>1, <1>5
  <2>2. t[n - 1] = q[n]
    BY <1>2, <2>1
  <2> QED BY <1>1, <1>2, <1>3, <1>5, <2>2 DEF n, t
<1> QED BY <1>4, <1>5

\* Running what was queued first does not change what the HUD will show.
LEMMA SetConnectedKeeps ==
  ASSUME AirInv, SetConnected, UNCHANGED at
  PROVE  AirInv'
<1> DEFINE Shown == Conn \union {NoConn, Off}
<1>1. posted \in Seq(Shown) /\ posted # <<>>
  BY DEF AirInv, AirPlayTypeOK, SetConnected
<1> HIDE DEF Shown
<1>2. Head(posted) \in Shown /\ Tail(posted) \in Seq(Shown)
  BY <1>1, TailGives
<1>3. IF Tail(posted) = <<>> THEN Head(posted) = posted[Len(posted)]
      ELSE Tail(posted)[Len(Tail(posted))] = posted[Len(posted)]
  BY <1>1, TailGives
<1>4. Final' = Final
  BY <1>1, <1>3 DEF SetConnected, Final
<1>5. AirPlayTypeOK'
  BY <1>2 DEF AirInv, AirPlayTypeOK, SetConnected, session, media, history, Shown
<1>6. Live' = Live
  BY DEF SetConnected, session, Live
<1> QED BY <1>4, <1>5, <1>6
      DEF AirInv, SetConnected, session, media, history, Sessions, Formats, HudWillSettle

\* The main thread starts and stops the server and builds the pipeline.
LEMMA ServerKeeps ==
  ASSUME AirInv, Start \/ StopHttpd \/ Destroyed, UNCHANGED at
  PROVE  AirInv'
<1>1. UNCHANGED <<conn, inits, asking, appsrc, caps, inFlight, screen, history>> /\ Live' = Live
  BY DEF Start, StopHttpd, Destroyed, session, media, Live
<1>2. AirPlayTypeOK'
  BY <1>1 DEF AirInv, AirPlayTypeOK, Start, StopHttpd, Destroyed, session, media, screen, history
<1>3. Sessions'
  BY <1>1 DEF AirInv, Sessions, Start, StopHttpd, Destroyed, screen, history
<1>4. Formats'
  BY <1>1 DEF AirInv, Formats, Start, StopHttpd, Destroyed, media, screen, history
<1>5. HudWillSettle'
  BY <1>1 DEF AirInv, HudWillSettle, Final, screen
<1> QED BY <1>2, <1>3, <1>4, <1>5 DEF AirInv

\* Another protocol and GStreamer touch the media only.
LEMMA MediaKeeps ==
  ASSUME AirInv, UNCHANGED at,
         \/ SceneGraphInitialized \/ OtherSetsCaps \/ OnNewVideoSample
         \/ \E c \in Conn : OnVideoFrame(c)
  PROVE  AirInv'
<1>1. UNCHANGED <<raop, session, capsSet, pk, screen, formatted>> /\ Live' = Live
  BY DEF SceneGraphInitialized, OtherSetsCaps, OnNewVideoSample, OnVideoFrame, session, history, Live
<1>2. AirPlayTypeOK'
  BY <1>1 DEF AirInv, AirPlayTypeOK, SceneGraphInitialized, OtherSetsCaps, OnNewVideoSample, OnVideoFrame,
              session, screen, history
<1>3. Sessions' /\ HudWillSettle'
  BY <1>1 DEF AirInv, Sessions, HudWillSettle, Final, session, screen
<1>4. Formats'
  BY <1>1 DEF AirInv, Formats, SceneGraphInitialized, OtherSetsCaps, OnNewVideoSample, OnVideoFrame,
              history
<1> QED BY <1>2, <1>3, <1>4 DEF AirInv

\* A connection that moves and stays live, without a format of its own.
LEMMA MoveKeeps ==
  ASSUME AirInv, UNCHANGED <<at, raop, media, screen, history>>, AirPlayTypeOK',
         NEW c \in Conn, NEW to \in {"open", "admitted", "refused"},
         conn[c] \in {"new", "open"}, conn' = [conn EXCEPT ![c] = to],
         raop # "none" \/ conn[c] = "open", asking' # NoConn => conn'[asking'] = "open"
  PROVE  AirInv'
<1>1. conn \in [Conn -> {"new", "open", "admitted", "refused", "closed"}]
  BY DEF AirInv, AirPlayTypeOK
<1>2. Live' = Live \union {c}
  BY <1>1 DEF Live
<1>3. c \in Live \/ raop # "none"
  BY DEF Live
<1>4. c \notin formatted
  BY DEF AirInv, Sessions
<1>5. Sessions'
  BY <1>1, <1>2, <1>3, <1>4 DEF AirInv, Sessions, history, AirPlayTypeOK
<1>6. Formats'
  BY DEF AirInv, Formats, media, history
<1>7. HudWillSettle'
  BY <1>2 DEF HudWillSettle
<1> QED BY <1>5, <1>6, <1>7 DEF AirInv

\* The RAOP thread accepts a connection.
LEMMA AcceptKeeps == ASSUME AirInv, NEW c \in Conn, Accept(c), UNCHANGED at PROVE AirInv'
<1>1. AirPlayTypeOK'
  BY DEF AirInv, AirPlayTypeOK, Accept, media, screen, history
<1> QED BY <1>1, MoveKeeps DEF Accept

\* A request is answered, at once, by the user or by the timeout.
LEMMA ReturnedKeeps ==
  ASSUME AirInv, NEW verdict \in {"admitted", "refused"}, Returned(verdict), UNCHANGED at
  PROVE  AirInv'
<1>1. asking \in Conn /\ conn[asking] = "open"
  BY DEF AirInv, AirPlayTypeOK, Sessions, Returned
<1>2. AirPlayTypeOK'
  BY <1>1 DEF AirInv, AirPlayTypeOK, Returned, media, screen, history
<1> QED BY <1>1, <1>2, MoveKeeps DEF Returned

\* A client reports its name, and may have to wait for an answer.
LEMMA ReportKeeps ==
  ASSUME AirInv, NEW c \in Conn, OnReportClientRequest(c), UNCHANGED at
  PROVE  AirInv'
<1>1. AirPlayTypeOK'
  BY DEF AirInv, AirPlayTypeOK, OnReportClientRequest, media, screen, history
<1>2. CASE asking' = c /\ UNCHANGED conn
  <2>1. Live' = Live
    BY <1>2 DEF Live
  <2> QED BY <1>1, <1>2, <2>1 DEF AirInv, OnReportClientRequest, Sessions, Formats, HudWillSettle, Final,
                                  media, screen, history
<1>3. CASE conn' = [conn EXCEPT ![c] = "admitted"] /\ UNCHANGED asking
  BY <1>1, <1>3, MoveKeeps DEF OnReportClientRequest
<1> QED BY <1>2, <1>3 DEF OnReportClientRequest

\* A live connection has the HUD show its device.
LEMMA ConnectionInitKeeps ==
  ASSUME AirInv, NEW c \in Conn, OnConnectionInit(c), UNCHANGED at
  PROVE  AirInv'
<1>1. device \in Conn \union {NoConn, Off} /\ c \in Live /\ Live' = Live
  BY DEF AirInv, AirPlayTypeOK, OnConnectionInit, Live
<1>2. posted' \in Seq(Conn \union {NoConn, Off})
  BY <1>1, AppendGives DEF AirInv, OnConnectionInit
<1>3. AirPlayTypeOK'
  BY <1>2 DEF AirInv, AirPlayTypeOK, OnConnectionInit, media, history
<1> QED BY <1>1, <1>3 DEF AirInv, OnConnectionInit, Sessions, Formats, HudWillSettle, media, history

\* Only who asks while nobody else's audio is formatted has the appsrc to itself, and
\* then either sets the caps or had set them.
LEMMA AudioGetFormatKeeps ==
  ASSUME AirInv, NEW c \in Conn, OnAudioGetFormat(c), UNCHANGED at,
         raop # "none" => at \notin PipelineGone
  PROVE  AirInv'
<1>1. /\ conn[c] = "admitted" /\ Live' = Live /\ UNCHANGED <<raop, session, appsrc, screen>>
      /\ capsSet' = TRUE /\ formatted' = formatted \union {c}
      /\ caps' = IF ~capsSet /\ appsrc THEN CodecOf[c] ELSE caps
  BY DEF OnAudioGetFormat, session, Live
<1>2. AirPlayTypeOK'
  BY <1>1, AirPlayAssumption DEF AirInv, AirPlayTypeOK, OnAudioGetFormat, session, screen
<1>3. Sessions' /\ HudWillSettle'
  BY <1>1 DEF AirInv, Sessions, HudWillSettle, Final, session, screen
<1>4. raop # "none" /\ c \in Live
  BY <1>1 DEF AirInv, Sessions, Live
<1>5. ASSUME NEW d \in formatted' \ mixed', caps' # "none" PROVE caps' = CodecOf[d]
  <2>1. formatted \subseteq {c} /\ d = c /\ c \notin mixed
    BY <1>1 DEF OnAudioGetFormat
  <2>2. CASE ~capsSet /\ appsrc
    BY <1>1, <2>1, <2>2
  <2>3. CASE capsSet
    BY <1>1, <1>5, <2>1, <2>3 DEF AirInv, Formats
  <2>4. CASE ~capsSet /\ ~appsrc
    <3>1. c \in formatted \/ caps = "none" \/ at \in PipelineGone
      BY <2>4 DEF AirInv, Formats
    <3> QED BY <1>1, <1>4, <1>5, <2>1, <2>4, <3>1 DEF AirInv, Formats
  <2> QED BY <2>2, <2>3, <2>4
<1>6. appsrc' \/ caps' = "none" \/ at' \in PipelineGone
  BY <1>1 DEF AirInv, Formats
<1>7. Formats'
  BY <1>1, <1>5, <1>6 DEF Formats
<1> QED BY <1>2, <1>3, <1>7 DEF AirInv

\* A connection that closes has the HUD show none, and the next one ask for caps.
LEMMA ConnectionDestroyKeeps ==
  ASSUME AirInv, NEW c \in Conn, OnConnectionDestroy(c), UNCHANGED at
  PROVE  AirInv'
<1>1. /\ conn \in [Conn -> {"new", "open", "admitted", "refused", "closed"}]
      /\ conn' = [conn EXCEPT ![c] = "closed"] /\ asking = NoConn /\ asking' = NoConn
      /\ formatted' = formatted \ {c} /\ mixed' = mixed \ {c} /\ capsSet' = FALSE
      /\ UNCHANGED <<raop, appsrc, caps>>
  BY DEF AirInv, AirPlayTypeOK, OnConnectionDestroy, Closing
<1>2. posted' \in Seq(Conn \union {NoConn, Off}) /\ Final' = Off
  BY AppendGives DEF AirInv, OnConnectionDestroy
<1>3. AirPlayTypeOK'
  BY <1>2 DEF AirInv, AirPlayTypeOK, OnConnectionDestroy, Closing
<1>4. Live' \subseteq Live
  BY <1>1 DEF Live
<1>5. Sessions'
  BY <1>1, <1>4 DEF AirInv, Sessions, AirPlayTypeOK
<1>6. Formats'
  BY <1>1 DEF AirInv, Formats
<1> QED BY <1>2, <1>3, <1>5, <1>6 DEF AirInv, HudWillSettle

-----------------------------------------------------------------------------
(* Start and exit: the steps of main() and of libupnp's threads.           *)

\* main() goes from one place to the next.
LEMMA Steps ==
  /\ Then("discovery") => at = "discovery" /\ at' = "load"
  /\ Then("load") => at = "load" /\ at' = "upnp"
  /\ Then("upnp") => at = "upnp" /\ at' = "startAll"
  /\ Then("startAll") => at = "startAll" /\ at' = "exec"
  /\ Then("exec") => at = "exec" /\ at' = "stopAll"
  /\ Then("stopAll") => at = "stopAll" /\ at' = "stopDiscovery"
  /\ Then("stopDiscovery") => at = "stopDiscovery" /\ at' = "stopUpnp"
  /\ Then("stopUpnp") => at = "stopUpnp" /\ at' = "~ProtocolManager"
  /\ Then("~ProtocolManager") => at = "~ProtocolManager" /\ at' = "~ReceiverWindow"
  /\ Then("~ReceiverWindow") => at = "~ReceiverWindow" /\ at' = "~MediaPipeline"
  /\ Then("~MediaPipeline") => at = "~MediaPipeline" /\ at' = "~UpnpAdvertiser"
  /\ Then("~UpnpAdvertiser") => at = "~UpnpAdvertiser" /\ at' = "~DiscoveryManager"
  /\ Then("~DiscoveryManager") => at = "~DiscoveryManager" /\ at' = "exited"
<1>1. DOMAIN Order = 1 .. 14 /\ \A i, j \in DOMAIN Order : Order[i] = Order[j] => i = j
  BY DEF Order
<1>2. ASSUME NEW i \in 1 .. 13, Then(Order[i]) PROVE at = Order[i] /\ at' = Order[i + 1]
  <2>1. (CHOOSE j \in DOMAIN Order : Order[j] = Order[i]) = i
    BY <1>1
  <2> QED BY <1>2, <2>1 DEF Then
<1> QED BY <1>2 DEF Order

\* The handlers are a sequence.
LEMMA HandlersGive == Len(Handlers) \in Nat /\ DOMAIN Handlers = 1 .. Len(Handlers)
  BY LifecycleAssumption

\* Where main() may be.
LEMMA Places == ProgramTypeOK =>
  at \in {"discovery", "load", "upnp", "startAll", "exec", "stopAll", "stopDiscovery", "stopUpnp",
          "~ProtocolManager", "~ReceiverWindow", "~MediaPipeline", "~UpnpAdvertiser",
          "~DiscoveryManager", "exited"}
  BY DEF ProgramTypeOK, Order

\* And every place is one of Order.
LEMMA PlacesOfOrder ==
  ASSUME NEW x \in {"discovery", "load", "upnp", "startAll", "exec", "stopAll", "stopDiscovery", "stopUpnp",
          "~ProtocolManager", "~ReceiverWindow", "~MediaPipeline", "~UpnpAdvertiser",
          "~DiscoveryManager", "exited"}
  PROVE  x \in {Order[i] : i \in DOMAIN Order}
<1>1. DOMAIN Order = 1 .. 14
  BY DEF Order
<1>2. \E i \in 1 .. 14 : x = Order[i]
  BY DEF Order
<1> QED BY <1>1, <1>2

\* Whoever counts a failure keeps the bound.
LEMMA FailedTyped == ASSUME failed \in 0 .. MaxFailed, Works \/ Fails PROVE failed' \in 0 .. MaxFailed
  BY LifecycleAssumption DEF Works, Fails

\* The HUD, the caps and the sessions do not depend on where main() is, but after the
\* window and the pipeline are gone.
LEMMA AirMoves ==
  ASSUME AirInv, UNCHANGED <<raop, session, media, screen, history>>,
         pk' \in {"none", "placeholder", "key"},
         at \in PipelineGone => at' \in PipelineGone, at \in WindowGone => at' \in WindowGone
  PROVE  AirInv'
<1>1. AirPlayTypeOK'
  BY DEF AirInv, AirPlayTypeOK, session, media, screen, history
<1>2. Sessions' /\ HudWillSettle'
  BY DEF AirInv, Sessions, HudWillSettle, Final, Live, session, screen, history
<1>3. Formats'
  BY DEF AirInv, Formats, media, history
<1> QED BY <1>1, <1>2, <1>3 DEF AirInv

\* The beginning.
LEMMA InitOK == Init => IInv
<1> SUFFICES ASSUME Init PROVE IInv
  OBVIOUS
<1>1. AirPlayTypeOK
  BY EmptySeq DEF Init, AirPlayInit, AirPlayTypeOK
<1>2. Sessions /\ Formats /\ HudWillSettle
  BY DEF Init, AirPlayInit, Sessions, Formats, HudWillSettle, Final, Live
<1>3. "discovery" \in {Order[i] : i \in DOMAIN Order} /\ 0 \in 0 .. MaxFailed /\ 1 \in 1 .. Len(Handlers) + 1
  BY PlacesOfOrder, HandlersGive, LifecycleAssumption
<1>4. ProgramTypeOK
  BY <1>3 DEF Init, ProgramTypeOK
<1>5. Phases /\ ServerHasTurn /\ HandlersHaveTurn /\ LibraryIsHeld /\ Withdrawn
  BY DEF Init, AirPlayInit, Phases, ServerHasTurn, HandlersHaveTurn, LibraryIsHeld, Withdrawn,
         HandlerPhase, UpnpPhase
<1> QED BY <1>1, <1>2, <1>4, <1>5 DEF IInv, AirInv, ProgramInv

\* What main(), handlers and libupnp have is left alone.
LEMMA ProgramKeeps ==
  ASSUME ProgramInv, UNCHANGED <<program, soap, raop, pk>>
  PROVE  ProgramInv'
<1>1. ProgramTypeOK'
  BY DEF ProgramInv, ProgramTypeOK, program, soap
<1>2. Phases' /\ ServerHasTurn' /\ HandlersHaveTurn' /\ LibraryIsHeld' /\ Withdrawn'
  BY DEF ProgramInv, Phases, ServerHasTurn, HandlersHaveTurn, LibraryIsHeld, Withdrawn, program, soap
<1> QED BY <1>1, <1>2 DEF ProgramInv

\* Sessions and the event loop do not touch what main() has made.
LEMMA ThreadsKeep == ASSUME IInv, Event \/ AirPlayThreads PROVE IInv'
<1>1. UNCHANGED <<program, soap>> /\ at' = at
  BY DEF Event, AirPlayThreads, program
<1>2. UNCHANGED <<raop, pk>>
  BY DEF Event, AirPlayThreads, SetConnected, SceneGraphInitialized, OtherSetsCaps, Answered, TimedOut,
         Returned, Raop, Accept, OnConnectionInit, OnReportClientRequest, OnAudioGetFormat,
         OnConnectionDestroy, Closing, OnVideoFrame, OnNewVideoSample
<1>3. raop # "none" => at \notin PipelineGone
  BY DEF IInv, ProgramInv, ServerHasTurn, HandlerPhase, PipelineGone
<1>4. AirInv'
  BY <1>1, <1>3, SetConnectedKeeps, MediaKeeps, ReturnedKeeps, AcceptKeeps, ConnectionInitKeeps,
     ReportKeeps, AudioGetFormatKeeps, ConnectionDestroyKeeps
     DEF IInv, Event, AirPlayThreads, Answered, TimedOut, Raop
<1> QED BY <1>1, <1>2, <1>4, ProgramKeeps DEF IInv

\* A thread of libupnp enters a handler while the device is registered.
LEMMA WorkersKeep ==
  ASSUME IInv, NEW w \in Worker,
         HandleSoapAction(w) \/ SoapAnswered(w) \/ SoapTimedOut(w) \/ SoapDone(w)
  PROVE  IInv'
<1>1. /\ device0 \/ worker[w] # "idle"
      /\ \E to \in {"idle", "asking", "acting"} : worker' = [worker EXCEPT ![w] = to]
      /\ UNCHANGED <<airplay, program, lib, device0, files, upnp>>
  BY DEF HandleSoapAction, SoapAnswered, SoapTimedOut, SoapDone, Moves
<1>2. ProgramTypeOK'
  BY <1>1 DEF IInv, ProgramInv, ProgramTypeOK, program
<1>3. LibraryIsHeld'
  BY <1>1 DEF IInv, ProgramInv, LibraryIsHeld, program
<1>4. Phases' /\ ServerHasTurn' /\ HandlersHaveTurn' /\ Withdrawn'
  BY <1>1 DEF IInv, ProgramInv, Phases, ServerHasTurn, HandlersHaveTurn, Withdrawn, program, airplay
<1>5. AirInv'
  BY <1>1, AirMoves DEF IInv, AirInv, AirPlayTypeOK, airplay, program
<1> QED BY <1>2, <1>3, <1>4, <1>5 DEF IInv, ProgramInv

\* A place main() comes to while no handler runs and libupnp has not started or has
\* been stopped.
LEMMA ProgramMoves ==
  ASSUME ProgramInv, UNCHANGED <<raop, turn, soap>>, failed' \in 0 .. MaxFailed,
         at \notin HandlerPhase, at' \notin HandlerPhase,
         at' \in {Order[i] : i \in DOMAIN Order},
         at \in UpnpPhase => at' \in UpnpPhase,
         running' \subseteq {"discovery"}, alive' \subseteq All,
         at' \in {"discovery", "load"} => "pipeline" \in alive',
         at' \in UpnpPhase \union {"upnp", "~ProtocolManager"} => alive' = All,
         at' = "exited" => pk' = "none" /\ running' = {}
  PROVE  ProgramInv'
<1>1. ProgramTypeOK'
  BY DEF ProgramInv, ProgramTypeOK, soap, All
<1>2. raop' = "none" /\ turn' = 1
  BY DEF ProgramInv, ServerHasTurn, Phases, HandlerPhase
<1>3. Phases' /\ ServerHasTurn' /\ HandlersHaveTurn'
  BY <1>2 DEF Phases, ServerHasTurn, HandlersHaveTurn, HandlerPhase
<1>4. LibraryIsHeld' /\ Withdrawn'
  BY DEF ProgramInv, LibraryIsHeld, Withdrawn, soap
<1> QED BY <1>1, <1>3, <1>4 DEF ProgramInv

\* Discovery starts or does not.
LEMMA StartDiscoveryKeeps == ASSUME IInv, StartDiscovery PROVE IInv'
<1>1. at = "discovery" /\ at' = "load" /\ alive' = alive /\ UNCHANGED <<turn, soap>>
  BY Steps DEF StartDiscovery
<1>2. UNCHANGED <<raop, session, media, screen, history>>
  BY DEF StartDiscovery, Asleep
<1>3. pk' \in {"none", "placeholder", "key"} /\ running' \subseteq {"discovery"} /\ alive \subseteq All
  BY <1>1 DEF StartDiscovery, IInv, ProgramInv, ProgramTypeOK, AirInv, AirPlayTypeOK, HandlersHaveTurn,
              HandlerPhase, All
<1>4. failed' \in 0 .. MaxFailed
  BY FailedTyped DEF StartDiscovery, IInv, ProgramInv, ProgramTypeOK
<1>5. "load" \in {Order[i] : i \in DOMAIN Order}
  BY PlacesOfOrder
<1>6. "pipeline" \in alive
  BY <1>1 DEF IInv, ProgramInv, Phases
<1>7. ProgramInv'
  BY <1>1, <1>2, <1>3, <1>4, <1>5, <1>6, ProgramMoves DEF IInv, HandlerPhase, UpnpPhase
<1>8. AirInv'
  BY <1>1, <1>2, <1>3, AirMoves DEF IInv, PipelineGone, WindowGone
<1> QED BY <1>7, <1>8 DEF IInv

\* The window and the handlers are made, or main() returns.
LEMMA LoadKeeps == ASSUME IInv, Load PROVE IInv'
<1>1. /\ at = "load" /\ UNCHANGED <<turn, soap, running>>
      /\ \/ at' = "upnp" /\ alive' = alive \union {"window", "handlers"}
         \/ at' = "~ReceiverWindow" /\ alive' = alive \union {"window"}
  BY Steps DEF Load
<1>2. UNCHANGED <<raop, session, media, screen, history, pk>>
  BY DEF Load, airplay
<1>3. pk' \in {"none", "placeholder", "key"} /\ running' \subseteq {"discovery"} /\ alive' \subseteq All
  BY <1>1, <1>2 DEF IInv, ProgramInv, ProgramTypeOK, AirInv, AirPlayTypeOK, HandlersHaveTurn, HandlerPhase, All
<1>4. failed' \in 0 .. MaxFailed
  BY FailedTyped DEF Load, IInv, ProgramInv, ProgramTypeOK
<1>5. {"upnp", "~ReceiverWindow"} \subseteq {Order[i] : i \in DOMAIN Order}
  BY PlacesOfOrder
<1>6. "pipeline" \in alive
  BY <1>1 DEF IInv, ProgramInv, Phases
<1>7. ProgramInv'
  BY <1>1, <1>2, <1>3, <1>4, <1>5, <1>6, ProgramMoves DEF IInv, HandlerPhase, UpnpPhase, All
<1>8. AirInv'
  BY <1>1, <1>2, <1>3, AirMoves DEF IInv, PipelineGone, WindowGone
<1> QED BY <1>7, <1>8 DEF IInv
\* libupnp starts and has its files, or a stage fails and it is finished.
LEMMA StartUpnpKeeps == ASSUME IInv, StartUpnp PROVE IInv'
<1>1. /\ at = "upnp" /\ at' = "startAll" /\ UNCHANGED <<airplay, turn, running, alive, worker>>
      /\ raop' = raop /\ pk' = pk
      /\ \/ upnp' = TRUE /\ lib' = TRUE /\ device0' = TRUE
         \/ lib' = FALSE /\ UNCHANGED <<device0, upnp>>
      /\ files' \subseteq {"description", "scpd"}
  BY Steps DEF StartUpnp, UpnpFailed, airplay
<1>2. failed' \in 0 .. MaxFailed
  BY FailedTyped DEF StartUpnp, IInv, ProgramInv, ProgramTypeOK
<1>3. "startAll" \in {Order[i] : i \in DOMAIN Order}
  BY PlacesOfOrder
<1>4. ProgramTypeOK'
  BY <1>1, <1>2, <1>3 DEF IInv, ProgramInv, ProgramTypeOK
<1>5. raop = "none"
  BY <1>1 DEF IInv, ProgramInv, ServerHasTurn, HandlerPhase
<1>6. Phases' /\ ServerHasTurn' /\ HandlersHaveTurn' /\ Withdrawn'
  BY <1>1, <1>5 DEF IInv, ProgramInv, Phases, ServerHasTurn, HandlersHaveTurn, Withdrawn, HandlerPhase
<1>7. LibraryIsHeld'
  BY <1>1 DEF IInv, ProgramInv, LibraryIsHeld, UpnpPhase
<1>8. AirInv'
  BY <1>1, AirMoves DEF IInv, AirInv, AirPlayTypeOK, PipelineGone, WindowGone, airplay
<1> QED BY <1>4, <1>6, <1>7, <1>8 DEF IInv, ProgramInv

\* The handlers start in turn, AirPlay's server too.
LEMMA StartHandlerKeeps == ASSUME IInv, StartHandler PROVE IInv'
<1>1. /\ at = "startAll" /\ at' = at /\ turn \in DOMAIN Handlers /\ turn' = turn + 1
      /\ UNCHANGED <<alive, soap>>
      /\ \/ Handlers[turn] = "AirPlay" /\ running' = running /\ Start
         \/ UNCHANGED airplay /\ running' \subseteq running \union ({Handlers[turn]} \ {"AirPlay"})
  BY DEF StartHandler
<1>2. failed' \in 0 .. MaxFailed
  BY FailedTyped DEF StartHandler, IInv, ProgramInv, ProgramTypeOK
<1>3. turn \in Nat /\ turn' \in 1 .. Len(Handlers) + 1
  BY <1>1, HandlersGive
<1>4. ProgramTypeOK'
  BY <1>1, <1>2, <1>3 DEF IInv, ProgramInv, ProgramTypeOK, soap
<1>5. ServerHasTurn'
  <2>1. CASE UNCHANGED airplay
    BY <1>1, <1>3, <2>1, HandlersGive DEF IInv, ProgramInv, ServerHasTurn, HandlerPhase, airplay
  <2>2. CASE Handlers[turn] = "AirPlay"
    BY <1>1, <1>3, <2>2 DEF ServerHasTurn, HandlerPhase
  <2> QED BY <1>1, <2>1, <2>2
<1>6. Phases' /\ HandlersHaveTurn' /\ LibraryIsHeld' /\ Withdrawn'
  BY <1>1 DEF IInv, ProgramInv, Phases, HandlersHaveTurn, LibraryIsHeld, Withdrawn, HandlerPhase, UpnpPhase, soap
<1>7. AirInv'
  <2>1. CASE UNCHANGED airplay
    BY <1>1, <2>1, AirMoves DEF IInv, AirInv, AirPlayTypeOK, airplay
  <2>2. CASE Start
    BY <1>1, <2>2, ServerKeeps DEF IInv
  <2> QED BY <1>1, <2>1, <2>2
<1> QED BY <1>4, <1>5, <1>6, <1>7 DEF IInv, ProgramInv

\* All have had their turn to start, the user quits, all have had their turn to stop.
LEMMA TurnsKeep == ASSUME IInv, Started \/ Quit \/ Stopped PROVE IInv'
<1>1. /\ \/ at = "startAll" /\ at' = "exec" /\ turn = Len(Handlers) + 1
         \/ at = "exec" /\ at' = "stopAll" /\ turn = 1
         \/ at = "stopAll" /\ at' = "stopDiscovery" /\ turn = Len(Handlers) + 1
      /\ turn' = 1 /\ UNCHANGED <<airplay, running, alive, failed, soap>> /\ raop' = raop /\ pk' = pk
  BY Steps DEF Started, Quit, Stopped, IInv, ProgramInv, Phases, airplay
<1>2. {"exec", "stopAll", "stopDiscovery"} \subseteq {Order[i] : i \in DOMAIN Order}
      /\ 1 \in 1 .. Len(Handlers) + 1
  BY PlacesOfOrder, HandlersGive
<1>3. ProgramTypeOK'
  BY <1>1, <1>2 DEF IInv, ProgramInv, ProgramTypeOK, soap
<1>4. ServerHasTurn'
  <2>1. \A i \in DOMAIN Handlers : 1 <= i /\ ~(Len(Handlers) + 1 <= i)
    BY HandlersGive
  <2> QED BY <1>1, <2>1 DEF IInv, ProgramInv, ServerHasTurn, HandlerPhase
<1>5. HandlersHaveTurn'
  <2>0. "AirPlay" \notin running
    BY DEF IInv, ProgramInv, HandlersHaveTurn
  <2>1. CASE at = "startAll"
    BY <1>1, <2>0, <2>1 DEF HandlersHaveTurn, HandlerPhase
  <2>2. CASE at = "exec"
    <3>1. {Handlers[i] : i \in DOMAIN Handlers} = {Handlers[i] : i \in 1 .. Len(Handlers)}
      BY HandlersGive
    <3> QED BY <1>1, <2>0, <2>2, <3>1 DEF IInv, ProgramInv, ProgramTypeOK, HandlersHaveTurn, HandlerPhase
  <2>3. CASE at = "stopAll"
    <3>1. {Handlers[i] : i \in Len(Handlers) + 1 .. Len(Handlers)} = {}
      BY HandlersGive
    <3> QED BY <1>1, <2>0, <2>3, <3>1 DEF IInv, ProgramInv, HandlersHaveTurn, HandlerPhase
  <2> QED BY <1>1, <2>1, <2>2, <2>3
<1>6. Phases' /\ LibraryIsHeld' /\ Withdrawn'
  BY <1>1 DEF IInv, ProgramInv, Phases, LibraryIsHeld, Withdrawn, UpnpPhase, soap
<1>7. AirInv'
  BY <1>1, AirMoves DEF IInv, AirInv, AirPlayTypeOK, PipelineGone, WindowGone, airplay
<1> QED BY <1>3, <1>4, <1>5, <1>6, <1>7 DEF IInv, ProgramInv
\* A handler stops when it has its turn; AirPlay's turn lasts until its server is gone.
LEMMA StopHandlerKeeps == ASSUME IInv, StopHandler PROVE IInv'
<1>1. /\ at = "stopAll" /\ at' = at /\ turn \in DOMAIN Handlers /\ UNCHANGED <<alive, failed, soap>>
      /\ \/ Handlers[turn] = "AirPlay" /\ StopHttpd /\ UNCHANGED <<turn, running>>
         \/ Handlers[turn] = "AirPlay" /\ Destroyed /\ turn' = turn + 1 /\ UNCHANGED running
         \/ /\ Handlers[turn] = "AirPlay" => raop = "none"
            /\ turn' = turn + 1 /\ running' = running \ {Handlers[turn]} /\ UNCHANGED airplay
  BY DEF StopHandler
<1>2. /\ Len(Handlers) \in Nat /\ DOMAIN Handlers = 1 .. Len(Handlers) /\ turn \in 1 .. Len(Handlers)
      /\ turn' \in {turn, turn + 1} /\ turn' \in 1 .. Len(Handlers) + 1
  BY <1>1, HandlersGive
<1>3. ProgramTypeOK'
  BY <1>1, <1>2 DEF IInv, ProgramInv, ProgramTypeOK, soap
<1>4. ServerHasTurn'
  <2>1. CASE StopHttpd /\ UNCHANGED turn
    BY <1>1, <2>1 DEF IInv, ProgramInv, ServerHasTurn, HandlerPhase, StopHttpd
  <2>2. CASE Destroyed
    BY <2>2 DEF Destroyed, ServerHasTurn
  <2>3. CASE (Handlers[turn] = "AirPlay" => raop = "none") /\ turn' = turn + 1 /\ UNCHANGED airplay
    <3> SUFFICES ASSUME raop # "none" PROVE ServerHasTurn'
      BY <2>3 DEF ServerHasTurn, airplay
    <3>1. PICK i \in DOMAIN Handlers : Handlers[i] = "AirPlay" /\ turn <= i
      BY <1>1 DEF IInv, ProgramInv, ServerHasTurn
    <3>2. turn' <= i
      BY <1>2, <2>3, <3>1
    <3> QED BY <1>1, <3>1, <3>2 DEF ServerHasTurn, HandlerPhase
  <2> QED BY <1>1, <2>1, <2>2, <2>3
<1>5. HandlersHaveTurn'
  <2> DEFINE Left(t) == {Handlers[i] : i \in t .. Len(Handlers)}
  <2>0. "AirPlay" \notin running
    BY DEF IInv, ProgramInv, HandlersHaveTurn
  <2>1. running \subseteq Left(turn) \union {"discovery"}
    BY <1>1 DEF IInv, ProgramInv, HandlersHaveTurn
  <2>2. Left(turn) \subseteq Left(turn + 1) \union {Handlers[turn]}
    BY <1>2
  <2>3. CASE UNCHANGED <<turn, running>>
    BY <1>1, <2>0, <2>1, <2>3 DEF HandlersHaveTurn, HandlerPhase
  <2>4. CASE turn' = turn + 1 /\ running' = running \ {Handlers[turn]}
    BY <1>1, <2>0, <2>1, <2>2, <2>4 DEF HandlersHaveTurn, HandlerPhase
  <2>5. CASE Handlers[turn] = "AirPlay" /\ turn' = turn + 1 /\ UNCHANGED running
    BY <1>1, <2>0, <2>1, <2>2, <2>5 DEF HandlersHaveTurn, HandlerPhase
  <2> QED BY <1>1, <2>3, <2>4, <2>5
<1>6. Phases' /\ LibraryIsHeld' /\ Withdrawn'
  BY <1>1 DEF IInv, ProgramInv, Phases, LibraryIsHeld, Withdrawn, UpnpPhase, soap
<1>7. AirInv'
  BY <1>1, AirMoves, ServerKeeps DEF IInv, AirInv, AirPlayTypeOK, airplay
<1> QED BY <1>3, <1>4, <1>5, <1>6, <1>7 DEF IInv, ProgramInv

\* The services are withdrawn, after the handlers and once more at the end.
LEMMA StopDiscoveryKeeps == ASSUME IInv, StopDiscovery PROVE IInv'
<1>1. /\ \/ at = "stopDiscovery" /\ at' = "stopUpnp"
         \/ at = "~DiscoveryManager" /\ at' = "exited"
      /\ running' = running \ {"discovery"} /\ pk' = "none"
      /\ UNCHANGED <<turn, alive, failed, soap>>
  BY Steps DEF StopDiscovery
<1>2. UNCHANGED <<raop, session, media, screen, history>>
  BY DEF StopDiscovery, Asleep
<1>3. running' = {}
  BY <1>1 DEF IInv, ProgramInv, HandlersHaveTurn, HandlerPhase
<1>4. failed' \in 0 .. MaxFailed /\ alive' \subseteq All
  BY <1>1 DEF IInv, ProgramInv, ProgramTypeOK, All
<1>5. {"stopUpnp", "exited"} \subseteq {Order[i] : i \in DOMAIN Order}
  BY PlacesOfOrder
<1>6. at = "stopDiscovery" => alive = All
  BY DEF IInv, ProgramInv, Phases, UpnpPhase
<1>7. ProgramInv'
  BY <1>1, <1>2, <1>3, <1>4, <1>5, <1>6, ProgramMoves DEF IInv, HandlerPhase, UpnpPhase
<1>8. AirInv'
  BY <1>1, <1>2, AirMoves DEF IInv, PipelineGone, WindowGone
<1> QED BY <1>7, <1>8 DEF IInv

\* UnRegister ends the calls; the thread that is in one keeps the library.
LEMMA UnRegisterKeeps == ASSUME IInv, UnRegister PROVE IInv'
<1>1. /\ upnp /\ ~device0' /\ UNCHANGED <<airplay, program, lib, files, upnp, worker>>
      /\ device0' \in BOOLEAN
  BY DEF UnRegister
<1>2. ProgramTypeOK'
  BY <1>1 DEF IInv, ProgramInv, ProgramTypeOK, program
<1>3. Phases' /\ ServerHasTurn' /\ HandlersHaveTurn' /\ LibraryIsHeld' /\ Withdrawn'
  BY <1>1 DEF IInv, ProgramInv, Phases, ServerHasTurn, HandlersHaveTurn, LibraryIsHeld, Withdrawn,
              program, airplay
<1>4. AirInv'
  BY <1>1, AirMoves DEF IInv, AirInv, AirPlayTypeOK, airplay, program
<1> QED BY <1>2, <1>3, <1>4 DEF IInv, ProgramInv

\* The advertiser finishes the library, and does nothing the second time.
LEMMA StopUpnpKeeps == ASSUME IInv, StopUpnp PROVE IInv'
<1>1. /\ \/ at = "stopUpnp" /\ at' = "~ProtocolManager"
         \/ at = "~UpnpAdvertiser" /\ at' = "~DiscoveryManager"
      /\ upnp => ~device0 /\ \A w \in Worker : worker[w] = "idle"
      /\ lib' = (lib /\ ~upnp) /\ upnp' = FALSE /\ files' = {}
      /\ UNCHANGED <<airplay, turn, running, alive, failed, device0, worker>> /\ raop' = raop /\ pk' = pk
  BY Steps DEF StopUpnp, airplay
<1>2. {"~ProtocolManager", "~DiscoveryManager"} \subseteq {Order[i] : i \in DOMAIN Order}
  BY PlacesOfOrder
<1>3. ProgramTypeOK'
  BY <1>1, <1>2 DEF IInv, ProgramInv, ProgramTypeOK
<1>4. ~lib' /\ ~device0' /\ ~\E w \in Worker : worker'[w] # "idle"
  BY <1>1 DEF IInv, ProgramInv, LibraryIsHeld
<1>5. LibraryIsHeld'
  BY <1>1, <1>4 DEF LibraryIsHeld
<1>6. Phases' /\ ServerHasTurn' /\ HandlersHaveTurn' /\ Withdrawn'
  BY <1>1 DEF IInv, ProgramInv, Phases, ServerHasTurn, HandlersHaveTurn, Withdrawn,
              HandlerPhase, UpnpPhase
<1>7. AirInv'
  BY <1>1, AirMoves DEF IInv, AirInv, AirPlayTypeOK, PipelineGone, WindowGone, airplay
<1> QED BY <1>3, <1>5, <1>6, <1>7 DEF IInv, ProgramInv

\* The objects of main() are destroyed, with what waits for them.
LEMMA DestroyKeeps == ASSUME IInv, Destroy PROVE IInv'
<1>1. /\ \/ at = "~ProtocolManager" /\ at' = "~ReceiverWindow"
         \/ at = "~ReceiverWindow" /\ at' = "~MediaPipeline"
         \/ at = "~MediaPipeline" /\ at' = "~UpnpAdvertiser"
      /\ UNCHANGED <<raop, pk, turn, running, failed, soap>> /\ alive' \subseteq alive
  BY Steps DEF Destroy, airplay
<1>2. {"~ReceiverWindow", "~MediaPipeline", "~UpnpAdvertiser"} \subseteq {Order[i] : i \in DOMAIN Order}
  BY PlacesOfOrder
<1>3. failed' \in 0 .. MaxFailed /\ alive' \subseteq All /\ running' \subseteq {"discovery"}
  BY <1>1 DEF IInv, ProgramInv, ProgramTypeOK, HandlersHaveTurn, HandlerPhase, All
<1>4. ProgramInv'
  BY <1>1, <1>2, <1>3, ProgramMoves DEF IInv, HandlerPhase, UpnpPhase
<1>5. CASE UNCHANGED airplay
  BY <1>1, <1>4, <1>5, AirMoves DEF IInv, AirInv, AirPlayTypeOK, PipelineGone, WindowGone, airplay
<1>6. CASE at' = "~MediaPipeline" /\ posted' = <<>> /\ UNCHANGED <<raop, session, media, pk, hud, history>>
  <2>1. AirPlayTypeOK'
    BY <1>6, EmptySeq DEF IInv, AirInv, AirPlayTypeOK, session, media, history
  <2>2. Sessions' /\ Formats' /\ HudWillSettle'
    BY <1>1, <1>6 DEF IInv, AirInv, Sessions, Formats, HudWillSettle, Live, WindowGone, PipelineGone,
                      session, media, history
  <2> QED BY <1>4, <2>1, <2>2 DEF IInv, AirInv
<1>7. CASE /\ at' = "~UpnpAdvertiser" /\ appsrc' = FALSE /\ inFlight' = FALSE
           /\ UNCHANGED <<raop, session, capsSet, caps, pk, screen, history>>
  <2>1. AirPlayTypeOK'
    BY <1>7 DEF IInv, AirInv, AirPlayTypeOK, session, screen, history
  <2>2. Sessions' /\ Formats' /\ HudWillSettle'
    BY <1>1, <1>7 DEF IInv, AirInv, Sessions, Formats, HudWillSettle, Live, WindowGone, PipelineGone,
                      session, screen, history
  <2> QED BY <1>4, <2>1, <2>2 DEF IInv, AirInv
<1> QED BY <1>5, <1>6, <1>7, Steps DEF Destroy

\* Every reachable state satisfies the invariant.
THEOREM Invariance == Spec => []IInv
<1>1. IInv /\ [Next]_vars => IInv'
  <2> SUFFICES ASSUME IInv, [Next]_vars PROVE IInv'
    OBVIOUS
  <2>1. CASE UNCHANGED vars
    BY <2>1, ProgramKeeps, AirMoves DEF vars, IInv, AirInv, AirPlayTypeOK, airplay, program
  <2> QED BY <2>1, ThreadsKeep, WorkersKeep, StartDiscoveryKeeps, LoadKeeps, StartUpnpKeeps, StartHandlerKeeps,
             TurnsKeep, StopHandlerKeeps, StopDiscoveryKeeps, UnRegisterKeeps, StopUpnpKeeps, DestroyKeeps
             DEF Next, Main
<1> QED BY <1>1, InitOK, PTL DEF Spec

-----------------------------------------------------------------------------
(* What follows.                                                           *)

\* The type invariant.
THEOREM TypeCorrect == Spec => []TypeOK
<1>1. IInv => TypeOK
  BY DEF IInv, ProgramInv, ProgramTypeOK, AirInv, TypeOK
<1> QED BY <1>1, Invariance, PTL

\* Whatever failed at the start and whoever was connected, at exit nothing is left
\* running, advertised or on disk, and nobody in a call (main.cpp:318-321 and the
\* destructors).
THEOREM NothingIsLeft == Spec => []CleanExit
<1>1. IInv => CleanExit
  BY DEF IInv, ProgramInv, ServerHasTurn, LibraryIsHeld, Withdrawn, CleanExit, HandlerPhase, UpnpPhase
<1> QED BY <1>1, Invariance, PTL

\* Whoever can call into a handler, or is in one, finds it: the cookie that
\* upnpAdvertiser.start() hands out is a live handler until libupnp has finished
\* (main.cpp:211).
THEOREM HandlersAreFound == Spec => []CallersFindHandlers
<1>1. IInv => CallersFindHandlers
  BY DEF IInv, ProgramInv, Phases, ServerHasTurn, LibraryIsHeld, CallersFindHandlers, HandlerPhase, UpnpPhase, All
<1> QED BY <1>1, Invariance, PTL

\* When no AirPlay connection is left and nothing is queued, the HUD shows none.
THEOREM HudIsLeft == Spec => []HudSettles
<1>1. IInv => HudSettles
  BY DEF IInv, AirInv, HudWillSettle, HudSettles, Final, WindowGone, PipelineGone
<1> QED BY <1>1, Invariance, PTL

\* A session that has the appsrc to itself plays under the caps of its own codec.
THEOREM CapsFit == Spec => []AudioFitsSession
<1>1. IInv => AudioFitsSession
  BY DEF IInv, AirInv, Formats, AudioFitsSession
<1> QED BY <1>1, Invariance, PTL
=============================================================================
