--------------------------- MODULE SenderSession ---------------------------
(***************************************************************************)
(* The AirShow sender on Android: SessionCubit in Dart, MainActivity and   *)
(* AirShowCaptureService on the main thread, a stream thread per START and *)
(* the encoder it starts.                                                  *)
(*                                                                         *)
(* External: the user, the receiver, and Android, which queues service     *)
(* commands, destroys a service that stopped itself behind the commands    *)
(* already queued, ignores stopSelf() of a destroyed one, makes a new one  *)
(* for the next command, and may recreate the activity (with a new Dart    *)
(* isolate; calls and events under way are lost) but leave the service.    *)
(* Android's RESULT_OK is a constant here: with its real value, -1, the    *)
(* service refuses every START (GrantedConsentStarts), and with any other  *)
(* the rest of the service can be checked.                                 *)
(*                                                                         *)
(* teardown() is one step, as is each numbered part of runPipeline(); the  *)
(* virtual display lives as long as its projection; a connection that      *)
(* breaks is a write that fails; frames, discovery and which receiver it   *)
(* is are left out.                                                        *)
(***************************************************************************)
EXTENDS Integers, Sequences

CONSTANTS
  ResultOk,     \* Activity.RESULT_OK
  MaxStarts,    \* bound: taps on a receiver
  MaxBreaks,    \* bound: presses of a Stop button, and times the activity is recreated
  MaxPosted     \* bound: events under way when an encoder fails again

ASSUME SenderAssumption ==
  /\ ResultOk \in Int
  /\ {MaxStarts, MaxBreaks, MaxPosted} \subseteq Nat

Thread == 1 .. MaxStarts             \* stream threads, by the START they serve
Service == 1 .. MaxStarts + MaxBreaks \* service instances, in order
None == 0                            \* no thread, a null field
Unconfigured == -1                   \* an encoder whose configure() failed

VARIABLES
  ui,        \* state of SessionCubit
  calls,     \* method calls and "listen" on their way to MainActivity
  toDart,    \* events and results on their way to Dart
  sink,      \* MainActivity.eventSink is set
  dialogs,   \* consent dialogs open
  host,      \* pendingHost is not empty
  commands,  \* commands Android has queued for the service
  up,        \* Android's view: the newest service is started
  service,   \* the newest service
  posted,    \* events posted to the main looper
  stream,    \* each stream thread: its service and the next part of runPipeline()
  field,     \* fields of each service, by the thread that set (or configured) them
  link,      \* connection of each thread
  encoding,  \* the connection each thread's encoder writes to
  user       \* what the user did, against the bounds

dart       == <<ui, calls, toDart>>
activity   == <<sink, dialogs, host>>
android    == <<commands, up, service>>
threads    == <<stream, field, link, encoding>>
senderVars == <<dart, activity, android, posted, threads, user>>

SenderTypeOK ==
  /\ ui \in {"Idle", "Connecting", "Mirroring", "Stopping"}
  /\ calls \in Seq({"listen", "startCapture", "stopCapture"})
  /\ toDart \in Seq({"CONNECTED", "DISCONNECTED", "ERROR", "stopped"})
  /\ {sink, host, up} \subseteq BOOLEAN
  /\ dialogs \in 0 .. MaxStarts
  /\ commands \in Seq([command : {"START", "STOP", "DESTROY"}, to : Service, host : BOOLEAN])
  /\ service \in Service \union {None}
  /\ posted \in Seq({"CONNECTED", "DISCONNECTED", "ERROR"})
  /\ stream \in [Thread -> [of : Service \union {None},
                            at : {"unborn", "prepare", "connect", "hello", "display",
                                  "encode", "audio", "done"}]]
  /\ field \in [Service -> [projection : Thread \union {None},
                            encoder : Thread \union {None, Unconfigured},
                            socket : Thread \union {None}, isRunning : BOOLEAN]]
  /\ link \in [Thread -> {"none", "open", "closed"}]
  /\ encoding \in [Thread -> Thread \union {None}]
  /\ user \in [starts : 0 .. MaxStarts, breaks : 0 .. MaxBreaks]

NoFields == [projection |-> None, encoder |-> None, socket |-> None, isRunning |-> FALSE]

SenderInit ==
  /\ ui = "Idle" /\ calls = <<"listen">> /\ toDart = <<>>
  /\ sink = FALSE /\ dialogs = 0 /\ host = FALSE
  /\ commands = <<>> /\ up = FALSE /\ service = None /\ posted = <<>>
  /\ stream = [t \in Thread |-> [of |-> None, at |-> "unborn"]]
  /\ field = [s \in Service |-> NoFields]
  /\ link = [t \in Thread |-> "none"]
  /\ encoding = [t \in Thread |-> None]
  /\ user = [starts |-> 0, breaks |-> 0]

-----------------------------------------------------------------------------
(* Android.                                                                *)

\* startService(): a service that is not up is made first.
StartService(command) ==
  LET s == IF up THEN service ELSE service + 1 IN
    /\ up' = TRUE /\ service' = s
    /\ commands' = Append(commands, [command |-> command, to |-> s, host |-> host])

\* stopSelf() of service s, with more commands queued by the same step before it.
StopSelf(s, queue) ==
  IF up /\ s = service
  THEN /\ up' = FALSE /\ UNCHANGED service
       /\ commands' = Append(queue, [command |-> "DESTROY", to |-> s, host |-> FALSE])
  ELSE commands' = queue /\ UNCHANGED <<up, service>>

\* postEvent(): an event goes nowhere without a sink.
PostEvent(event) ==
  posted' = IF sink THEN Append(posted, event) ELSE posted

-----------------------------------------------------------------------------
(* The user.                                                               *)

Counted(what, bound) ==
  user[what] < bound /\ user' = [user EXCEPT ![what] = @ + 1]

\* startMirroring(): the list is in reach whatever the state, by the back button.
StartMirroring ==
  /\ dialogs = 0 /\ Counted("starts", MaxStarts)
  /\ ui' = "Connecting" /\ calls' = Append(calls, "startCapture")
  /\ UNCHANGED <<toDart, activity, android, posted, threads>>

\* stopMirroring(), from the button that MirroringScreen has while mirroring.
StopMirroring ==
  /\ ui = "Mirroring" /\ dialogs = 0 /\ Counted("breaks", MaxBreaks)
  /\ ui' = "Stopping" /\ calls' = Append(calls, "stopCapture")
  /\ UNCHANGED <<toDart, activity, android, posted, threads>>

\* Stop on the notification that is there once a START was accepted.
StopOnNotification ==
  /\ up /\ \E t \in Thread : stream[t].of = service
  /\ Counted("breaks", MaxBreaks) /\ StartService("STOP")
  /\ UNCHANGED <<dart, activity, posted, threads>>

\* onActivityResult(): the consent dialog is answered.
Allow ==
  /\ dialogs > 0 /\ dialogs' = dialogs - 1
  /\ StartService("START")
  /\ UNCHANGED <<dart, sink, host, posted, threads, user>>

Deny ==
  /\ dialogs > 0 /\ dialogs' = dialogs - 1
  /\ toDart' = IF sink THEN Append(toDart, "ERROR") ELSE toDart
  /\ UNCHANGED <<ui, calls, sink, host, android, posted, threads, user>>

Recreate ==
  /\ Counted("breaks", MaxBreaks)
  /\ ui' = "Idle" /\ calls' = <<"listen">> /\ toDart' = <<>>
  /\ sink' = FALSE /\ host' = FALSE /\ posted' = <<>>
  /\ UNCHANGED <<dialogs, android, threads>>

-----------------------------------------------------------------------------
(* Dart.                                                                   *)

\* _onNativeEvent(), and the rest of stopMirroring() once its call returns.
UiAfter(message) ==
  IF message # "CONNECTED" THEN "Idle"
  ELSE IF ui = "Connecting" THEN "Mirroring" ELSE ui

OnNativeEvent ==
  /\ toDart # <<>> /\ toDart' = Tail(toDart)
  /\ ui' = UiAfter(Head(toDart))
  /\ UNCHANGED <<calls, activity, android, posted, threads, user>>

-----------------------------------------------------------------------------
(* The main thread.                                                        *)

\* The method channel's and the event channel's handlers.
OnMethodCall ==
  /\ calls # <<>> /\ calls' = Tail(calls)
  /\ \/ /\ Head(calls) = "listen" /\ sink' = TRUE
        /\ UNCHANGED <<toDart, dialogs, host, android>>
     \/ /\ Head(calls) = "startCapture"
        /\ host' = TRUE /\ dialogs' = dialogs + 1
        /\ UNCHANGED <<toDart, sink, android>>
     \/ /\ Head(calls) = "stopCapture"
        /\ StartService("STOP") /\ toDart' = Append(toDart, "stopped")
        /\ UNCHANGED activity
  /\ UNCHANGED <<ui, posted, threads, user>>

\* The main looper runs an event.
Deliver ==
  /\ posted # <<>> /\ posted' = Tail(posted)
  /\ toDart' = Append(toDart, Head(posted))
  /\ UNCHANGED <<ui, calls, activity, android, threads, user>>

Refused(c) == ResultOk = -1 \/ ~c.host

\* onStartCommand(); teardown() and DISCONNECTED in onDestroy().
OnStop(c) ==
  /\ c.command = "STOP" /\ StopSelf(c.to, Tail(commands))
  /\ UNCHANGED <<posted, threads>>

OnRefused(c) ==
  /\ c.command = "START" /\ Refused(c)
  /\ PostEvent("ERROR") /\ StopSelf(c.to, Tail(commands))
  /\ UNCHANGED threads

OnStart(c) ==
  /\ c.command = "START" /\ ~Refused(c)
  /\ \E t \in Thread :
       /\ stream[t].at = "unborn" /\ \A u \in Thread : u < t => stream[u].at # "unborn"
       /\ stream' = [stream EXCEPT ![t] = [of |-> c.to, at |-> "prepare"]]
  /\ commands' = Tail(commands)
  /\ UNCHANGED <<up, service, posted, field, link, encoding>>

Teardown(s) ==
  LET f == field[s] IN
    /\ field' = [field EXCEPT ![s] = NoFields]
    /\ encoding' = [t \in Thread |-> IF t = f.encoder THEN None ELSE encoding[t]]
    /\ link' = [t \in Thread |-> IF t = f.socket THEN "closed" ELSE link[t]]
    /\ UNCHANGED stream

\* Mutant: a service that is destroyed tells nobody.
OnDestroySilently(c) ==
  /\ c.command = "DESTROY" /\ Teardown(c.to)
  /\ commands' = Tail(commands) /\ UNCHANGED <<up, service, posted>>

OnDestroy(c) ==
  /\ c.command = "DESTROY" /\ Teardown(c.to) /\ PostEvent("DISCONNECTED")
  /\ commands' = Tail(commands) /\ UNCHANGED <<up, service>>

ServiceCommand ==
  /\ commands # <<>>
  /\ LET c == Head(commands) IN OnStop(c) \/ OnRefused(c) \/ OnStart(c) \/ OnDestroy(c)
  /\ UNCHANGED <<dart, activity, user>>

-----------------------------------------------------------------------------
(* Stream threads: runPipeline().                                          *)

Goes(t, from, to) == stream[t].at = from /\ stream' = [stream EXCEPT ![t].at = to]

\* An exception is posted, and the service told to stop.
Raises(t, from) ==
  /\ Goes(t, from, "done")
  /\ PostEvent("ERROR") /\ StopSelf(stream[t].of, commands)
  /\ UNCHANGED <<dart, activity, link, encoding, user>>

Fails(t, from) == Raises(t, from) /\ UNCHANGED field

Untouched == UNCHANGED <<dart, activity, android, user>>

\* Parts 1 to 3: projection and encoder are had, or an exception leaves what was
\* set before it.
Prepare(t) ==
  LET s == stream[t].of IN
  \/ /\ Goes(t, "prepare", "connect")
     /\ field' = [field EXCEPT ![s].projection = t, ![s].encoder = t]
     /\ UNCHANGED <<posted, link, encoding>> /\ Untouched
  \/ /\ Raises(t, "prepare")
     /\ \/ UNCHANGED field
        \/ field' = [field EXCEPT ![s].projection = t]
        \/ field' = [field EXCEPT ![s].projection = t, ![s].encoder = Unconfigured]

OpenSocket(t) ==
  \/ /\ Goes(t, "connect", "hello")
     /\ field' = [field EXCEPT ![stream[t].of].socket = t]
     /\ link' = [link EXCEPT ![t] = "open"]
     /\ UNCHANGED <<posted, encoding>> /\ Untouched
  \/ Fails(t, "connect")

\* HELLO is answered.
HelloAck(t) ==
  /\ link[t] = "open" /\ Goes(t, "hello", "display")
  /\ PostEvent("CONNECTED")
  /\ UNCHANGED <<field, link, encoding>> /\ Untouched

\* Mutant: the wait for HELLO_ACK has no timeout.
NoHelloAckUntimed(t) == link[t] # "open" /\ Fails(t, "hello")

\* It is not, in ten seconds, or not with an ACK, or the connection is gone.
NoHelloAck(t) == Fails(t, "hello")

\* isRunning is set; mediaProjection!! throws once teardown() was here, and Android
\* may refuse the display.
CreateVirtualDisplay(t) ==
  /\ stream[t].at = "display"
  /\ field' = [field EXCEPT ![stream[t].of].isRunning = TRUE]
  /\ \/ /\ field[stream[t].of].projection # None
        /\ Goes(t, "display", "encode")
        /\ UNCHANGED <<posted, link, encoding>> /\ Untouched
     \/ Raises(t, "display")

\* The encoder in the field, maybe another thread's, writes to this connection; one
\* that was started already, or never configured, throws, and so may any.
StartEncoder(t) ==
  \/ /\ Goes(t, "encode", "audio")
     /\ LET e == field[stream[t].of].encoder IN
          /\ e \in Thread /\ encoding[e] = None
          /\ encoding' = [encoding EXCEPT ![e] = t]
     /\ UNCHANGED <<posted, field, link>> /\ Untouched
  \/ Fails(t, "encode")

\* Without a projection there is no audio; a failure is an event.
StartAudioCapture(t) ==
  /\ Goes(t, "audio", "done")
  /\ \/ UNCHANGED posted
     \/ field[stream[t].of].projection # None /\ PostEvent("ERROR")
  /\ UNCHANGED <<field, link, encoding>> /\ Untouched

-----------------------------------------------------------------------------
(* The encoder's thread.                                                   *)

\* A write or the codec fails: onError(), if the service runs.
EncoderError(e) ==
  /\ encoding[e] # None /\ Len(posted) + Len(toDart) < MaxPosted
  /\ LET s == stream[encoding[e]].of IN
       field[s].isRunning /\ PostEvent("ERROR") /\ StopSelf(s, commands)
  /\ UNCHANGED <<dart, activity, threads, user>>

Pipeline(t) ==
  \/ Prepare(t) \/ OpenSocket(t) \/ NoHelloAck(t) \/ CreateVirtualDisplay(t)
  \/ StartEncoder(t) \/ StartAudioCapture(t)

SenderNext ==
  \/ StartMirroring \/ StopMirroring \/ StopOnNotification \/ Allow \/ Deny \/ Recreate
  \/ OnNativeEvent
  \/ OnMethodCall \/ Deliver \/ ServiceCommand
  \/ \E t \in Thread :
       Pipeline(t) \/ HelloAck(t) \/ EncoderError(t)

\* The loopers and the stream threads run, waits have timeouts.  The user, the
\* receiver and the encoder owe nothing.
SenderFairness ==
  /\ WF_senderVars(OnNativeEvent) /\ WF_senderVars(OnMethodCall)
  /\ WF_senderVars(Deliver) /\ WF_senderVars(ServiceCommand)
  /\ \A t \in Thread : WF_senderVars(Pipeline(t))

SenderSpec == SenderInit /\ [][SenderNext]_senderVars
SenderLiveSpec == SenderSpec /\ SenderFairness

-----------------------------------------------------------------------------
(* Properties.                                                             *)

\* A stream thread is at work, or its encoder is.
Busy(t) == stream[t].at \notin {"unborn", "done"} \/ encoding[t] # None

\* Nothing is on its way that could still change what the user sees.
Quiet == calls = <<>> /\ toDart = <<>> /\ posted = <<>> /\ commands = <<>> /\ dialogs = 0
Settled == Quiet /\ ~up /\ \A t \in Thread : ~Busy(t)

\* Whichever of its threads ended a session, in whatever order its events came,
\* also behind the next tap: when nothing is left of it the app shows Idle, so
\* that the user is not held on a screen that never ends.
UiReturnsToIdle == Settled => ui = "Idle"

\* The screens with a spinner have no button: whatever the receiver does, they
\* end, or the consent dialog waits for the user.
ConnectingEnds == []<>(ui \notin {"Connecting", "Stopping"} \/ dialogs > 0)

(***************************************************************************)
(* Statements of the repository that the code does not keep.               *)
(***************************************************************************)

\* "Started by MainActivity with resultCode + data extras from MediaProjection
\* consent" (AirShowCaptureService.kt:40): a START with a host starts a stream.
GrantedConsentStarts ==
  [][ServiceCommand /\ Head(commands).command = "START" /\ Head(commands).host
     => \E t \in Thread : stream[t].at = "unborn" /\ stream'[t].at # "unborn"]_senderVars

\* "Audio capture is best-effort; log but don't fail the whole pipeline"
\* (AirShowCaptureService.kt:251): the app does not show Idle while it streams.
StreamingIsShown ==
  Quiet /\ up /\ (\E t \in Thread : encoding[t] # None /\ link[encoding[t]] = "open")
    => ui # "Idle"

\* "Stopped by intent with action="STOP" or by MainActivity's stopCapture call"
\* (AirShowCaptureService.kt:41): its connection goes with the service.
StoppedIsReleased == Settled => \A t \in Thread : link[t] # "open"
=============================================================================
