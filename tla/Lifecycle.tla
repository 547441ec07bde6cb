----------------------------- MODULE Lifecycle -----------------------------
(***************************************************************************)
(* main(): the receiver from start to exit, with UpnpAdvertiser and its    *)
(* libupnp threads, ProtocolManager with its handlers, and AirPlay as the  *)
(* handler whose threads live longest.  The main thread does one thing     *)
(* after another; each start may fail, and all but the window's is only    *)
(* warned about.  Sessions run before, during and after the event loop.    *)
(*                                                                         *)
(* libupnp is external: it calls the registered handler on its own threads *)
(* until the device is unregistered, and UpnpFinish() waits for them.      *)
(***************************************************************************)
EXTENDS AirPlay

CONSTANTS
  Handlers,  \* names of the handlers, in the order they were added
  Worker,    \* libupnp threads
  MaxFailed  \* bound: starts that fail

ASSUME LifecycleAssumption ==
  /\ Handlers \in Seq(STRING)
  /\ \A i, j \in DOMAIN Handlers : Handlers[i] = Handlers[j] => i = j
  /\ MaxFailed \in Nat

VARIABLES
  at,        \* what main() does next
  turn,      \* the handler that startAll() or stopAll() has come to
  running,   \* what runs, AirPlay apart
  alive,     \* objects of main() that other threads use
  lib,       \* libupnp is initialised
  device0,   \* the root device is registered, with the DLNA handler as cookie
  files,     \* files in libupnp's web root
  upnp,      \* UpnpAdvertiser::m_running
  worker,    \* where each libupnp thread is
  failed     \* starts that failed

program == <<at, turn, running, alive, failed>>
soap    == <<lib, device0, files, upnp, worker>>
vars    == <<airplay, program, soap>>

\* Mutant: the advertiser is left to its destructor.
OrderByDestructors ==
  <<"discovery", "load", "upnp", "startAll", "exec", "stopAll",
    "stopDiscovery", "~ProtocolManager", "~ReceiverWindow", "~MediaPipeline",
    "~UpnpAdvertiser", "~DiscoveryManager", "exited">>
\* main(), then the destructors of its objects, last made first.
Order ==
  <<"discovery", "load", "upnp", "startAll", "exec", "stopAll",
    "stopDiscovery", "stopUpnp", "~ProtocolManager", "~ReceiverWindow", "~MediaPipeline",
    "~UpnpAdvertiser", "~DiscoveryManager", "exited">>

TypeOK ==
  /\ AirPlayTypeOK
  /\ at \in {Order[i] : i \in DOMAIN Order}
  /\ turn \in 1 .. Len(Handlers) + 1
  /\ running \subseteq {Handlers[i] : i \in DOMAIN Handlers} \union {"discovery"}
  /\ alive \subseteq {"handlers", "window", "pipeline"}
  /\ {lib, device0, upnp} \subseteq BOOLEAN
  /\ files \subseteq {"description", "scpd"}
  /\ worker \in [Worker -> {"idle", "asking", "acting"}]
  /\ failed \in 0 .. MaxFailed

Init ==
  /\ AirPlayInit
  /\ at = "discovery" /\ turn = 1 /\ running = {} /\ alive = {"pipeline"}
  /\ failed = 0
  /\ lib = FALSE /\ device0 = FALSE /\ files = {} /\ upnp = FALSE
  /\ worker = [w \in Worker |-> "idle"]

Then(step) ==
  /\ at = step
  /\ at' = Order[(CHOOSE i \in DOMAIN Order : Order[i] = step) + 1]

Asleep == UNCHANGED <<raop, session, media, screen, history>>
Works == UNCHANGED failed
Fails == failed < MaxFailed /\ failed' = failed + 1

-----------------------------------------------------------------------------
(* Start.                                                                  *)

\* Every service is advertised, with a placeholder for the AirPlay key.
StartDiscovery ==
  /\ Then("discovery")
  /\ \/ Works /\ running' = running \union {"discovery"} /\ pk' = "placeholder"
     \/ Fails /\ UNCHANGED <<running, pk>>
  /\ Asleep /\ UNCHANGED <<turn, alive, soap>>

\* Without a window main() returns; what follows is constructed otherwise.
Load ==
  /\ at = "load"
  /\ \/ Works /\ Then("load") /\ alive' = alive \union {"window", "handlers"}
     \/ Fails /\ at' = "~ReceiverWindow" /\ alive' = alive \union {"window"}
  /\ UNCHANGED <<airplay, turn, running, soap>>

\* Mutant: the web root is refused and libupnp is left running.
UpnpFailedOpen(stage) == lib' = (stage # "UpnpInit2")
\* A start that fails after UpnpInit2() finishes the library, and leaves files.
UpnpFailed(stage) == lib' = FALSE

StartUpnp ==
  /\ Then("upnp")
  /\ \/ /\ Works
        /\ lib' = TRUE /\ device0' = TRUE /\ upnp' = TRUE
        /\ files' = {"description", "scpd"}
     \/ Fails /\ \E stage \in {"UpnpInit2", "writeRuntimeXml", "UpnpSetWebServerRootDir",
                      "UpnpGetServerIpAddress", "UpnpRegisterRootDevice"} :
          /\ UpnpFailed(stage)
          /\ files' = IF stage \in {"UpnpInit2", "writeRuntimeXml"} THEN {}
                      ELSE {"description", "scpd"}
          /\ UNCHANGED <<device0, upnp>>
  /\ UNCHANGED <<airplay, turn, running, alive, worker>>

\* ProtocolManager goes through its handlers; a failure does not stop it.
StartHandler ==
  /\ at = "startAll" /\ turn \in DOMAIN Handlers
  /\ turn' = turn + 1
  /\ \/ /\ Handlers[turn] = "AirPlay" /\ UNCHANGED running
        /\ Start
        /\ IF raop' = "serving" /\ pk' # "placeholder" THEN Works ELSE Fails
     \/ /\ Handlers[turn] # "AirPlay" /\ UNCHANGED airplay
        /\ Works /\ running' = running \union {Handlers[turn]}
     \/ /\ Handlers[turn] \notin {"AirPlay", "DLNA"} /\ UNCHANGED airplay
        /\ Fails /\ UNCHANGED running
  /\ UNCHANGED <<at, alive, soap>>

Started ==
  /\ turn = Len(Handlers) + 1 /\ Then("startAll") /\ turn' = 1
  /\ UNCHANGED <<airplay, running, alive, failed, soap>>

-----------------------------------------------------------------------------
(* The event loop.                                                         *)

Event ==
  /\ at = "exec"
  /\ SetConnected \/ SceneGraphInitialized \/ OtherSetsCaps \/ Answered
  /\ UNCHANGED <<program, soap>>

Quit == Then("exec") /\ UNCHANGED <<airplay, turn, running, alive, failed, soap>>

-----------------------------------------------------------------------------
(* Other threads.                                                          *)

AirPlayThreads ==
  /\ \/ \E c \in Conn : Raop(c) \/ OnVideoFrame(c)
     \/ TimedOut
     \/ OnNewVideoSample
  /\ UNCHANGED <<program, soap>>

Moves(w, to) ==
  /\ worker' = [worker EXCEPT ![w] = to]
  /\ UNCHANGED <<airplay, program, lib, device0, files, upnp>>

\* handleSoapAction(): m_running is not asked for, checkConnection() is.
HandleSoapAction(w) ==
  /\ device0 /\ worker[w] = "idle"
  /\ \E to \in {"asking", "acting"} : Moves(w, to)

\* The user presses a button, or checkConnection() times out.
SoapAnswered(w) ==
  /\ at = "exec" /\ worker[w] = "asking"
  /\ \E to \in {"acting", "idle"} : Moves(w, to)

SoapTimedOut(w) == worker[w] = "asking" /\ Moves(w, "idle")

SoapDone(w) == worker[w] = "acting" /\ Moves(w, "idle")

-----------------------------------------------------------------------------
(* Stop.                                                                   *)

\* stopAll() stops the handlers that run, and waits for AirPlay's thread.
StopHandler ==
  /\ at = "stopAll" /\ turn \in DOMAIN Handlers
  /\ \/ /\ Handlers[turn] = "AirPlay" /\ StopHttpd /\ UNCHANGED <<turn, running>>
     \/ /\ Handlers[turn] = "AirPlay" /\ Destroyed
        /\ turn' = turn + 1 /\ UNCHANGED running
     \/ /\ Handlers[turn] = "AirPlay" => raop = "none"
        /\ turn' = turn + 1 /\ running' = running \ {Handlers[turn]}
        /\ UNCHANGED airplay
  /\ UNCHANGED <<at, alive, failed, soap>>

Stopped ==
  /\ turn = Len(Handlers) + 1 /\ Then("stopAll") /\ turn' = 1
  /\ UNCHANGED <<airplay, running, alive, failed, soap>>

\* DiscoveryManager::stop(), called, and again by the destructor.
StopDiscovery ==
  /\ Then("stopDiscovery") \/ Then("~DiscoveryManager")
  /\ running' = running \ {"discovery"} /\ pk' = "none"
  /\ Asleep /\ UNCHANGED <<turn, alive, failed, soap>>

\* UpnpAdvertiser::stop(), likewise.  UpnpUnRegisterRootDevice() ends the
\* calls, UpnpFinish() waits for those that are under way.
UnRegister ==
  /\ at \in {"stopUpnp", "~UpnpAdvertiser"} /\ upnp /\ device0
  /\ device0' = FALSE
  /\ UNCHANGED <<airplay, program, lib, files, upnp, worker>>

StopUpnp ==
  /\ Then("stopUpnp") \/ Then("~UpnpAdvertiser")
  /\ upnp => ~device0 /\ \A w \in Worker : worker[w] = "idle"
  /\ lib' = (lib /\ ~upnp) /\ upnp' = FALSE /\ files' = {}
  /\ UNCHANGED <<airplay, turn, running, alive, failed, device0, worker>>

\* Queued lambdas go with the ConnectionBridge they were posted to, frames
\* with the pipeline.
Destroy ==
  \/ /\ Then("~ProtocolManager") /\ alive' = alive \ {"handlers"}
     /\ UNCHANGED <<airplay, turn, running, failed, soap>>
  \/ /\ Then("~ReceiverWindow") /\ alive' = alive \ {"window"}
     /\ posted' = <<>>
     /\ UNCHANGED <<raop, session, media, pk, hud, history, turn, running, failed, soap>>
  \/ /\ Then("~MediaPipeline") /\ alive' = alive \ {"pipeline"}
     /\ appsrc' = FALSE /\ inFlight' = FALSE
     /\ UNCHANGED <<raop, session, capsSet, caps, pk, screen, history, turn, running, failed, soap>>

Main ==
  \/ StartDiscovery \/ Load \/ StartUpnp \/ StartHandler \/ Started
  \/ StopHandler \/ Stopped \/ StopDiscovery \/ UnRegister \/ StopUpnp
  \/ Destroy

Next ==
  \/ Main
  \/ Event
  \/ Quit
  \/ AirPlayThreads
  \/ \E w \in Worker :
       HandleSoapAction(w) \/ SoapAnswered(w) \/ SoapTimedOut(w) \/ SoapDone(w)

\* Threads run on, timeouts fire, and a server that is told to stop ends its
\* connections.  The event loop need not run again, the user need not answer.
Fairness ==
  /\ WF_vars(Main)
  /\ WF_vars(TimedOut /\ UNCHANGED <<program, soap>>)
  /\ \A c \in Conn :
       WF_vars(raop = "stopping" /\ (OnConnectionInit(c) \/ OnConnectionDestroy(c))
               /\ UNCHANGED <<program, soap>>)
  /\ \A w \in Worker : WF_vars(SoapTimedOut(w)) /\ WF_vars(SoapDone(w))

Spec == Init /\ [][Next]_vars
LiveSpec == Spec /\ Fairness

-----------------------------------------------------------------------------
(* Properties.                                                             *)

\* However the connections came and went, and although every HUD update runs
\* later than the callback that wanted it: when no AirPlay connection is left and
\* nothing is queued, the HUD shows none.
HudSettles == at = "exec" /\ Live = {} /\ posted = <<>> => hud = Off

\* The caps of a session outlive it on the shared appsrc, and a session asks for
\* its own only once: audio of a session that nobody else's came between still
\* plays under its own codec.
AudioFitsSession ==
  \A c \in formatted \ mixed :
    conn[c] = "admitted" /\ caps # "none" => caps = CodecOf[c]

\* "must be created before upnpAdvertiser.start() so the SOAP callback cookie
\* points to a live handler" (main.cpp:211): whoever can call into a handler, or
\* is in one, finds it and the bridge it posts to.
CallersFindHandlers ==
  device0 \/ raop # "none" \/ (\E w \in Worker : worker[w] # "idle")
    => {"handlers", "window", "pipeline"} \subseteq alive

\* Whatever failed at the start, at exit nothing is left running, advertised or
\* on disk, and no thread of libupnp is in a call.
CleanExit ==
  at = "exited" =>
    /\ raop = "none" /\ pk = "none" /\ running = {}
    /\ ~lib /\ ~device0 /\ files = {}
    /\ \A w \in Worker : worker[w] = "idle"

\* Once told to quit the program exits, also when a thread it waits for is
\* blocked on an approval that nobody can answer any more.
ShutdownCompletes == at = "stopAll" ~> at = "exited"

(***************************************************************************)
(* Statements of the repository that the code does not keep.               *)
(***************************************************************************)

\* "VideoFrameSink::pushFrame() is thread-safe" (ReceiverWindow.cpp:67): the
\* pipeline still plays when the window that holds the sink is destroyed.
SinkAlive == inFlight => "window" \in alive

\* "Application shows connection status (waiting/connected/device name/protocol)"
\* (.planning/REQUIREMENTS.md:45): the device is one that streams.
HudNamesDevice ==
  at = "exec" /\ posted = <<>> /\ hud # Off => hud \in Live
=============================================================================
