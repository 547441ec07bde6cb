---------------------------- MODULE Advertisers ----------------------------
(***************************************************************************)
(* DiscoveryManager over the ServiceAdvertiser of the platform: Avahi on   *)
(* Linux, Bonjour on Windows and macOS.  (The built-in responder, used     *)
(* where neither runs, is module MdnsResponder.)  The main thread calls,   *)
(* a thread of the back end listens to the system's daemon, and a lock is  *)
(* between them.                                                           *)
(*                                                                         *)
(* The daemons are external.  Avahi's publishes a committed entry group,   *)
(* or finds its names taken, and sends its states in order; it may stop,   *)
(* and change its host name.  Bonjour's publishes at once, resolves        *)
(* conflicts itself, and may stop.  Ports, interfaces and all TXT records  *)
(* but the key that AirPlayHandler sets are left out.                      *)
(***************************************************************************)
EXTENDS Naturals, Sequences, SequencesExt

CONSTANTS
  ServiceTypes, \* service types, in the order DiscoveryManager advertises them
  Keyed,        \* those whose TXT record has the AirPlay key
  Prefixed,     \* the type whose name is "<MAC>@<ReceiverName>"
  MaxRenames,   \* bound: new receiver names
  MaxTaken,     \* bound: names found taken
  MaxOutages    \* bound: times the daemon stops or its host name is taken

ASSUME AdvertisersAssumption ==
  /\ ServiceTypes \in Seq(STRING)
  /\ Keyed \union {Prefixed} \subseteq {ServiceTypes[i] : i \in DOMAIN ServiceTypes}
  /\ {MaxRenames, MaxTaken, MaxOutages} \subseteq Nat

VARIABLES
  backend,    \* "avahi" or "bonjour"
  phase,      \* what the main thread does
  services,   \* m_services
  active,     \* m_activeName: a receiver name and the alternatives taken of it
  daemon,     \* "down", "running", or "registering" its host name
  published,  \* services the daemon has from AirShow
  happened,   \* what the user and the network did, against the bounds
  client,     \* Avahi client state as of the last signal handled, "freed" at the end
  group,      \* the entry group at the daemon: "none", "lost", or its state
  signals,    \* signals of the daemon that Avahi's thread has not handled
  polling,    \* Avahi's thread runs
  refs,       \* types with a Bonjour sdRef
  connection, \* Bonjour's shared connection: "open", "broken" or "freed"
  running,    \* m_running
  thread,     \* where processThread() is
  misused     \* history: a freed connection was used

manager    == <<backend, phase, services, active>>
avahi      == <<client, group, signals, polling>>
bonjour    == <<refs, connection, running, thread, misused>>
systemVars == <<manager, daemon, published, happened, avahi, bonjour>>

ServiceName == [of : 0 .. MaxRenames, alternative : 0 .. MaxTaken, mac : BOOLEAN]
ServiceRecord ==
  [type : {ServiceTypes[i] : i \in DOMAIN ServiceTypes}, name : ServiceName, key : BOOLEAN]

SystemTypeOK ==
  /\ backend \in {"avahi", "bonjour"}
  /\ phase \in {"advertising", "running", "stopping", "freeing", "joining", "stopped"}
  /\ services \in Seq(ServiceRecord) /\ Len(services) <= Len(ServiceTypes)
  /\ active \in ServiceName
  /\ daemon \in {"down", "running", "registering"}
  /\ published \subseteq ServiceRecord
  /\ happened \in [renames : 0 .. MaxRenames, taken : 0 .. MaxTaken, outages : 0 .. MaxOutages]
  /\ client \in {"running", "registering", "failure", "freed"}
  /\ group \in {"none", "lost", "uncommitted", "registering", "established", "collision"}
  /\ signals \in Seq({"RUNNING", "REGISTERING", "FAILURE", "ESTABLISHED", "COLLISION"})
  /\ {polling, running, misused} \subseteq BOOLEAN
  /\ refs \subseteq {ServiceTypes[i] : i \in DOMAIN ServiceTypes}
  /\ connection \in {"open", "broken", "freed"}
  /\ thread \in {"loop", "select", "process", "ended"}

\* ServiceAdvertiser::create() takes a system's advertiser that is available.
SystemInit ==
  /\ backend \in {"avahi", "bonjour"} /\ phase = "advertising"
  /\ services = <<>> /\ active = [of |-> 0, alternative |-> 0, mac |-> FALSE]
  /\ daemon \in IF backend = "avahi" THEN {"running", "registering"} ELSE {"running"}
  /\ published = {}
  /\ happened = [renames |-> 0, taken |-> 0, outages |-> 0]
  /\ client = daemon /\ group = "none" /\ signals = <<>>
  /\ polling = (backend = "avahi")
  /\ refs = {} /\ connection = "open" /\ misused = FALSE
  /\ running = (backend = "bonjour")
  /\ thread = IF backend = "bonjour" THEN "loop" ELSE "ended"

Happens(what, bound) ==
  happened[what] < bound /\ happened' = [happened EXCEPT ![what] = @ + 1]

Renamed(name) == [i \in DOMAIN services |-> [services[i] EXCEPT !.name = name]]

-----------------------------------------------------------------------------
(* Avahi: a call holds the lock of the thread that runs the callbacks.     *)

\* Mutant: a group that was committed is not reset: adding to it fails.
CreateServicesAdding(list) ==
  IF list = <<>> \/ daemon = "down" \/ group \notin {"none", "uncommitted"}
  THEN UNCHANGED <<group, published>>
  ELSE group' = "registering" /\ published' = ToSet(list)

\* createServices(): the group is made, or reset; every service is added, and
\* the group committed.  Without the daemon it made it at, every call fails.
CreateServices(list) ==
  IF list = <<>> \/ daemon = "down" \/ group = "lost"
  THEN UNCHANGED <<group, published>>
  ELSE group' = "registering" /\ published' = ToSet(list)

\* avahi_entry_group_reset(), if there is a group.
Reset ==
  IF group \in {"none", "lost"} THEN UNCHANGED <<group, published>>
  ELSE group' = "uncommitted" /\ published' = {}

\* advertise(), rename() and updateTxtRecord() end alike: a change that the
\* daemon cannot be told now is told by the RUNNING callback.
Republish(list, reset) ==
  IF client = "running" THEN CreateServices(list)
  ELSE IF reset THEN Reset ELSE UNCHANGED <<group, published>>

ClientCallback(signal) ==
  /\ signal \in {"RUNNING", "REGISTERING", "FAILURE"}
  /\ client' = CASE signal = "RUNNING" -> "running"
                 [] signal = "REGISTERING" -> "registering"
                 [] signal = "FAILURE" -> "failure"
  /\ \/ signal = "RUNNING" /\ CreateServices(services)
     \/ signal = "REGISTERING" /\ Reset
     \/ signal = "FAILURE" /\ UNCHANGED <<group, published>>
  /\ UNCHANGED <<services, active>>

\* Mutant: the services are renamed but not registered again.
GroupCallbackOnlyRenames(signal) ==
  /\ signal \in {"ESTABLISHED", "COLLISION"}
  /\ \/ signal = "ESTABLISHED" /\ UNCHANGED <<services, active, group, published>>
     \/ /\ signal = "COLLISION"
        /\ active' = [active EXCEPT !.alternative = @ + 1]
        /\ services' = Renamed(active') /\ Reset
  /\ UNCHANGED client

\* A collision gives all services one alternative name, prefix or not.
GroupCallback(signal) ==
  /\ signal \in {"ESTABLISHED", "COLLISION"}
  /\ \/ signal = "ESTABLISHED" /\ UNCHANGED <<services, active, group, published>>
     \/ /\ signal = "COLLISION"
        /\ active' = [active EXCEPT !.alternative = @ + 1]
        /\ services' = Renamed(active') /\ CreateServices(services')
  /\ UNCHANGED client

Dispatch ==
  /\ polling /\ signals # <<>> /\ signals' = Tail(signals)
  /\ ClientCallback(Head(signals)) \/ GroupCallback(Head(signals))
  /\ UNCHANGED <<backend, phase, daemon, happened, polling, bonjour>>

-----------------------------------------------------------------------------
(* Bonjour: calls and ProcessResult() hold m_mutex, but the thread's other *)
(* uses of the connection do not, and neither does the end of stop().      *)

\* registerService() of each of the types, on the shared connection.
Register(list, types) ==
  IF connection = "open"
  THEN /\ refs' = refs \union types
       /\ published' = {r \in ToSet(list) : r.type \in refs'}
  ELSE refs' = refs \ types /\ UNCHANGED published

\* DNSServiceUpdateRecord(), or the registration again if it fails.
Update(list, type) ==
  IF type \in refs THEN Register(list, {type}) ELSE UNCHANGED <<refs, published>>

\* The loop is entered again, or not; RefSockFD() takes the connection unlocked.
Loop ==
  /\ thread = "loop"
  /\ \/ running /\ connection # "freed" /\ thread' \in {"select", "ended"}
        /\ (thread' = "ended" => connection = "broken")
     \/ (~running \/ connection = "freed") /\ thread' = "ended"
  /\ UNCHANGED <<manager, daemon, published, happened, avahi, refs, connection, running, misused>>

\* select() returns after a second, or because there is something to read; the
\* file descriptor may be closed under it.
Select ==
  /\ thread = "select" /\ thread' \in {"loop", "process"}
  /\ UNCHANGED <<manager, daemon, published, happened, avahi, refs, connection, running, misused>>

\* ProcessResult(), by now maybe of a connection that is gone.
ProcessResult ==
  /\ thread = "process"
  /\ misused' = (misused \/ connection = "freed")
  /\ thread' \in IF connection = "open" THEN {"loop"} ELSE {"loop", "ended"}
  /\ UNCHANGED <<manager, daemon, published, happened, avahi, refs, connection, running>>

-----------------------------------------------------------------------------
(* The main thread: DiscoveryManager.                                      *)

\* The service is told to the back end of the platform.
Tell(list, reset, types) ==
  \/ /\ backend = "avahi" /\ Republish(list, reset)
     /\ UNCHANGED <<client, signals, polling, bonjour>>
  \/ /\ backend = "bonjour" /\ Register(list, types)
     /\ UNCHANGED <<avahi, connection, running, thread, misused>>

\* start() advertises one type after another.
Advertise ==
  /\ phase = "advertising" /\ Len(services) < Len(ServiceTypes)
  /\ LET t == ServiceTypes[Len(services) + 1]
         r == [type |-> t, key |-> FALSE,
               name |-> [of |-> 0, alternative |-> 0, mac |-> t = Prefixed]]
     IN services' = Append(services, r) /\ Tell(services', FALSE, {t})
  /\ phase' = IF Len(services') = Len(ServiceTypes) THEN "running" ELSE phase
  /\ UNCHANGED <<backend, active, daemon, happened>>

\* rename(), when the user changes the receiver's name.
Rename ==
  /\ phase = "running" /\ Happens("renames", MaxRenames)
  /\ active' = [of |-> happened'.renames, alternative |-> 0, mac |-> FALSE]
  /\ services' = Renamed(active')
  /\ Tell(services', TRUE, {services[i].type : i \in DOMAIN services})
  /\ UNCHANGED <<backend, phase, daemon>>

\* updateTxtRecord(), when AirPlayHandler has its key.
UpdateTxtRecord(t) ==
  /\ phase = "running"
  /\ services' = [i \in DOMAIN services |->
       IF services[i].type = t THEN [services[i] EXCEPT !.key = TRUE] ELSE services[i]]
  /\ services' # services
  /\ \/ /\ backend = "avahi" /\ Republish(services', TRUE)
        /\ UNCHANGED <<client, signals, polling, bonjour>>
     \/ /\ backend = "bonjour" /\ Update(services', t)
        /\ UNCHANGED <<avahi, connection, running, thread, misused>>
  /\ UNCHANGED <<backend, phase, active, daemon, happened>>

\* stop() of either: Avahi's thread is joined, Bonjour's is asked to end, ...
Stop ==
  /\ phase = "running" /\ phase' = "stopping"
  /\ running' = FALSE /\ polling' = FALSE
  /\ UNCHANGED <<backend, services, active, daemon, published, happened,
                 client, group, signals, refs, connection, thread, misused>>

\* ... group and client are freed, or the services deregistered under the lock, ...
Free ==
  /\ phase = "stopping"
  /\ published' = {}
  /\ \/ /\ backend = "avahi" /\ phase' = "stopped"
        /\ group' = "none" /\ client' = "freed" /\ UNCHANGED <<services, refs>>
     \/ /\ backend = "bonjour" /\ phase' = "freeing"
        /\ refs' = {} /\ services' = <<>> /\ UNCHANGED <<group, client>>
  /\ UNCHANGED <<backend, active, daemon, happened, signals, polling,
                 connection, running, thread, misused>>

\* ... the connection freed, and only then the thread joined.
Deallocate ==
  /\ phase = "freeing" /\ phase' = "joining" /\ connection' = "freed"
  /\ UNCHANGED <<backend, services, active, daemon, published, happened, avahi,
                 refs, running, thread, misused>>

\* Mutant: the thread is not waited for.
JoinAtOnce ==
  /\ phase = "joining" /\ phase' = "stopped"
  /\ UNCHANGED <<backend, services, active, daemon, published, happened, avahi, bonjour>>

Join ==
  /\ phase = "joining" /\ thread = "ended" /\ phase' = "stopped"
  /\ UNCHANGED <<backend, services, active, daemon, published, happened, avahi, bonjour>>

-----------------------------------------------------------------------------
(* The daemons.                                                            *)

\* The daemon's client gets no more signals once it failed.
Connected == client \notin {"failure", "freed"} /\ ~Contains(signals, "FAILURE")

Signal(signal) == signals' = Append(signals, signal)

Daemon ==
  /\ backend = "avahi" /\ Connected
  /\ UNCHANGED <<manager, client, polling, bonjour>>

\* The group's names are probed and are free, or another host has one.
Establish ==
  /\ Daemon /\ daemon = "running" /\ group = "registering"
  /\ group' = "established" /\ Signal("ESTABLISHED")
  /\ UNCHANGED <<daemon, published, happened>>

Collide ==
  /\ Daemon /\ daemon = "running" /\ group \in {"registering", "established"}
  /\ Happens("taken", MaxTaken)
  /\ group' = "collision" /\ published' = {} /\ Signal("COLLISION")
  /\ UNCHANGED daemon

\* Another host has the host name: the daemon takes a new one.
HostNameTaken ==
  /\ Daemon /\ daemon = "running" /\ Happens("outages", MaxOutages)
  /\ daemon' = "registering" /\ Signal("REGISTERING")
  /\ UNCHANGED <<published, group>>

HostNameRegistered ==
  /\ Daemon /\ daemon = "registering"
  /\ daemon' = "running" /\ Signal("RUNNING")
  /\ UNCHANGED <<published, happened, group>>

Outage ==
  /\ daemon # "down" /\ phase # "stopped" /\ Happens("outages", MaxOutages)
  /\ daemon' = "down" /\ published' = {}
  /\ \/ /\ backend = "avahi"
        /\ IF Connected THEN Signal("FAILURE") ELSE UNCHANGED signals
        /\ group' = IF group = "none" THEN group ELSE "lost"
        /\ UNCHANGED connection
     \/ /\ backend = "bonjour" /\ UNCHANGED <<signals, group>>
        /\ connection' = IF connection = "open" THEN "broken" ELSE connection
  /\ UNCHANGED <<manager, client, polling, refs, running, thread, misused>>

DaemonStarts ==
  /\ daemon = "down" /\ daemon' = "running"
  /\ UNCHANGED <<manager, published, happened, avahi, bonjour>>

SystemNext ==
  \/ Advertise \/ Rename \/ (\E t \in Keyed : UpdateTxtRecord(t))
  \/ Stop \/ Free \/ Deallocate \/ Join
  \/ Dispatch
  \/ Loop \/ Select \/ ProcessResult
  \/ Establish \/ Collide \/ HostNameTaken \/ HostNameRegistered \/ Outage \/ DaemonStarts

\* Threads run and the daemon finishes what it began.  Nobody must stop or rename.
SystemFairness ==
  /\ WF_systemVars(Advertise)
  /\ WF_systemVars(Free) /\ WF_systemVars(Deallocate) /\ WF_systemVars(Join)
  /\ WF_systemVars(Dispatch)
  /\ WF_systemVars(Loop) /\ WF_systemVars(Select) /\ WF_systemVars(ProcessResult)
  /\ WF_systemVars(Establish) /\ WF_systemVars(HostNameRegistered)

SystemSpec == SystemInit /\ [][SystemNext]_systemVars
SystemLiveSpec == SystemSpec /\ SystemFairness

-----------------------------------------------------------------------------
(* Properties.                                                             *)

\* The system's daemon answers for AirShow: it never stopped.
Served ==
  IF backend = "avahi" THEN group # "lost" /\ client # "failure" /\ daemon # "down"
                       ELSE connection = "open"

\* Whatever was advertised, renamed, given a key or found taken while the daemon
\* was registering or had not yet been heard: what it ends up publishing is what
\* AirShow holds, so that no stale name or key is answered for.
PublishedIsCurrent ==
  /\ phase \in {"advertising", "running"} /\ Served
  /\ backend = "avahi" => group = "established" /\ signals = <<>>
  => published = ToSet(services)

\* And it does end up publishing: no collision and no new host name leaves the
\* receiver unseen, as long as its daemon does not stop.
StaysVisible ==
  []<>(phase = "running" /\ Served =>
         /\ services # <<>> /\ published = ToSet(services)
         /\ backend = "avahi" => group = "established")

\* Whatever was under way when stop() was called, also a callback or a daemon
\* that stops: it returns, and from then on no thread of the advertiser runs, and
\* the daemon publishes nothing for a program that is gone.
StopCompletes ==
  /\ phase = "stopping" ~> phase = "stopped"
  /\ [](phase = "stopped" => published = {} /\ ~polling /\ thread = "ended")

(***************************************************************************)
(* Statements of the repository that the code does not keep.               *)
(***************************************************************************)

\* "Service name format for RAOP: "<MAC>@<ReceiverName>"" (DiscoveryManager.cpp:71)
RaopIsPrefixed == \A r \in published : r.type = Prefixed => r.name.mac

\* "All service registration mutations are protected by m_mutex"
\* (BonjourAdvertiser.h): the thread never uses the connection that stop() freed.
ConnectionOutlivesThread == ~misused

\* "Is avahi-daemon running? Start it with: sudo systemctl start avahi-daemon"
\* (AvahiAdvertiser.cpp:148): once it is back it publishes what AirShow holds.
ComesBack == []<>(phase = "running" /\ daemon = "running" => published = ToSet(services))
=============================================================================
