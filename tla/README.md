# AirShow: a TLA+ verification project

AirShow turns a computer into a wireless display. It is a Qt/GStreamer program
that accepts AirPlay, Google Cast, DLNA, Miracast (MS-MICE) and its own AirShow
protocol, advertises itself on the local network, asks the user before a new
device may connect, and plays one thing at a time. A Flutter/Android companion
app sends the AirShow protocol.

This directory holds TLA+ models of that code, the TLC instances that check
them, and TLAPS proofs. Every definition is translated from the source; the
table `map` of `PROJECT.json` names the lines. Where the repository says one
thing and the code does another, section 3 has the statement and how to see it
fail.

Run a check with `tlc -config X.cfg M.tla`, a proof with `tlapm M.tla`.

## 1. Inventory

### Threads and what they share

- The **Qt thread** runs one event at a time: socket events, timers, QML, and
  lambdas that other threads post (`QMetaObject::invokeMethod`,
  `Qt::QueuedConnection`). Cast, Miracast, AirShow, the dialog and the HUD live
  there. Its hazards are orders of events, not data races: what is posted takes
  effect later, after whatever else was served.
- **UxPlay's threads** (AirPlay) and **libupnp's pool** (DLNA) call into the
  handlers at any time, block in `checkConnection()` and post to the Qt thread.
- The **mDNS responder** has a thread of its own with sockets and timers.
- **GStreamer's threads** deliver frames.

Three objects are shared by all protocols: `SecurityManager` with its one
approval dialog, `ConnectionBridge` (the HUD, last writer wins), and
`MediaPipeline` with its five pipelines.

### Components

| component | state | operations | hard behaviour | correct when |
| --- | --- | --- | --- | --- |
| `SecurityManager` | pending requests, callbacks, settings, trusted list | `checkConnection`, `checkConnectionAsync`, `resolveApproval` | blocked threads against clicks, timeouts and settings | nobody enters without cause; the verdict read is the button pressed; every thread returns |
| approval slot, dialog | one pending request | show, clear, Allow, Deny | several prompts, one slot | the prompt on screen can be answered; none is wiped |
| `CastHandler`, `CastSession` | sessions, launch, HUD and stream flags, held messages | connect, CASTV2 messages, approval, disconnect | posted events against destruction; shared pipeline | messages take effect in order, after consent; nothing outlives its session |
| `CastStreamingReceiver` | chunks, checkpoint, newest frame, feedback | RTP packet, 10 ms tick, RTCP | loss, duplication, reordering, 8-bit IDs | frames whole, in order, no hole for ever |
| `MiracastHandler` | one `m_state`, two connections | MICE messages, approval, RTSP M1..M7, hang-ups | callbacks that read members set by others | negotiation belongs to one peer; HUD follows the stream |
| `DlnaHandler` | transport state, URI | SOAP actions, posted lambdas | pool threads; record and pipeline changed apart | what the controller reads is what plays |
| `AirShowHandler` | client, buffer, state | connection, bytes, disconnect | byte stream cut anywhere; replacement | frames whole; one client; HUD |
| `AirPlayHandler` | cached appsrcs, caps flag, device name | UxPlay callbacks, start, stop | several connections, several threads, posted HUD updates | the HUD goes off with the last session, sound plays under its codec |
| `MdnsResponder` | host name, services, probes, repeats, answers | probe, conflict, announce, rename, update, answer, goodbye | timers and delayed answers against changes | only verified names are said, and they are current |
| Avahi, Bonjour, UPnP advertisers, `DiscoveryManager` | service list | start, rename, update, stop | callback threads and a daemon that collides, restarts and dies, against stop | what is published is what AirShow holds |
| `MediaPipeline` | five pipelines | init, play, stop, caps, mute | used by handlers that do not know of each other | what is shown as playing plays |
| `ProtocolManager`, `main` | handlers | start all, stop all | shutdown order | nothing runs against a stopped part |
| sender: `SessionCubit`, capture service | UI state; projection, encoder, socket | start, stop, events | three threads; late events; a recreated activity | the app comes back to Idle, no screen waits for ever |
| `CastHandler` certificates | certificate, its window | refresh before a handshake, answer a challenge | the clock passes a window between the two | signature and certificate belong together |
| codecs: `DnsMessage`, `CastStreamingOffer` | none | parse, serialize, select | pointers, lengths and counts that lie | reads stay in the packet and end |
| `AppSettings`, web interface, firewall, QML wiring | none of interest | accessors, I/O | - | - |

Calls between them: the handlers call `SecurityManager` before a session starts
(all but `AirShowHandler`, which stores its `m_security` and never asks it), post
`setConnected()` to `ConnectionBridge`, and drive `MediaPipeline`.
`UpnpAdvertiser` hands SOAP actions to `DlnaHandler`; `AirPlayHandler` updates
the TXT records of the advertiser. `PROJECT.json` lists each component with its
status and each hazard with its line and the properties that cover it.

## 2. Modules

| module | models | composed of |
| --- | --- | --- |
| `ApprovalGate` | what approval promises (abstract) | - |
| `Approval` | `SecurityManager`, slot, dialog, settings | implements `ApprovalGate` |
| `ApprovalProofs` | proofs about `Approval` | |
| `FrameStream` | what a Cast stream promises its decoder (abstract) | - |
| `CastReceiver` | one Cast stream and its sender over UDP | receiver and sender; implements `FrameStream` |
| `CastReceiverProofs` | proofs about `CastReceiver` | |
| `CastSessions` | Cast control channel, HUD, Cast pipeline | sessions sharing HUD, pipeline, event queue |
| `CastSessionsProofs` | proofs about `CastSessions` and `CastAuth` | |
| `Miracast` | MICE and RTSP connections of `MiracastHandler` | handler, HUD, pipeline, prompt |
| `MiracastProofs` | proofs about `Miracast` | |
| `DlnaTransport` | AVTransport actions and the URI pipeline | pool threads, event queue, Cast LOAD |
| `DlnaProofs` | proofs about `DlnaTransport` | |
| `MdnsResponder` | the responder core and what the network heard | |
| `MdnsProofs` | proofs about `MdnsResponder`, `DnsReader` and `Advertisers` | |
| `AirShowSession` | `AirShowHandler` with clients and other protocols | handler, HUD, appsrc pipeline |
| `AirShowProofs` | proofs about `AirShowSession` and `SenderSession` | |
| `AirPlay` | `AirPlayHandler` under UxPlay's threads | used by `Lifecycle` |
| `Lifecycle` | `main`, `ProtocolManager`, `UpnpAdvertiser`, window | extends `AirPlay` |
| `LifecycleProofs` | proofs about `Lifecycle` and `AirPlay` | |
| `SenderSession` | Dart cubit, activity, Android capture service | UI, main thread, stream and encoder threads |
| `Advertisers` | `DiscoveryManager` over Avahi or Bonjour | main thread, poll or worker thread, daemon |
| `CastAuth` | certificates and signatures of Cast device authentication | |
| `DnsReader` | `parse()` of DNS packets | |

An `MC...` module only gives values to constants and, where no liveness is checked
with it, a symmetry set. Its cfg must pass. Each module has one run for all its
properties (`CastReceiver` two); `AirPlay` is checked in `Lifecycle`, `CastAuth`
and `DnsReader` have no run and are proved, and their cfgs are small instances to
look at. The one run that finds a violation is `sender_consent`; section 3 lists
the other statements the code does not keep. The definitions marked *Mutant* are
plausible bugs: each replaces one definition of the code, and the property named
for it in `PROJECT.json` then fails. They are not part of the specifications.
Every module of a component has a type invariant (`TypeOK`, `SenderTypeOK`,
`SystemTypeOK`), which a cfg can be given as an invariant. The runs leave it out:
it is proved for each.

Some proof modules are about several components. `SenderSession` and `Advertisers`
are extended next to another component, so their definitions carry the prefixes
`Sender` and `System` where names would clash (`SenderSpec`, `SystemNext`). `CastAuth`
and `DnsReader` are named instances, `Auth` and `Reader`. No theorem relates one of
two such components to the other.

`CHECK_DEADLOCK FALSE` is used where the system may stop: bounded senders and
clients run out of things to do, a responder or server is shut down.

### Approval

`checkConnection()` (AirPlay, DLNA) blocks a protocol thread on a semaphore for
15 s; `checkConnectionAsync()` (Cast, Miracast) keeps a callback. A request is one
call. `pc` says where its caller is, `posted` is the Qt queue of prompts to
show, `pendingRequests` and `asyncCallbacks` are the two tables, and
`resolveApproval()` is split at each write another thread can see: flag, trusted
list, semaphore, dialog. The user may toggle the settings at any time. Filters
by address and PINs are left out.

*Checked* (`approval`): three blocked threads (two of one device, one
without an identifier) and one asynchronous caller, so that two prompts compete
for the slot, two threads of a device race with a trust decision, and an
unidentified device is never remembered. More callers repeat these cases.
`ImplementsGate` shows that the design implements `ApprovalGate` under the
mapping `Outcome`, `WaitersReturn` that blocked threads return although nobody
clicks. `TrustedByUser` and `PromptOnlyReplacedOrAnswered` are proved only.

*Fairness*: protocol threads that started a call run on and their timeouts fire;
the Qt thread finishes the event it is in. None for the user, the network or the
serving of posted events.

### CastReceiver

A chunk is a packet with the frame it was sent for (`origin`) and the frame the
receiver filed it under (`id`). `Expand` is the reconstruction of frame numbers
from their low bits, with the modulus as a parameter. `HandleRtp` is
the whole packet handler: expansion, window, storing, delivery, feedback;
`OnTick` skips stalls and reports. The sender (openscreen, external) holds what
is not acknowledged, retransmits what is NACKed and kickstarts.

Abstractions: RTCP is a register with the newest report, read late, often or
never, but not out of order. Frames have equally many packets, few enough for
one loss entry per frame. A packet may be late by `Lifetime` frames at most,
half the ID space or less (128 of 256 in the code): UDP delays are seconds, IDs
wrap after about four. RTP statistics, NTP, AES-CTR and the socket are left out.

`ImplementsStream` maps this design to `FrameStream`, in which frames come out in
order, each once, whole, a hole is only jumped to a key frame, and the picture is
at most a window behind. What a step handed over (`out`) is mapped to the frames
its packets were sent for, so that a packet filed under a wrong one would show.

*Checked*: `cast_stream` has eight frames of two packets, modulus 6, window 2 and
lifetime 3, so that holes, retransmissions and skips interleave and IDs wrap
once. `cast_stream_live` has five frames of one packet, because fairness is
needed for each packet; IDs come within half the modulus of their wrap, where a
one-sided expansion goes wrong. Window and lifetime are at most half the modulus,
as in the code (120 of 256); a wrap and a full window meet each case of the
comparisons. One loss entry fits in a report (255 in the code), so reports are
cut short.

*Fairness*: the receiver's timer fires; a report that is there again and again
is read in the end; a packet sent again and again arrives in the end
(strong fairness, a fair-lossy network); the sender kickstarts.

### CastSessions

One session per TLS connection. `events` is the Qt queue with `setConnected()`
and `finished()`; gated messages are `held` during the prompt and replayed. A
lambda that captured a destroyed session is modelled as running all the same,
as it does when the object it uses is the bridge. A destroyed session may or
may not emit its socket's last signal. `MaxGated` and `MaxEvents` bound the
messages of a sender and the queue: two gated messages let one overtake the
other, and a message is handled only while no event waits; a handler may post two,
which lets an event overtake the deletion.

*Checked* (`cast_sessions`): order and consent of messages, pipeline ownership,
and that ended sessions are destroyed, under fairness of replaying and of the
queue (the event loop runs).

### Miracast

`state` is `m_state`, `miceClient` and `rtspPeer` the two connections,
`sourceAddr` and `sourceName` the members the callbacks read. A prompt is one
slot, as `Approval` shows the dialog to be. `steps` counts the RTSP messages on
the present connection, `allowed` whom the user allowed, `abandoned` that `m_state`
left Streaming without `teardown()` and none came since (histories). What abandons a
stream is a MICE connection, a SOURCE_READY that needs no approval, or a late answer
to a prompt, from another source or from the one that streams. Three sources: one streams,
one asks, one interferes. `stop()`, non-local sources and parsing are left out.

*Checked*: negotiation steps are never credited to another connection; the HUD is on
as long as a negotiated connection is up, and off when no source streams unless a
stream was abandoned. That it is off whenever no source streams is not so, with one
source already (`HudIsOfStream`, `IdleWhenAlone` in section 3).

### DlnaTransport

A SOAP action has two halves on its thread, the record and the posting, in the
order of the code (SetAVTransportURI records first, the others post first); the
posted lambda is a third step. `CastLoad` is the only code that makes a URI
pipeline. `overlapped` and `raced` are histories: an action that ran beside
another one, or beside another SetAVTransportURI. Three workers and two URIs let
one action overtake another while a third one is between its halves; two lambdas
may wait. Seek, volume and mute post without a record; the mute button of the
window and LOAD change the same volume (`level`), and `asked` is what a
controller asked for last. A volume of 150 stands for all above 100. Queries
change nothing, and nobody listens to the end of the media.

*Checked* (`dlna_transport`): once everything posted has run, record and pipeline
agree unless commands overlapped, and the pipeline is as loud as the last command
asked unless a LOAD or the button came between.

### MdnsResponder

`said` is what the network last heard of each name. A group (host, service) has
probes, announced and suffix as in the code; `repeats` are scheduled copies,
`answers` scheduled snapshots. A bump of the generation is the removal of the
repeats it silences. The model has no clock: a probe may be due at any tick, and
a repeat (1 s or more) comes after the answers that waited when its first copy
was sent (at most 500 ms). One network interface. `probed`, `verified` and
`lost` are histories. `rename()` has no caller in production today
(AppSettings.h:25 asks for one), `updateTxtRecord()` is called when AirPlay
starts.

*Checked*: `mdns_names` takes one service and the host name through contests,
renames, updates, answers and withdrawal; three events are enough for a contest
during each phase and a rename between. `AllGoLive` says that the service goes
live in the end, when the timer fires and what is scheduled is sent (all on the
responder's own thread, which blocks on nothing else). `MCMdnsResponderTwo.cfg`
is a further instance with two services that share the host, the timer and a
rename; there `ProbesAreTimed` can be checked too, which is proved.

### AirShowSession

A client's bytes are pieces, two per item: the greeting, then frames. A frame is
any two pieces from where the handler starts to read, so a handler that loses
its place shows. TCP delivers any number of pieces at a time, before or after
the acknowledgement. `frames` records what `processFrame()` was given. The
window builds its pipeline at any time; a session of another protocol starts and
ends and may set caps. Two clients (one replaces the other), two frames, the
second with sound: enough for a frame cut by a replacement, by the greeting and
by a read. Header fields are left out. Frames stay below 2^31 bytes: a longer one has a
negative length in `handleStreamingData()` (`int(payloadLen)`, AirShowHandler.cpp:225),
which is not modelled.

*Checked*: frames are whole and in order, nothing complete waits, the open
connection is the served one, the HUD names the streamer, and greetings are
answered, when the event loop serves sockets.

### AirPlay and Lifecycle

UxPlay is external: one thread runs the control callbacks of all connections,
RTP threads push the frames of each, and stopping the server ends every
connection before it returns. `posted` is the Qt queue of HUD updates;
`capsSet`, `caps` and `appsrc` are the handler's flag and the shared pipeline.
`Lifecycle` takes the main thread through `main()`: starts that may fail
(`MaxFailed`), the event loop, the stops in the order of the code, and the
destructors. libupnp's threads call `handleSoapAction()` as long as the device is
registered and may block in an approval; `UpnpFinish()` waits for them. The
handler list has DLNA, AirPlay and one that has no threads. `formatted` and
`mixed` are histories: sessions that asked for caps, and those with another one's
sound between.

*Checked* (`lifecycle`): HUD and audio settle, whoever calls finds what it calls,
nothing is left behind, and the exit comes. Two connections with different codecs
and one libupnp thread are enough for a session that inherits caps or closes
while another streams, and for a call that outlives its handler; one failed start
is enough because each is handled apart from the others.

*Fairness*: the main thread and the threads it waits for run on, approvals time
out, and a RAOP server that is told to stop ends its connections. None for the
event loop and the user: `ShutdownCompletes` holds although the loop that would
show prompts has ended.

### SenderSession

`ui` is the cubit's state, `calls` and `toDart` the two channels, `posted` the main
looper, `commands` what Android has queued for the service, `field` the members of
each service instance (an encoder whose `configure()` failed is `Unconfigured`), `stream`
and `encoding` the threads. A tap, a Stop button,
Stop in the notification and a recreated activity are the user's; the receiver may
refuse, hang up or never acknowledge; every part of the pipeline may fail. Android
gives `RESULT_OK` the value -1, which is also the service's default for "missing",
so a START is always refused (`sender_consent`). `sender_session` therefore gives
the constant another value, so that all behind that check can be examined.

*Checked*: `UiReturnsToIdle` and `ConnectingEnds`, with two taps and two
disturbances, so that the end of one session meets the start of the next and a
recreated activity meets a running service. `MaxPosted` bounds the errors an
encoder repeats: one may wait behind another thread's.

*Fairness*: the loopers and the stream threads run, reads and connects have
timeouts. None for the user, the receiver and the encoder.

### Advertisers

`services` is the list that `DiscoveryManager` filled, `published` what the daemon
answers for. Avahi: client states arrive in order as `signals` on the thread of
the poll, which takes the lock; a collision renames all services. Bonjour: a
worker thread selects on one connection and `stop()` frees it before it joins.
The daemon may find a name taken, change its host name and stop.
`DiscoveryManager::rename()` is not called by the program today
(AppSettings.h:25 asks for a call); it is modelled because both back ends
implement it. That Avahi refuses to add one service or to commit the group, which
the code logs, is left out: such a service is never published.

*Checked* (`advertisers`): both back ends, two services with the AirPlay key, one
of them RAOP with its prefixed name, and one without; a rename, two names taken
and two outages, so that a collision meets a rename and a second one meets the
name chosen for the first.

*Fairness*: the threads run and the daemon finishes what it began. Nobody has to
stop or rename.

### CastAuth and DnsReader

`CastAuth` has the table's real bounds. A certificate is its notBefore; the clock
moves at will between start, handshake and challenge. `start()` is called once;
one that failed to listen leaves `m_certWindowIndex` behind, which would matter to
a second call. `DnsReader` is a machine of the loops of `parse()`, `readRecord()` and
`readName()` over a packet of any bytes; `read` is the history of the bytes the last
step looked at. `MCCastAuth` lets the clock show times around the boundaries of the
table, `MCDnsReader` has 7681 packets whose pointers and lengths are right, off by
one, circular or cut.

## 3. Statements that the code does not keep

`sender_consent` is a run (`tlc -config SenderSession_GrantedConsentStarts.cfg
MCSenderSession.tla`): AirShowCaptureService.kt:88 takes the platform's value for a
granted consent as "missing". The others were met on the way. Each is stated at
the end of its module with the line it comes from. To see one fail, copy the
`MC....cfg` of its module and replace its properties by the statement, as
INVARIANT, or as PROPERTY where the table says so; all else stays. (With `LiveSpec`,
`SenderLiveSpec` or `SystemLiveSpec` the counterexample of an invariant or an action
is the same as with `Spec`.)
`CastSessions` needs `MaxEvents = 2`, and `HudLeavesGone` `MaxGated = 1` to be quick.

| module | statement | what the code does |
| --- | --- | --- |
| `Approval` | `ApprovedIsRemembered` | Allow on an asynchronous (Cast, Miracast) request stores no trusted device |
| | `WaitingIsShown` | a second prompt hides a first one, which stays unanswered |
| | `ShownIsWaiting` | a prompt stays, or appears, after its caller timed out |
| `CastSessions` | `OneActiveSession` | two sessions that coexist can both go active |
| | `HudLeavesGone` (PROPERTY) | the HUD stays on for a session that is destroyed |
| `Miracast` | `OnlyApproved` | the user's answer to one source lets in the newest |
| | `StreamingPlays` | the receive pipeline of a stream stays PAUSED |
| | `HudIsOfStream` | a second SOURCE_READY, also of the source that streams, then Allow or Deny: the handler waits or connects, the HUD stays on |
| | `IdleWhenAlone` | a stream abandoned so keeps the HUD on after its source hung up |
| | `HudNamesPeer` | the HUD names the newest source, not the one that streams |
| | `NoPipelineLeft` | a source that hangs up between M6 and M7 leaves the pipeline |
| `DlnaTransport` | `DlnaPlays` | DLNA alone never has a pipeline to play |
| | `MutedIsSilent` | a LOAD or a volume makes what is called muted loud |
| `MdnsResponder` | `GoodbyeForEvery` (PROPERTY) | no goodbye for a service that is probing again |
| | `NothingAfterGoodbye` (PROPERTY) | a delayed answer follows the goodbye |
| `AirShowSession` | `SessionIsShown` | a connection that comes and goes clears another session's HUD |
| | `CapsAreSet` | caps are lost when the window replaces the pipeline |
| `Lifecycle` | `HudNamesDevice` | the HUD names the last device that asked, or one that left |
| | `SinkAlive` | the pipeline still plays when the window's sink is destroyed |
| `SenderSession` | `StreamingIsShown` | after an audio error the app shows Idle while it streams |
| | `StoppedIsReleased` | a thread that connects during `teardown()` keeps its connection |
| `Advertisers` | `RaopIsPrefixed` | after a collision RAOP has the plain name |
| | `ConnectionOutlivesThread` | Bonjour's thread may use the connection that `stop()` freed |
| | `ComesBack` (PROPERTY) | services are gone after the daemon restarted |

## 4. Proofs

All theorems hold for every value of the constants that satisfies the module's
ASSUME. The theorems about `DnsReader` state their assumption themselves.

* `ApprovalProofs`. `TypeOK` and the properties are not inductive: that a woken
  thread reads the pressed button depends on where a request can be. `IInv` adds
  that a request is queued once before it is registered, that registered and
  stored requests are unanswered, what is known of a request between the writes
  of `resolveApproval()`, and what flag and semaphore hold then. One lemma per
  action preserves it. From it follow type correctness, the safety invariants,
  the three action properties, and `Refinement`: `Approval` implements
  `ApprovalGate` (one step lemma, each action maps to a gate step or a stutter).
  `AnswersArrive`, the safety half of `WaitersReturn` for callers whose prompt was
  answered: the release has happened or is what the Qt thread is about to do.
* `CastReceiverProofs`. First the arithmetic of truncated numbers: `Expand` gives
  back a frame number that is within half the modulus of the one it is compared
  with. It is assumed that a packet's life is at most half the ID space and that the
  window is shorter than that life, as in the code (`ReceiverAssumption`). The
  invariant then says how far apart sender, receiver, packets in flight and the
  last report can be, and that whatever was acknowledged anywhere is complete. From
  it: no packet is filed under another frame (`ChunksFiledRight`), the sender keeps
  what is missing (`SenderHoldsWhatIsMissing`), frames come out whole, once and in
  order (`InOrder`), and after a skip from a key frame on (`ResumesAtKeyFrame`).
  `Refinement`: `CastReceiver` implements `FrameStream`; the network, reports,
  duplicates and retransmissions are steps in which nothing happens there.
  `HolesCanClose`, the safety half of `HolesClose` and `WindowReopens`: a missing
  frame is never complete already, the sender holds it, and while newer ones arrive
  a report names a packet of it.
* `CastSessionsProofs`. `GatedInOrder`, `NothingBeforeConsent` and
  `NoOrphanPipeline` for any number of connections and messages. The invariant adds
  that messages are held only while the approval is open, that an answer is given
  once, and which flags an effect leaves. `RemovalPosted`, the safety half of
  `EndedIsRemoved`, says that a session which ended has its removal in the queue.
  As `Auth`: `SignatureIsOfCertificate`, `ListensWithCertificate` and the types, for
  every clock.
  They rest on the table's numbers: the start of a window lies in that window.
* `MiracastProofs`. `NegotiatedWithPeer` and `HudFollowsStream` need each other
  and two facts: whoever asks has an address, and no step is counted on a
  connection that is not up. One lemma (`Leave`) covers all steps out of Streaming:
  they turn the HUD off, or are noted in `abandoned`.
* `DlnaProofs`. The properties speak of states in which nothing is posted, the
  invariant of where the queue leads: the last lambda of a kind that still waits
  decides, or else the present pipeline. So each posting, each dispatch and a LOAD
  keep it, with the exceptions that `overlapped` and `raced` name. From it
  `TransportIsPipeline` and `HudShowsPlaying`.
* `MdnsProofs`. `SaidIsCurrent` holds at rest; before that, either the network
  knows a service as it is and no waiting answer will say otherwise, or a repeat
  will come after every answer that may (`KnownOrRepeated`). With it
  `OnlyVerifiedSaid` (the probes counted are those of the present name),
  `LiveNamesAreHeld`, `GoesLiveWithHost`, and `ProbesAreTimed`, the safety half of
  `AllGoLive`: while a name is probed for, the timer runs. As `Reader`, for packets
  of any size and content: `ReadsInside`; `NameIsBounded` and `NameAdvances`, which
  together say that a name ends, also where its pointers form a circle;
  `PosNeverGoesBack`. Assumed is only what a packet is (`AnyPacket`).
  Of `Advertisers`, `PublishedIsCurrent` for any services, collisions and outages. Avahi's
  callbacks lag behind the daemon, so the invariant says what the client will have
  seen after each prefix of the waiting signals: a collision finds it running, the
  last state told is the daemon's, and nothing follows a failure.
  Then a group on its way to the network has what AirShow holds. Bonjour's
  registrations are the types of the list. `NothingAfterStop` is the safety half of
  `StopCompletes`, `NeverForgotten` that of `StaysVisible`: while the daemon never
  stopped, a receiver that is not visible has a signal waiting or the daemon at work
  that will make it so. The types need a count: an alternative name is a collision
  of its own, which has happened or waits among the signals (`AlternativesInv`).
* `AirShowProofs`. `OpenIsServed` and `HudNamesStreamer` from an invariant that
  ties `m_client`, `m_state`, the connections and the acknowledgements.
  `FramesAreWhole` and `NothingStranded` from a second one, which says where in
  the client's bytes the buffer begins and ends and that what is on the wire
  follows it. From that also `GreetingsAreRead`, the safety half of
  `GreetingIsAnswered`: the end of a greeting that is not answered is still on the
  wire, never in the buffer, where nothing would look at it again.
  Of `SenderSession`: `UiReturnsToIdle`; while the app does not show Idle,
  an event that returns it there is queued, or a thread, a command or the service's
  destruction that will send one is still to come. `SpinnersEnd`, the safety half of
  `ConnectingEnds`, follows one session through the queues: behind each screen with a
  spinner there is the next cause of its end. The types need a count again
  (`PaidIInv`): each dialog and each service has a tap or a Stop of its own.
* `LifecycleProofs`. For any handlers, connections and libupnp threads: which parts
  are up in which phase of `main()` (`ProgramInv`), from which `CleanExit` and
  `CallersFindHandlers` follow; and what the posted HUD updates and the caps of each
  session will come to (`AirInv`), from which `HudSettles` and `AudioFitsSession`.

Each invariant was checked by TLC on the module's instance before it was proved.

Only model-checked are the liveness properties, which are outside the prover's
reach: `WaitersReturn`, `HolesClose`, `WindowReopens`, `EndedIsRemoved`, `AllGoLive`,
`GreetingIsAnswered`, `ShutdownCompletes`, `ConnectingEnds`, `StaysVisible` and
`StopCompletes` (but for `NothingAfterStop`). What a theorem can say of them is that
their cause is always at hand, and all but `ShutdownCompletes` have such a safety half
above; for `WaitersReturn` it is about answered callers, the others return by the
timeout of `tryAcquire()`, and for `ShutdownCompletes` it would only be that each wait
of the main thread is for a thread that runs. Every invariant and every other action
property that a run checks is proved. What a name read by `DnsReader` says would need
induction over the packet and is left out.

## 5. Plan

Order: what users rely on first. Done: approval, Cast, Miracast, DLNA, mDNS,
AirShow; AirPlay with the lifecycle, the sender, the advertisers, Cast device
authentication, the DNS reader. Left:

1. `Hud`: all handlers over `ConnectionBridge` and the appsrc pipeline together,
   with an abstract specification "the HUD shows a session that streams". Today
   `CastSessions` and `AirShowSession` have the HUD of one other session beside
   them, `AirPlay` another source of caps; `Miracast` and `DlnaTransport` have the
   HUD to themselves.
2. `MdnsNames`: several devices contest a name.
3. `DnsMessage::serialize()` (its compression against `DnsReader`) and
   `CastStreamingOffer`, against reference definitions.

Their proofs come with them. The modules there are have theirs: types, invariants,
action properties and both refinements.

## 6. Not modelled

Of the 29 379 lines of code 17 297 are `cast_auth_sigs.h`, a generated table of
signatures: data, of which only the lookup is modelled. The map names about
4 800 of the other 12 080.

UxPlay, GStreamer, libupnp, Avahi, Bonjour and openscreen are external; they
appear as far as the code uses them. Cryptography, parsing, formatting, drawing,
the HTTP landing page, firewall setup, packaging and generated runners keep no
state of interest. The status of each component is in `PROJECT.json`.
`WebInterface` answers each HTTP request from the settings and keeps nothing
between requests. `CastStreamingOffer` and the framing, status replies and XML of
the protocols are functions from one message to the next. The elements that
`MediaPipeline` builds, which decoder it prefers, and what the encoder and the
audio capture of the sender do with samples are GStreamer's and Android's. The
sender's discovery is a list that a browser fills.
