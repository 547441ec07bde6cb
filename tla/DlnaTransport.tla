---------------------------- MODULE DlnaTransport ----------------------------
(***************************************************************************)
(* DlnaHandler's AVTransport and RenderingControl actions.  A SOAP action  *)
(* runs on a thread of libupnp's pool, and several may run at once.  It    *)
(* takes effect in two halves: the handler's own record of the transport,  *)
(* under m_stateMutex, and a lambda posted to the Qt thread, which         *)
(* commands the URI pipeline and the HUD.  SetAVTransportURI records       *)
(* first; Play, Pause and Stop post first; Seek, SetVolume and SetMute     *)
(* only post.  A Cast LOAD uses the same URI pipeline and is the only code *)
(* that creates one, and the window's button mutes.  Queries change        *)
(* nothing.  The approval of each action is ApprovalGate's.                *)
(***************************************************************************)
EXTENDS Integers, Sequences

CONSTANTS
  Worker,      \* libupnp threads
  Uri, NoUri,  \* what controllers play
  CastUri,     \* what a Cast sender plays
  Desired,     \* volumes that controllers ask for, of which 0 .. 100 are valid
  MaxPosted    \* bound: lambdas waiting in the Qt event queue

ASSUME DlnaAssumption ==
  /\ NoUri \notin Uri /\ CastUri \notin Uri \union {NoUri}
  /\ Desired \subseteq Int /\ MaxPosted \in Nat

Command == {[op |-> "setUri", arg |-> u] : u \in Uri}
             \union {[op |-> o, arg |-> NoUri] : o \in {"play", "pause", "stop"}}
Idle == [op |-> "none", arg |-> NoUri]

Sound == {[op |-> "setVolume", arg |-> v] : v \in Desired}
           \union {[op |-> "setMute", arg |-> m] : m \in {0, 1}}
Seek  == [op |-> "seek", arg |-> NoUri]

Silence == 0
Full    == 100
Unasked == Full + 1  \* nothing known of what the volume should be

VARIABLES
  transport,   \* m_transportState
  currentUri,  \* m_currentUri
  worker,      \* the command whose second half each thread has yet to do, or Idle
  posted,      \* lambdas in the Qt event queue
  pipe,        \* m_uriPipeline: state, URI, and who commanded it last
  hud,         \* the HUD shows DLNA
  muted,       \* m_muted
  level,       \* volume of the URI pipeline, in percent
  asked,       \* history: the volume that the last command about it asked for
  overlapped,  \* history: the last command to begin overlapped another one
  raced        \* history: the last SetAVTransportURI to begin overlapped another one

heard == <<muted, level, asked>>
vars == <<transport, currentUri, worker, posted, pipe, hud, heard, overlapped, raced>>

TypeOK ==
  /\ transport \in {"STOPPED", "PLAYING", "PAUSED"}
  /\ currentUri \in Uri \union {NoUri}
  /\ worker \in [Worker -> Command \union {Idle}]
  /\ posted \in Seq(Command \union Sound \union {Seek})
  /\ pipe \in [state : {"absent", "NULL", "PAUSED", "PLAYING"},
               uri   : Uri \union {NoUri, CastUri},
               by    : {"none", "dlna", "cast"}]
  /\ {hud, muted, overlapped, raced} \subseteq BOOLEAN
  /\ level \in Silence .. Full /\ asked \in Silence .. Unasked

Init ==
  /\ transport = "STOPPED" /\ currentUri = NoUri
  /\ worker = [w \in Worker |-> Idle]
  /\ posted = <<>>
  /\ pipe = [state |-> "absent", uri |-> NoUri, by |-> "none"]
  /\ hud = FALSE /\ overlapped = FALSE /\ raced = FALSE
  /\ muted = FALSE /\ level = Full /\ asked = Unasked

-----------------------------------------------------------------------------
(* The two halves of a command.                                            *)

Recorded(op) ==
  CASE op = "play" -> "PLAYING" [] op = "pause" -> "PAUSED" [] OTHER -> "STOPPED"

Record(c) ==
  /\ transport' = Recorded(c.op)
  /\ currentUri' = IF c.op = "setUri" THEN c.arg ELSE currentUri
  /\ UNCHANGED posted

Post(c) ==
  /\ posted' = Append(posted, c)
  /\ UNCHANGED <<transport, currentUri>>

FirstHalf(c)  == IF c.op = "setUri" THEN Record(c) ELSE Post(c)
SecondHalf(c) == IF c.op = "setUri" THEN Post(c) ELSE Record(c)

Begin(w, c) ==
  /\ worker[w] = Idle
  /\ Len(posted) < MaxPosted
  /\ FirstHalf(c)
  /\ worker' = [worker EXCEPT ![w] = c]
  /\ overlapped' = \E v \in Worker : worker[v] # Idle
  /\ raced' = IF c.op = "setUri" THEN \E v \in Worker : worker[v].op = "setUri" ELSE raced
  /\ UNCHANGED <<pipe, hud, heard>>

Finish(w) ==
  /\ worker[w] # Idle
  /\ SecondHalf(worker[w])
  /\ worker' = [worker EXCEPT ![w] = Idle]
  /\ UNCHANGED <<pipe, hud, heard, overlapped, raced>>

\* The volume a command leaves: out of range it is clamped; unmuting means full.
Loudness(c) ==
  IF c.op = "setMute" THEN (IF c.arg = 1 THEN Silence ELSE Full)
  ELSE IF c.arg < Silence THEN Silence ELSE IF c.arg > Full THEN Full ELSE c.arg

\* Seek, SetVolume and SetMute have no record: a thread posts and answers.
Ask(c) ==
  /\ \E w \in Worker : worker[w] = Idle
  /\ Len(posted) < MaxPosted
  /\ Post(c)
  /\ asked' = IF c \in Sound THEN Loudness(c) ELSE asked
  /\ UNCHANGED <<worker, pipe, hud, muted, level, overlapped, raced>>

-----------------------------------------------------------------------------
(* The Qt thread.                                                          *)

\* setUri() prerolls; without a pipeline every command is lost.
Commanded(c) ==
  CASE pipe.state = "absent" -> pipe
    [] pipe.state # "absent" /\ c.op = "setUri" ->
         [state |-> "PAUSED", uri |-> c.arg, by |-> "dlna"]
    [] c.op \in {"seek", "setVolume", "setMute"} -> pipe
    [] OTHER -> [pipe EXCEPT !.by = "dlna",
                   !.state = CASE c.op = "play"  -> "PLAYING"
                               [] c.op = "pause" -> "PAUSED"
                               [] c.op = "stop"  -> "NULL"]

\* Mutant: lambdas run in no particular order, here the newest first.
NextPostedLast == Len(posted)

NextPosted == 1

\* setVolume() does not look at m_muted, nor setMuted() at the volume before.
SetSound(c) ==
  /\ muted' = IF c.op = "setMute" THEN c.arg = 1 ELSE muted
  /\ level' = IF pipe.state = "absent" THEN level ELSE Loudness(c)

Dispatch ==
  /\ posted # <<>>
  /\ LET c == posted[NextPosted] IN
       /\ pipe' = Commanded(c)
       /\ hud' = (c.op = "play" \/ (hud /\ c.op # "stop"))
       /\ IF c \in Sound THEN SetSound(c) ELSE UNCHANGED <<muted, level>>
  /\ posted' = SubSeq(posted, 1, NextPosted - 1) \o SubSeq(posted, NextPosted + 1, Len(posted))
  /\ UNCHANGED <<transport, currentUri, worker, asked, overlapped, raced>>

\* CastSession LOAD: a new pipeline replaces the old one, at full volume.
CastLoad ==
  /\ pipe' = [state |-> "PLAYING", uri |-> CastUri, by |-> "cast"]
  /\ level' = Full /\ asked' = Unasked
  /\ UNCHANGED <<transport, currentUri, worker, posted, hud, muted, overlapped, raced>>

\* The window's button mutes and unmutes at once, ahead of what is posted.
ToggleMute ==
  /\ SetSound([op |-> "setMute", arg |-> IF muted THEN 0 ELSE 1])
  /\ asked' = IF \E i \in DOMAIN posted : posted[i] \in Sound THEN Unasked ELSE level'
  /\ UNCHANGED <<transport, currentUri, worker, posted, pipe, hud, overlapped, raced>>

Next ==
  \/ \E w \in Worker : \E c \in Command : Begin(w, c)
  \/ \E w \in Worker : Finish(w)
  \/ \E c \in Sound \union {Seek} : Ask(c)
  \/ Dispatch
  \/ CastLoad
  \/ ToggleMute

Spec == Init /\ [][Next]_vars

-----------------------------------------------------------------------------
(* Properties.                                                             *)

Settled == posted = <<>> /\ \A w \in Worker : worker[w] = Idle

StateIsPipeline ==
  Settled /\ ~overlapped /\ pipe.by = "dlna" =>
    CASE transport = "PLAYING" -> pipe.state = "PLAYING"
      [] transport = "PAUSED"  -> pipe.state = "PAUSED"
      [] transport = "STOPPED" -> pipe.state # "PLAYING"

UriIsPipeline ==
  Settled /\ ~raced /\ pipe.by = "dlna" /\ pipe.uri # CastUri => pipe.uri = currentUri

SoundIsPipeline ==
  Settled /\ pipe.state # "absent" /\ asked # Unasked => level = asked

\* Once everything posted has run, the pipeline does what GetTransportInfo
\* answers, unless the last command overlapped another one (then the record may be
\* one command's and the pipeline the other's) or Cast had the last word. And it
\* has the URI GetMediaInfo answers, unless two SetAVTransportURI overlapped or the
\* media is Cast's, whatever else overlapped.  And it is as loud as the last
\* command asked, unless a LOAD or the button came between.
TransportIsPipeline == StateIsPipeline /\ UriIsPipeline /\ SoundIsPipeline

\* A controller that reads PLAYING finds the HUD on once everything has run.
HudShowsPlaying == Settled /\ ~overlapped /\ transport = "PLAYING" => hud

-----------------------------------------------------------------------------
\* "URI-based pipeline for DLNA media playback" (MediaPipeline.h:77): when a DLNA
\* controller has set a URI and reads PLAYING, a pipeline plays.
DlnaPlays ==
  Settled /\ ~overlapped /\ currentUri # NoUri /\ transport = "PLAYING" => pipe.state = "PLAYING"

\* "Also mute the URI pipeline volume element if active" (MediaPipeline.cpp:206):
\* what GetMute calls muted is not heard.
MutedIsSilent == Settled /\ muted /\ pipe.state # "absent" => level = Silence
=============================================================================
