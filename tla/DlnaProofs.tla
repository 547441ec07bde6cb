----------------------------- MODULE DlnaProofs -----------------------------
(***************************************************************************)
(* For any number of libupnp threads, URIs, volumes and waiting lambdas:   *)
(* once what is posted has run, the URI pipeline and the HUD agree with    *)
(* what DlnaHandler answers to queries.  The invariant says this of the    *)
(* future: where the last lambda of a kind that is still in the queue, or  *)
(* else the present state, leads.                                          *)
(***************************************************************************)
EXTENDS DlnaTransport, SequenceTheorems, TLAPS

\* What is posted.
Lambda == Command \union Sound \union {Seek}

\* q has nothing of S; the last of S in q, if there is one, is one of G.
None(q, S)      == \A i \in 1 .. Len(q) : q[i] \notin S
LastIs(q, S, G) ==
  \A i \in 1 .. Len(q) :
    q[i] \in S /\ (\A j \in i + 1 .. Len(q) : q[j] \notin S) => q[i] \in G

\* r is q without its first element.
Rest(q, r) == Len(r) = Len(q) - 1 /\ \A i \in 1 .. Len(r) : r[i] = q[i + 1]

\* Once all lambdas have run, pipeline and HUD agree with the answer t.
Reached(t, p, h) ==
  /\ p.by = "dlna" => /\ t = "PLAYING" => p.state = "PLAYING"
                      /\ t = "PAUSED"  => p.state = "PAUSED"
                      /\ t = "STOPPED" => p.state # "PLAYING"
  /\ t = "PLAYING" => h
Leads(t, q, p, h) ==
  /\ LastIs(q, Command, {c \in Command : Recorded(c.op) = t})
  /\ None(q, Command) => Reached(t, p, h)

SetUri(u) == [op |-> "setUri", arg |-> u]
SetUris   == {SetUri(u) : u \in Uri}

\* Once all lambdas have run, the pipeline has the URI u, or Cast's.
UriLeads(u, q, p) ==
  /\ LastIs(q, SetUris, {SetUri(u)})
  /\ None(q, SetUris) => (p.by = "dlna" /\ p.uri # CastUri => p.uri = u)

\* Once all lambdas have run, the pipeline is as loud as a.
SoundLeads(a, q, p, l) ==
  /\ LastIs(q, Sound, {c \in Sound : Loudness(c) = a})
  /\ None(q, Sound) => (p.state # "absent" => l = a)

\* A pipeline exists because somebody commanded one; Cast's has Cast's URI.
PipeOfSomebody ==
  /\ pipe.state = "absent" <=> pipe.by = "none"
  /\ pipe.by = "cast" => pipe.uri = CastUri

\* Unless the last command overlapped another one, at most one is under way, and
\* all that is posted leads to what it records or has recorded.
StateFollows ==
  ~overlapped =>
    /\ \A v, w \in Worker : worker[v] # Idle /\ worker[w] # Idle => v = w
    /\ \A w \in Worker : worker[w].op = "setUri" => transport = "STOPPED"
    /\ \A w \in Worker : worker[w].op \in {"play", "pause", "stop"} =>
                           Leads(Recorded(worker[w].op), posted, pipe, hud)
    /\ (\A w \in Worker : worker[w] = Idle) => Leads(transport, posted, pipe, hud)

\* Unless the last SetAVTransportURI overlapped another one, at most one is under
\* way, it will post the URI it recorded, and what is posted leads there.
UriFollows ==
  ~raced =>
    /\ \A v, w \in Worker : worker[v].op = "setUri" /\ worker[w].op = "setUri" => v = w
    /\ \A w \in Worker : worker[w].op = "setUri" => worker[w].arg = currentUri
    /\ (\A w \in Worker : worker[w].op # "setUri") => UriLeads(currentUri, posted, pipe)

\* What is posted leads to the volume that was asked for last.
SoundFollows == asked # Unasked => SoundLeads(asked, posted, pipe, level)

IInv == TypeOK /\ PipeOfSomebody /\ StateFollows /\ UriFollows /\ SoundFollows

-----------------------------------------------------------------------------
(* Queues.                                                                 *)

\* A lambda of S that is posted is the last one of S; another one changes nothing.
LEMMA AppendLast ==
  ASSUME NEW T, NEW q \in Seq(T), NEW c \in T, NEW S, NEW G
  PROVE  /\ c \in S => ~None(Append(q, c), S)
         /\ c \in S /\ c \in G => LastIs(Append(q, c), S, G)
         /\ c \notin S => (None(Append(q, c), S) <=> None(q, S))
         /\ c \notin S /\ LastIs(q, S, G) => LastIs(Append(q, c), S, G)
<1> DEFINE n == Len(q)
           r == Append(q, c)
<1>1. n \in Nat /\ Len(r) = n + 1 /\ r[n + 1] = c /\ \A i \in 1 .. n : r[i] = q[i]
  BY AppendProperties, LenProperties
<1> HIDE DEF n, r
<1>2. 1 .. Len(r) = (1 .. n) \union {n + 1} /\ \A i \in 1 .. n : n + 1 \in i + 1 .. Len(r)
  BY <1>1
<1>3. c \in S => ~None(r, S)
  BY <1>1, <1>2 DEF None
<1>4. ASSUME c \in S, c \in G PROVE LastIs(r, S, G)
  BY <1>1, <1>2, <1>4 DEF LastIs
<1>5. ASSUME c \notin S PROVE None(r, S) <=> None(q, S)
  BY <1>1, <1>2, <1>5 DEF None, n
<1>6. ASSUME c \notin S, LastIs(q, S, G) PROVE LastIs(r, S, G)
  <2> SUFFICES ASSUME NEW i \in 1 .. Len(r), r[i] \in S,
                      \A j \in i + 1 .. Len(r) : r[j] \notin S
               PROVE  r[i] \in G
    BY DEF LastIs
  <2>1. i \in 1 .. n /\ r[i] = q[i]
    BY <1>1, <1>2, <1>6
  <2>2. ASSUME NEW j \in i + 1 .. n PROVE q[j] \notin S
    <3>1. j \in 1 .. n /\ j \in i + 1 .. Len(r)
      BY <1>1, <2>1
    <3> QED BY <3>1, <1>1
  <2> QED BY <1>6, <2>1, <2>2 DEF LastIs, n
<1> QED BY <1>3, <1>4, <1>5, <1>6 DEF r

\* What Dispatch takes is the head; the rest keeps what is last in it.
LEMMA RestLast ==
  ASSUME NEW T, NEW q \in Seq(T), NEW r \in Seq(T), q # <<>>, Rest(q, r), NEW S, NEW G
  PROVE  /\ LastIs(q, S, G) => LastIs(r, S, G)
         /\ q[1] \notin S /\ None(r, S) => None(q, S)
         /\ q[1] \in S /\ None(r, S) /\ LastIs(q, S, G) => q[1] \in G
<1> DEFINE n == Len(r)
<1>1. n \in Nat /\ Len(q) = n + 1 /\ \A i \in 1 .. n : r[i] = q[i + 1]
  BY LenProperties, EmptySeq DEF Rest
<1>5. \A j \in 2 .. Len(q) : j - 1 \in 1 .. n /\ q[j] = r[j - 1]
  <2> HIDE DEF n
  <2> SUFFICES ASSUME NEW j \in 2 .. Len(q) PROVE j - 1 \in 1 .. n /\ q[j] = r[j - 1]
    OBVIOUS
  <2>1. j - 1 \in 1 .. n /\ (j - 1) + 1 = j
    BY <1>1
  <2> QED BY <2>1, <1>1
<1> HIDE DEF n
<1>2. ASSUME LastIs(q, S, G) PROVE LastIs(r, S, G)
  <2> SUFFICES ASSUME NEW i \in 1 .. n, r[i] \in S, \A j \in i + 1 .. n : r[j] \notin S
               PROVE  r[i] \in G
    BY DEF LastIs, n
  <2>1. i + 1 \in 1 .. Len(q) /\ q[i + 1] = r[i]
    BY <1>1
  <2>2. ASSUME NEW j \in (i + 1) + 1 .. Len(q) PROVE q[j] \notin S
    <3>1. j \in 2 .. Len(q) /\ j - 1 \in i + 1 .. n
      BY <1>1
    <3> QED BY <3>1, <1>5
  <2> QED BY <1>2, <2>1, <2>2 DEF LastIs
<1>3. ASSUME q[1] \notin S, None(r, S) PROVE None(q, S)
  <2> SUFFICES ASSUME NEW i \in 1 .. Len(q) PROVE q[i] \notin S
    BY DEF None
  <2>1. CASE i = 1
    BY <2>1, <1>3
  <2>2. CASE i # 1
    <3>1. i \in 2 .. Len(q)
      BY <2>2, <1>1
    <3> QED BY <3>1, <1>5, <1>3 DEF None, n
  <2> QED BY <2>1, <2>2
<1>4. ASSUME q[1] \in S, None(r, S), LastIs(q, S, G) PROVE q[1] \in G
  <2>1. \A j \in 1 + 1 .. Len(q) : q[j] \notin S
    BY <1>4, <1>5 DEF None, n
  <2>2. 1 \in 1 .. Len(q)
    BY <1>1
  <2> QED BY <1>4, <2>1, <2>2 DEF LastIs
<1> QED BY <1>2, <1>3, <1>4

\* Dispatch takes the oldest lambda off the queue.
LEMMA TakesOldest ==
  ASSUME posted \in Seq(Lambda), Dispatch
  PROVE  posted' \in Seq(Lambda) /\ Rest(posted, posted') /\ posted[1] \in Lambda
<1> DEFINE n == Len(posted)
           a == SubSeq(posted, 1, 0)
           b == SubSeq(posted, 2, n)
<1>1. n \in Nat \ {0} /\ posted[1] \in Lambda
  BY EmptySeq, LenProperties, ElementOfSeq DEF Dispatch
<1>2. a = <<>>
  BY SubSeqEmpty
<1>3. b \in Seq(Lambda) /\ Len(b) = n - 1 /\ \A i \in 1 .. n - 1 : b[i] = posted[i + 1]
  <2>0. n \in Nat
    BY <1>1
  <2> HIDE DEF n
  <2>1. Len(posted) = n
    BY DEF n
  <2>2. \A i \in 2 .. n : i \in 1 .. Len(posted)
    BY <2>0, <2>1
  <2>3. b \in Seq(Lambda) /\ Len(b) = (IF 2 <= n THEN n - 2 + 1 ELSE 0) /\ \A i \in 1 .. n - 2 + 1 : b[i] = posted[2 + i - 1]
    BY <2>0, <2>1, <2>2, SubSeqProperties
  <2>4. Len(b) = n - 1 /\ \A i \in 1 .. n - 1 : i \in 1 .. n - 2 + 1 /\ 2 + i - 1 = i + 1
    BY <1>1, <2>0, <2>3
  <2> HIDE DEF b
  <2> QED BY <2>3, <2>4
<1>4. posted' = b
  <2>1. posted' = a \o b
    BY DEF Dispatch, NextPosted
  <2> HIDE DEF a, b
  <2> QED BY <2>1, <1>2, <1>3, ConcatEmptySeq
<1> QED BY <1>1, <1>3, <1>4 DEF Rest

-----------------------------------------------------------------------------
(* What each step does to what the queue leads to.                         *)

\* Commands, SetAVTransportURI and sounds tell themselves apart.
LEMMA Lambdas ==
  /\ \A c \in Command : /\ c.op \in {"setUri", "play", "pause", "stop"}
                        /\ c.op = "setUri" <=> c \in SetUris
                        /\ c.op = "setUri" => c.arg \in Uri /\ c = SetUri(c.arg)
                        /\ c \notin Sound /\ c # Seek /\ c # Idle /\ c \in Lambda
  /\ \A c \in Sound : /\ c.op \in {"setVolume", "setMute"}
                      /\ c \notin Command /\ c \notin SetUris /\ c \in Lambda
  /\ Seek.op = "seek" /\ Seek \notin Command \union SetUris \union Sound /\ Seek \in Lambda
  /\ Idle.op = "none"
  /\ SetUris \subseteq Command
<1>1. /\ \A c \in Command : c.op \in {"setUri", "play", "pause", "stop"}
      /\ \A c \in Sound : c.op \in {"setVolume", "setMute"}
      /\ \A c \in SetUris : c.op = "setUri" /\ c \in Command
      /\ Seek.op = "seek" /\ Idle.op = "none"
  BY DEF Command, Sound, Seek, Idle, SetUris, SetUri
<1>2. ASSUME NEW c \in Command, c.op = "setUri" PROVE c \in SetUris /\ c.arg \in Uri /\ c = SetUri(c.arg)
  <2>1. PICK u \in Uri : c = [op |-> "setUri", arg |-> u]
    BY <1>2 DEF Command
  <2> QED BY <2>1 DEF SetUris, SetUri
<1>3. /\ \A c \in Command : c \notin Sound /\ c # Seek /\ c # Idle
      /\ Seek \notin Command \union SetUris \union Sound
      /\ \A c \in Sound : c \notin Command /\ c \notin SetUris
  BY <1>1
<1> QED BY <1>1, <1>2, <1>3 DEF Lambda

\* Every volume that is asked for ends between silent and full.
LEMMA Audible == \A c \in Sound : Loudness(c) \in Silence .. Full
<1> SUFFICES ASSUME NEW c \in Sound PROVE Loudness(c) \in Silence .. Full
  OBVIOUS
<1>1. c.op = "setMute" \/ c.arg \in Int
  BY DlnaAssumption DEF Sound
<1> QED BY <1>1 DEF Loudness, Silence, Full

\* A lambda that is posted leads where it says, and no other way changes.
LEMMA Posting ==
  ASSUME NEW q \in Seq(Lambda), NEW c \in Lambda, NEW p, NEW h, NEW l, NEW a, NEW u, NEW t
  PROVE  /\ c \in Command => Leads(Recorded(c.op), Append(q, c), p, h)
         /\ c \notin Command /\ Leads(t, q, p, h) => Leads(t, Append(q, c), p, h)
         /\ c = SetUri(u) /\ u \in Uri => UriLeads(u, Append(q, c), p)
         /\ c \notin SetUris /\ UriLeads(u, q, p) => UriLeads(u, Append(q, c), p)
         /\ c \in Sound => SoundLeads(Loudness(c), Append(q, c), p, l)
         /\ c \notin Sound /\ SoundLeads(a, q, p, l) => SoundLeads(a, Append(q, c), p, l)
<1>1. ASSUME c \in Command PROVE Leads(Recorded(c.op), Append(q, c), p, h)
  <2> DEFINE G == {d \in Command : Recorded(d.op) = Recorded(c.op)}
  <2>1. c \in G
    BY <1>1
  <2> HIDE DEF G
  <2>2. LastIs(Append(q, c), Command, G) /\ ~None(Append(q, c), Command)
    BY <1>1, <2>1, AppendLast
  <2> QED BY <2>2 DEF Leads, G
<1>2. ASSUME c \notin Command, Leads(t, q, p, h) PROVE Leads(t, Append(q, c), p, h)
  <2> DEFINE G == {d \in Command : Recorded(d.op) = t}
  <2>1. LastIs(q, Command, G) /\ (None(q, Command) => Reached(t, p, h))
    BY <1>2 DEF Leads
  <2>2. LastIs(Append(q, c), Command, G) /\ (None(Append(q, c), Command) <=> None(q, Command))
    <3> HIDE DEF G
    <3> QED BY <1>2, <2>1, AppendLast
  <2> QED BY <2>1, <2>2 DEF Leads
<1>3. ASSUME c = SetUri(u), u \in Uri PROVE UriLeads(u, Append(q, c), p)
  <2>1. c \in SetUris /\ c \in {SetUri(u)}
    BY <1>3 DEF SetUris
  <2>2. LastIs(Append(q, c), SetUris, {SetUri(u)}) /\ ~None(Append(q, c), SetUris)
    BY <2>1, AppendLast
  <2> QED BY <2>2 DEF UriLeads
<1>4. ASSUME c \notin SetUris, UriLeads(u, q, p) PROVE UriLeads(u, Append(q, c), p)
  <2>1. LastIs(q, SetUris, {SetUri(u)})
    BY <1>4 DEF UriLeads
  <2>2. LastIs(Append(q, c), SetUris, {SetUri(u)}) /\ (None(Append(q, c), SetUris) <=> None(q, SetUris))
    BY <1>4, <2>1, AppendLast
  <2> QED BY <1>4, <2>2 DEF UriLeads
<1>5. ASSUME c \in Sound PROVE SoundLeads(Loudness(c), Append(q, c), p, l)
  <2> DEFINE G == {d \in Sound : Loudness(d) = Loudness(c)}
  <2>1. c \in G
    BY <1>5
  <2> HIDE DEF G
  <2>2. LastIs(Append(q, c), Sound, G) /\ ~None(Append(q, c), Sound)
    BY <1>5, <2>1, AppendLast
  <2> QED BY <2>2 DEF SoundLeads, G
<1>6. ASSUME c \notin Sound, SoundLeads(a, q, p, l) PROVE SoundLeads(a, Append(q, c), p, l)
  <2> DEFINE G == {d \in Sound : Loudness(d) = a}
  <2>1. LastIs(q, Sound, G) /\ (None(q, Sound) => (p.state # "absent" => l = a))
    BY <1>6 DEF SoundLeads
  <2>2. LastIs(Append(q, c), Sound, G) /\ (None(Append(q, c), Sound) <=> None(q, Sound))
    <3> HIDE DEF G
    <3> QED BY <1>6, <2>1, AppendLast
  <2> QED BY <2>1, <2>2 DEF SoundLeads
<1> QED BY <1>1, <1>2, <1>3, <1>4, <1>5, <1>6

\* What a lambda makes of the pipeline.
LEMMA Commanding ==
  ASSUME TypeOK, PipeOfSomebody, NEW c \in Lambda
  PROVE  /\ Commanded(c).state = "absent" <=> pipe.state = "absent"
         /\ pipe.state = "absent" => Commanded(c) = pipe
         /\ c \notin Command => Commanded(c) = pipe
         /\ c \in Command /\ pipe.state # "absent" => Commanded(c).by = "dlna"
         /\ pipe.state # "absent" /\ c.op = "setUri" => Commanded(c).state = "PAUSED" /\ Commanded(c).uri = c.arg
         /\ pipe.state # "absent" /\ c.op = "play"  => Commanded(c).state = "PLAYING"
         /\ pipe.state # "absent" /\ c.op = "pause" => Commanded(c).state = "PAUSED"
         /\ pipe.state # "absent" /\ c.op = "stop"  => Commanded(c).state = "NULL"
         /\ pipe.state # "absent" /\ c.op # "setUri" => Commanded(c).uri = pipe.uri
         /\ Commanded(c) \in [state : {"absent", "NULL", "PAUSED", "PLAYING"},
                              uri   : Uri \union {NoUri, CastUri},
                              by    : {"none", "dlna", "cast"}]
<1>1. CASE c \in Command
  <2>1. pipe \in [state : {"absent", "NULL", "PAUSED", "PLAYING"},
                  uri   : Uri \union {NoUri, CastUri}, by : {"none", "dlna", "cast"}]
    BY DEF TypeOK
  <2>2. CASE c.op = "setUri"
    <3>1. Commanded(c) = IF pipe.state = "absent" THEN pipe ELSE [state |-> "PAUSED", uri |-> c.arg, by |-> "dlna"]
      BY <2>2 DEF Commanded
    <3>2. c.arg \in Uri
      BY <1>1, <2>2, Lambdas
    <3> QED BY <1>1, <2>1, <2>2, <3>1, <3>2
  <2>3. CASE c.op # "setUri"
    <3>1. c.op \in {"play", "pause", "stop"}
      BY <1>1, <2>3, Lambdas
    <3>2. Commanded(c) = IF pipe.state = "absent" THEN pipe ELSE
                           [pipe EXCEPT !.by = "dlna", !.state = CASE c.op = "play"  -> "PLAYING"
                               [] c.op = "pause" -> "PAUSED" [] c.op = "stop"  -> "NULL"]
      BY <3>1 DEF Commanded
    <3> QED BY <1>1, <2>1, <2>3, <3>1, <3>2
  <2> QED BY <2>2, <2>3
<1>2. CASE c \notin Command
  <2>1. c.op \in {"seek", "setVolume", "setMute"}
    BY <1>2, Lambdas DEF Lambda
  <2>2. Commanded(c) = pipe
    BY <2>1 DEF Commanded
  <2> QED BY <1>2, <2>1, <2>2 DEF TypeOK
<1> QED BY <1>1, <1>2

\* A lambda that runs leads where it led while it was posted.
LEMMA Running ==
  ASSUME TypeOK, PipeOfSomebody, Dispatch, NEW a \in Silence .. Full, NEW u \in Uri \union {NoUri},
         NEW t \in {"STOPPED", "PLAYING", "PAUSED"}
  PROVE  /\ Leads(t, posted, pipe, hud) => Leads(t, posted', pipe', hud')
         /\ UriLeads(u, posted, pipe) => UriLeads(u, posted', pipe')
         /\ SoundLeads(a, posted, pipe, level) => SoundLeads(a, posted', pipe', level')
<1> DEFINE c == posted[1]
<1>1. posted \in Seq(Lambda) /\ posted # <<>>
  BY DEF TypeOK, Dispatch, Lambda
<1>2. posted' \in Seq(Lambda) /\ Rest(posted, posted') /\ c \in Lambda
  BY <1>1, TakesOldest
<1>3. pipe' = Commanded(c) /\ hud' = (c.op = "play" \/ (hud /\ c.op # "stop"))
  BY DEF Dispatch, NextPosted
<1>4. IF c \in Sound THEN SetSound(c) ELSE level' = level
  BY DEF Dispatch, NextPosted
<1>t. hud \in BOOLEAN
  BY DEF TypeOK
<1> HIDE DEF c
<1>5. ASSUME NEW S, NEW G
      PROVE  /\ LastIs(posted, S, G) => LastIs(posted', S, G)
             /\ c \notin S /\ None(posted', S) => None(posted, S)
             /\ c \in S /\ None(posted', S) /\ LastIs(posted, S, G) => c \in G
  BY <1>1, <1>2, RestLast DEF c
<1>6. ASSUME Leads(t, posted, pipe, hud) PROVE Leads(t, posted', pipe', hud')
  <2> DEFINE G == {d \in Command : Recorded(d.op) = t}
  <2>1. LastIs(posted, Command, G) /\ (None(posted, Command) => Reached(t, pipe, hud))
    BY <1>6 DEF Leads
  <2>2. ASSUME None(posted', Command) PROVE Reached(t, pipe', hud')
    <3>1. CASE c \in Command
      <4>1. c \in G
        <5> HIDE DEF G
        <5> QED BY <1>5, <2>1, <2>2, <3>1
      <4>2. Recorded(c.op) = t /\ c.op \in {"setUri", "play", "pause", "stop"}
        BY <3>1, <4>1, Lambdas
      <4>3. pipe.state = "absent" => pipe'.by = "none"
        BY <1>2, <1>3, Commanding DEF PipeOfSomebody
      <4>4. pipe.state # "absent" =>
              /\ c.op = "setUri" => pipe'.state = "PAUSED"
              /\ c.op = "play" => pipe'.state = "PLAYING"
              /\ c.op = "pause" => pipe'.state = "PAUSED"
              /\ c.op = "stop" => pipe'.state = "NULL"
        BY <1>2, <1>3, Commanding
      <4>5. c.op = "play" => hud'
        BY <1>3
      <4>6. c.op = "play" <=> t = "PLAYING"
        BY <4>2 DEF Recorded
      <4>7. c.op = "pause" <=> t = "PAUSED"
        BY <4>2 DEF Recorded
      <4> QED BY <4>2, <4>3, <4>4, <4>5, <4>6, <4>7 DEF Reached
    <3>2. CASE c \notin Command
      <4>1. None(posted, Command)
        BY <1>5, <2>2, <3>2
      <4>2. pipe' = pipe
        BY <1>2, <1>3, <3>2, Commanding
      <4>3. c.op # "play" /\ c.op # "stop"
        BY <1>2, <3>2, Lambdas DEF Lambda
      <4>4. hud' = hud
        BY <1>3, <1>t, <4>3
      <4> QED BY <2>1, <4>1, <4>2, <4>4
    <3> QED BY <3>1, <3>2
  <2>3. LastIs(posted', Command, G)
    <3> HIDE DEF G
    <3> QED BY <1>5, <2>1
  <2> QED BY <2>2, <2>3 DEF Leads
<1>7. ASSUME UriLeads(u, posted, pipe) PROVE UriLeads(u, posted', pipe')
  <2>1. LastIs(posted, SetUris, {SetUri(u)})
        /\ (None(posted, SetUris) => (pipe.by = "dlna" /\ pipe.uri # CastUri => pipe.uri = u))
    BY <1>7 DEF UriLeads
  <2>2. ASSUME None(posted', SetUris), pipe'.by = "dlna", pipe'.uri # CastUri PROVE pipe'.uri = u
    <3>0. pipe.state # "absent"
      BY <1>2, <1>3, <2>2, Commanding DEF PipeOfSomebody
    <3>1. CASE c \in SetUris
      <4>1. c \in {SetUri(u)}
        BY <1>5, <2>1, <2>2, <3>1
      <4>2. c.op = "setUri" /\ c.arg = u
        BY <4>1 DEF SetUri
      <4> QED BY <1>2, <1>3, <3>0, <4>2, Commanding
    <3>2. CASE c \notin SetUris
      <4>1. None(posted, SetUris)
        BY <1>5, <2>2, <3>2
      <4>2. c.op # "setUri"
        BY <1>2, <3>2, Lambdas DEF Lambda
      <4>3. pipe'.uri = pipe.uri
        BY <1>2, <1>3, <3>0, <4>2, Commanding
      <4>4. pipe.by = "dlna"
        <5>1. pipe.by \in {"none", "dlna", "cast"}
          BY DEF TypeOK
        <5> QED BY <2>2, <3>0, <4>3, <5>1 DEF PipeOfSomebody
      <4> QED BY <2>1, <2>2, <4>1, <4>3, <4>4
    <3> QED BY <3>1, <3>2
  <2> QED BY <1>5, <2>1, <2>2 DEF UriLeads
<1>8. ASSUME SoundLeads(a, posted, pipe, level) PROVE SoundLeads(a, posted', pipe', level')
  <2> DEFINE G == {d \in Sound : Loudness(d) = a}
  <2>1. LastIs(posted, Sound, G) /\ (None(posted, Sound) => (pipe.state # "absent" => level = a))
    BY <1>8 DEF SoundLeads
  <2>2. ASSUME None(posted', Sound), pipe'.state # "absent" PROVE level' = a
    <3>0. pipe.state # "absent"
      BY <1>2, <1>3, <2>2, Commanding
    <3>1. CASE c \in Sound
      <4>1. c \in G
        <5> HIDE DEF G
        <5> QED BY <1>5, <2>1, <2>2, <3>1
      <4> QED BY <1>4, <3>0, <3>1, <4>1 DEF SetSound
    <3>2. CASE c \notin Sound
      BY <1>4, <1>5, <2>1, <2>2, <3>0, <3>2
    <3> QED BY <3>1, <3>2
  <2>3. LastIs(posted', Sound, G)
    <3> HIDE DEF G
    <3> QED BY <1>5, <2>1
  <2> QED BY <2>2, <2>3 DEF SoundLeads
<1> QED BY <1>6, <1>7, <1>8

-----------------------------------------------------------------------------
(* The invariant.                                                          *)

\* The parts of the invariant that speak of one thread are type correct.
LEMMA Workers ==
  ASSUME TypeOK, NEW w \in Worker
  PROVE  /\ worker[w] = Idle \/ worker[w] \in Command
         /\ worker[w] = Idle <=> worker[w].op \notin {"setUri", "play", "pause", "stop"}
  BY Lambdas DEF TypeOK

\* What a record says is an answer of GetTransportInfo.
LEMMA Answers == \A o : Recorded(o) \in {"STOPPED", "PLAYING", "PAUSED"}
  BY DEF Recorded

\* The initial state satisfies the invariant.
LEMMA InitOK == Init => IInv
<1> SUFFICES ASSUME Init PROVE IInv
  OBVIOUS
<1>1. TypeOK
  <2>1. posted \in Seq(Command \union Sound \union {Seek})
    BY EmptySeq DEF Init
  <2>2. {hud, muted, overlapped, raced} \subseteq BOOLEAN
    BY DEF Init
  <2>3. level \in Silence .. Full /\ asked \in Silence .. Unasked
    BY DEF Init, Silence, Full, Unasked
  <2> QED BY <2>1, <2>2, <2>3 DEF Init, TypeOK
<1>2. PipeOfSomebody /\ SoundFollows
  BY DEF Init, PipeOfSomebody, SoundFollows
<1>3. Len(posted) = 0
  BY EmptySeq DEF Init
<1>4. ASSUME NEW S, NEW G PROVE LastIs(posted, S, G)
  BY <1>3 DEF LastIs
<1>5. \A w \in Worker : worker[w].op = "none"
  BY Lambdas DEF Init
<1>6. StateFollows
  <2>1. Leads(transport, posted, pipe, hud)
    BY <1>4 DEF Leads, Reached, Init
  <2> QED BY <2>1, <1>5 DEF StateFollows, Init
<1>7. UriFollows
  <2>1. UriLeads(currentUri, posted, pipe)
    BY <1>4 DEF UriLeads, Init
  <2> QED BY <2>1, <1>5 DEF UriFollows
<1> QED BY <1>1, <1>2, <1>6, <1>7 DEF IInv

\* Begin: the command leads where it will be recorded, unless another one is under way.
LEMMA BeginOK ==
  ASSUME IInv, NEW w \in Worker, NEW c \in Command, Begin(w, c)
  PROVE  IInv'
<1> USE DEF IInv
<1>0. /\ worker[w] = Idle /\ worker' = [worker EXCEPT ![w] = c]
      /\ worker'[w] = c /\ \A v \in Worker \ {w} : worker'[v] = worker[v]
      /\ posted \in Seq(Lambda)
      /\ overlapped' = \E v \in Worker : worker[v] # Idle
      /\ raced' = IF c.op = "setUri" THEN \E v \in Worker : worker[v].op = "setUri" ELSE raced
      /\ UNCHANGED <<pipe, hud, muted, level, asked>>
  BY DEF Begin, heard, TypeOK, Lambda
<1>c. /\ c \in Lambda /\ c \notin Sound /\ c # Idle
      /\ c.op \in {"setUri", "play", "pause", "stop"}
      /\ c.op = "setUri" <=> c \in SetUris
      /\ c.op = "setUri" => c.arg \in Uri /\ c = SetUri(c.arg)
  BY Lambdas
<1>1. CASE c.op = "setUri"
  <2>1. posted' = posted /\ transport' = "STOPPED" /\ currentUri' = c.arg
    BY <1>1 DEF Begin, FirstHalf, Record, Recorded
  <2>2. TypeOK'
    <3>1. worker' \in [Worker -> Command \union {Idle}]
      BY <1>0 DEF TypeOK
    <3>2. {hud, muted, overlapped, raced}' \subseteq BOOLEAN
      BY <1>0 DEF TypeOK
    <3> QED BY <1>0, <1>c, <1>1, <2>1, <3>1, <3>2 DEF TypeOK
  <2>3. PipeOfSomebody' /\ SoundFollows'
    BY <1>0, <2>1 DEF PipeOfSomebody, SoundFollows
  <2>4. StateFollows'
    <3> SUFFICES ASSUME ~overlapped' PROVE StateFollows'
      BY DEF StateFollows
    <3>1. \A v \in Worker \ {w} : worker'[v] = Idle
      BY <1>0
    <3> QED BY <1>0, <1>c, <1>1, <2>1, <3>1, Lambdas DEF StateFollows
  <2>5. UriFollows'
    <3> SUFFICES ASSUME ~raced' PROVE UriFollows'
      BY DEF UriFollows
    <3>1. \A v \in Worker \ {w} : worker'[v].op # "setUri"
      BY <1>0, <1>1
    <3> QED BY <1>0, <1>1, <2>1, <3>1 DEF UriFollows
  <2> QED BY <2>2, <2>3, <2>4, <2>5
<1>2. CASE c.op # "setUri"
  <2>1. posted' = Append(posted, c) /\ transport' = transport /\ currentUri' = currentUri
    BY <1>2 DEF Begin, FirstHalf, Post
  <2>2. TypeOK'
    <3>1. worker' \in [Worker -> Command \union {Idle}]
      BY <1>0 DEF TypeOK
    <3>2. {hud, muted, overlapped, raced}' \subseteq BOOLEAN
      BY <1>0, <1>2 DEF TypeOK
    <3>3. posted' \in Seq(Lambda)
      BY <1>0, <1>c, <2>1, AppendProperties
    <3> QED BY <1>0, <2>1, <3>1, <3>2, <3>3 DEF TypeOK, Lambda
  <2>3. PipeOfSomebody' /\ SoundFollows'
    <3>1. asked # Unasked => SoundLeads(asked, posted', pipe, level)
      BY <1>0, <1>c, <2>1, Posting DEF SoundFollows
    <3> QED BY <1>0, <3>1 DEF PipeOfSomebody, SoundFollows
  <2>4. StateFollows'
    <3> SUFFICES ASSUME ~overlapped' PROVE StateFollows'
      BY DEF StateFollows
    <3>1. \A v \in Worker \ {w} : worker'[v] = Idle
      BY <1>0
    <3>2. Leads(Recorded(c.op), posted', pipe', hud')
      BY <1>0, <1>c, <2>1, Posting
    <3> QED BY <1>0, <1>c, <1>2, <3>1, <3>2, Lambdas DEF StateFollows
  <2>5. UriFollows'
    <3> SUFFICES ASSUME ~raced' PROVE UriFollows'
      BY DEF UriFollows
    <3>1. ~raced /\ worker[w].op # "setUri"
      BY <1>0, <1>2, Lambdas
    <3>2. \A v \in Worker : (worker'[v].op = "setUri" <=> worker[v].op = "setUri")
                            /\ (worker[v].op = "setUri" => worker'[v] = worker[v])
      BY <1>0, <1>2, <3>1
    <3>3. UriLeads(currentUri, posted, pipe) => UriLeads(currentUri, posted', pipe)
      BY <1>0, <1>c, <1>2, <2>1, Posting
    <3> QED BY <1>0, <2>1, <3>1, <3>2, <3>3 DEF UriFollows
  <2> QED BY <2>2, <2>3, <2>4, <2>5
<1> QED BY <1>1, <1>2

\* Finish: SetAVTransportURI posts what it recorded, the others record what they posted.
LEMMA FinishOK ==
  ASSUME IInv, NEW w \in Worker, Finish(w)
  PROVE  IInv'
<1> USE DEF IInv
<1> DEFINE c == worker[w]
<1>0. /\ c # Idle /\ worker' = [worker EXCEPT ![w] = Idle]
      /\ worker'[w] = Idle /\ \A v \in Worker \ {w} : worker'[v] = worker[v]
      /\ posted \in Seq(Lambda)
      /\ UNCHANGED <<pipe, hud, muted, level, asked, overlapped, raced>>
      /\ SecondHalf(c)
  BY DEF Finish, heard, TypeOK, Lambda
<1>c. /\ c \in Command /\ c \in Lambda /\ c \notin Sound
      /\ c.op \in {"setUri", "play", "pause", "stop"}
      /\ c.op = "setUri" <=> c \in SetUris
      /\ c.op = "setUri" => c.arg \in Uri /\ c = SetUri(c.arg)
  BY <1>0, Workers, Lambdas
<1>w. worker' \in [Worker -> Command \union {Idle}] /\ worker'[w].op = "none"
  BY <1>0, Lambdas DEF TypeOK
<1>a. ~overlapped => \A v \in Worker \ {w} : worker[v] = Idle
  BY <1>0 DEF StateFollows
<1> HIDE DEF c
<1>1. CASE c.op = "setUri"
  <2>1. posted' = Append(posted, c) /\ transport' = transport /\ currentUri' = currentUri
    BY <1>0, <1>1 DEF SecondHalf, Post
  <2>2. TypeOK'
    <3>3. posted' \in Seq(Lambda)
      BY <1>0, <1>c, <2>1, AppendProperties
    <3> QED BY <1>0, <1>w, <2>1, <3>3 DEF TypeOK, Lambda
  <2>3. PipeOfSomebody' /\ SoundFollows'
    <3>1. asked # Unasked => SoundLeads(asked, posted', pipe, level)
      BY <1>0, <1>c, <2>1, Posting DEF SoundFollows
    <3> QED BY <1>0, <3>1 DEF PipeOfSomebody, SoundFollows
  <2>4. StateFollows'
    <3> SUFFICES ASSUME ~overlapped' PROVE StateFollows'
      BY DEF StateFollows
    <3>1. \A v \in Worker : worker'[v] = Idle
      BY <1>0, <1>a
    <3>2. Leads(Recorded(c.op), posted', pipe', hud')
      BY <1>0, <1>c, <2>1, Posting
    <3>3. transport' = Recorded(c.op)
      BY <1>0, <1>1, <2>1 DEF StateFollows, Recorded, c
    <3> QED BY <1>w, <3>1, <3>2, <3>3, Lambdas DEF StateFollows
  <2>5. UriFollows'
    <3> SUFFICES ASSUME ~raced' PROVE UriFollows'
      BY DEF UriFollows
    <3>1. c.arg = currentUri /\ \A v \in Worker \ {w} : worker[v].op # "setUri"
      BY <1>0, <1>1 DEF UriFollows, c
    <3>2. UriLeads(c.arg, posted', pipe)
      BY <1>0, <1>c, <1>1, <2>1, Posting
    <3> QED BY <1>0, <1>w, <2>1, <3>1, <3>2 DEF UriFollows
  <2> QED BY <2>2, <2>3, <2>4, <2>5
<1>2. CASE c.op # "setUri"
  <2>1. posted' = posted /\ transport' = Recorded(c.op) /\ currentUri' = currentUri
    BY <1>0, <1>2 DEF SecondHalf, Record
  <2>2. TypeOK'
    BY <1>0, <1>w, <2>1, Answers DEF TypeOK
  <2>3. PipeOfSomebody' /\ SoundFollows'
    BY <1>0, <2>1 DEF PipeOfSomebody, SoundFollows
  <2>4. StateFollows'
    <3> SUFFICES ASSUME ~overlapped' PROVE StateFollows'
      BY DEF StateFollows
    <3>1. \A v \in Worker : worker'[v] = Idle
      BY <1>0, <1>a
    <3>2. Leads(transport', posted', pipe', hud')
      BY <1>0, <1>c, <1>2, <2>1 DEF StateFollows, c
    <3> QED BY <3>1, <3>2, Lambdas DEF StateFollows
  <2>5. UriFollows'
    <3>1. \A v \in Worker : (worker'[v].op = "setUri" <=> worker[v].op = "setUri")
                            /\ (worker[v].op = "setUri" => worker'[v] = worker[v])
      BY <1>0, <1>w, <1>2 DEF c
    <3> QED BY <1>0, <2>1, <3>1 DEF UriFollows
  <2> QED BY <2>2, <2>3, <2>4, <2>5
<1> QED BY <1>1, <1>2

\* Seek, SetVolume and SetMute: only the sound leads elsewhere.
LEMMA AskOK ==
  ASSUME IInv, NEW c \in Sound \union {Seek}, Ask(c)
  PROVE  IInv'
<1> USE DEF IInv
<1>0. /\ posted \in Seq(Lambda) /\ posted' = Append(posted, c)
      /\ asked' = IF c \in Sound THEN Loudness(c) ELSE asked
      /\ UNCHANGED <<transport, currentUri, worker, pipe, hud, muted, level, overlapped, raced>>
  BY DEF Ask, Post, TypeOK, Lambda
<1>1. c \in Lambda /\ c \notin Command /\ c \notin SetUris
  BY Lambdas
<1>2. /\ \A t : Leads(t, posted, pipe, hud) => Leads(t, posted', pipe, hud)
      /\ \A u : UriLeads(u, posted, pipe) => UriLeads(u, posted', pipe)
      /\ c \in Sound => SoundLeads(Loudness(c), posted', pipe, level)
      /\ c \notin Sound => \A a : SoundLeads(a, posted, pipe, level) => SoundLeads(a, posted', pipe, level)
  BY <1>0, <1>1, Posting
<1>3. TypeOK'
  <2>1. posted' \in Seq(Lambda)
    BY <1>0, <1>1, AppendProperties
  <2>2. asked' \in Silence .. Unasked
    <3>1. asked \in Silence .. Unasked
      BY DEF TypeOK
    <3>2. c \in Sound => Loudness(c) \in Silence .. Unasked
      BY Audible DEF Silence, Full, Unasked
    <3> QED BY <1>0, <3>1, <3>2
  <2> QED BY <1>0, <2>1, <2>2 DEF TypeOK, Lambda
<1>4. PipeOfSomebody' /\ SoundFollows'
  BY <1>0, <1>2 DEF PipeOfSomebody, SoundFollows
<1>5. StateFollows'
  BY <1>0, <1>2 DEF StateFollows
<1>6. UriFollows'
  BY <1>0, <1>2 DEF UriFollows
<1> QED BY <1>3, <1>4, <1>5, <1>6

\* Dispatch: what was led to is reached.
LEMMA DispatchOK ==
  ASSUME IInv, Dispatch
  PROVE  IInv'
<1> USE DEF IInv
<1> DEFINE c == posted[1]
<1>0. /\ posted \in Seq(Lambda) /\ posted' \in Seq(Lambda) /\ c \in Lambda
      /\ pipe' = Commanded(c) /\ hud' = (c.op = "play" \/ (hud /\ c.op # "stop"))
      /\ IF c \in Sound THEN SetSound(c) ELSE UNCHANGED <<muted, level>>
      /\ UNCHANGED <<transport, currentUri, worker, asked, overlapped, raced>>
  <2>1. posted \in Seq(Lambda)
    BY DEF TypeOK, Lambda
  <2> QED BY <2>1, TakesOldest DEF Dispatch, NextPosted
<1>1. /\ \A t \in {"STOPPED", "PLAYING", "PAUSED"} :
            Leads(t, posted, pipe, hud) => Leads(t, posted', pipe', hud')
      /\ \A u \in Uri \union {NoUri} : UriLeads(u, posted, pipe) => UriLeads(u, posted', pipe')
      /\ \A a \in Silence .. Full :
            SoundLeads(a, posted, pipe, level) => SoundLeads(a, posted', pipe', level')
  <2>1. "STOPPED" \in {"STOPPED", "PLAYING", "PAUSED"} /\ NoUri \in Uri \union {NoUri}
        /\ Silence \in Silence .. Full
    BY DEF Silence, Full
  <2> QED BY <2>1, Running
<1> HIDE DEF c
<1>2. TypeOK'
  <2>1. level' \in Silence .. Full
    BY <1>0, Audible DEF TypeOK, SetSound
  <2>2. {hud, muted, overlapped, raced}' \subseteq BOOLEAN
    BY <1>0 DEF TypeOK, SetSound
  <2>3. pipe' \in [state : {"absent", "NULL", "PAUSED", "PLAYING"},
                   uri   : Uri \union {NoUri, CastUri}, by : {"none", "dlna", "cast"}]
    BY <1>0, Commanding
  <2> QED BY <1>0, <2>1, <2>2, <2>3 DEF TypeOK, Lambda
<1>3. PipeOfSomebody'
  <2>1. CASE pipe.state = "absent" \/ c \notin Command
    BY <1>0, <2>1, Commanding DEF PipeOfSomebody
  <2>2. CASE pipe.state # "absent" /\ c \in Command
    BY <1>0, <2>2, Commanding DEF PipeOfSomebody
  <2> QED BY <2>1, <2>2
<1>4. StateFollows'
  BY <1>0, <1>1, Answers DEF StateFollows, TypeOK
<1>5. UriFollows'
  BY <1>0, <1>1 DEF UriFollows, TypeOK
<1>6. SoundFollows'
  <2>1. asked # Unasked => asked \in Silence .. Full
    BY DEF TypeOK, Silence, Full, Unasked
  <2> QED BY <1>0, <1>1, <2>1 DEF SoundFollows
<1> QED BY <1>2, <1>3, <1>4, <1>5, <1>6

\* A LOAD takes the pipeline: nothing is claimed of it until DLNA commands it.
LEMMA CastLoadOK ==
  ASSUME IInv, CastLoad
  PROVE  IInv'
<1> USE DEF IInv
<1>0. /\ pipe' = [state |-> "PLAYING", uri |-> CastUri, by |-> "cast"]
      /\ pipe'.state = "PLAYING" /\ pipe'.uri = CastUri /\ pipe'.by = "cast"
      /\ level' = Full /\ asked' = Unasked
      /\ UNCHANGED <<transport, currentUri, worker, posted, hud, muted, overlapped, raced>>
  BY DEF CastLoad
<1>1. /\ \A t : Leads(t, posted, pipe, hud) => Leads(t, posted, pipe', hud)
      /\ \A u : UriLeads(u, posted, pipe) => UriLeads(u, posted, pipe')
  BY <1>0 DEF Leads, Reached, UriLeads
<1>2. TypeOK'
  <2>1. level' \in Silence .. Full /\ asked' \in Silence .. Unasked
    BY <1>0 DEF Silence, Full, Unasked
  <2> QED BY <1>0, <2>1 DEF TypeOK
<1>3. PipeOfSomebody' /\ SoundFollows'
  BY <1>0 DEF PipeOfSomebody, SoundFollows
<1>4. StateFollows'
  BY <1>0, <1>1 DEF StateFollows
<1>5. UriFollows'
  BY <1>0, <1>1 DEF UriFollows
<1> QED BY <1>2, <1>3, <1>4, <1>5

\* The button sets the volume ahead of what is posted; then nothing is asked.
LEMMA ToggleMuteOK ==
  ASSUME IInv, ToggleMute
  PROVE  IInv'
<1> USE DEF IInv
<1> DEFINE c == [op |-> "setMute", arg |-> IF muted THEN 0 ELSE 1]
<1>0. /\ SetSound(c)
      /\ asked' = IF \E i \in DOMAIN posted : posted[i] \in Sound THEN Unasked ELSE level'
      /\ UNCHANGED <<transport, currentUri, worker, posted, pipe, hud, overlapped, raced>>
  BY DEF ToggleMute
<1>1. c \in Sound
  BY DEF Sound
<1> HIDE DEF c
<1>2. level' \in Silence .. Full /\ muted' \in BOOLEAN
  BY <1>0, <1>1, Audible DEF SetSound, TypeOK
<1>3. asked' \in Silence .. Unasked
  BY <1>0, <1>2 DEF Silence, Full, Unasked
<1>4. TypeOK'
  BY <1>0, <1>2, <1>3 DEF TypeOK
<1>5. PipeOfSomebody'
  BY <1>0 DEF PipeOfSomebody
<1>6. SoundFollows'
  <2> SUFFICES ASSUME asked' # Unasked PROVE SoundLeads(asked', posted', pipe', level')
    BY DEF SoundFollows
  <2>1. asked' = level' /\ \A i \in DOMAIN posted : posted[i] \notin Sound
    BY <1>0
  <2>2. DOMAIN posted = 1 .. Len(posted)
    BY LenProperties DEF TypeOK
  <2> QED BY <1>0, <2>1, <2>2 DEF SoundLeads, LastIs
<1>7. StateFollows' /\ UriFollows'
  BY <1>0 DEF StateFollows, UriFollows
<1> QED BY <1>4, <1>5, <1>6, <1>7

\* The invariant holds of every reachable state.
THEOREM Invariance == Spec => []IInv
<1>1. IInv /\ [Next]_vars => IInv'
  <2> SUFFICES ASSUME IInv, [Next]_vars PROVE IInv'
    OBVIOUS
  <2>1. CASE \E w \in Worker : \E c \in Command : Begin(w, c)
    BY <2>1, BeginOK
  <2>2. CASE \E w \in Worker : Finish(w)
    BY <2>2, FinishOK
  <2>3. CASE \E c \in Sound \union {Seek} : Ask(c)
    BY <2>3, AskOK
  <2>4. CASE Dispatch
    BY <2>4, DispatchOK
  <2>5. CASE CastLoad
    BY <2>5, CastLoadOK
  <2>6. CASE ToggleMute
    BY <2>6, ToggleMuteOK
  <2>7. CASE UNCHANGED vars
    BY <2>7 DEF IInv, TypeOK, PipeOfSomebody, StateFollows, UriFollows, SoundFollows, vars, heard
  <2> QED BY <2>1, <2>2, <2>3, <2>4, <2>5, <2>6, <2>7 DEF Next
<1> QED BY <1>1, InitOK, PTL DEF Spec

\* DlnaHandler's and the pipeline's state stays within its types, for any number
\* of libupnp threads, URIs and volumes.
THEOREM TypeCorrect == Spec => []TypeOK
<1>1. IInv => TypeOK
  BY DEF IInv
<1> QED BY <1>1, Invariance, PTL

\* Whatever order the halves of the actions and the lambdas run in: once all have
\* run, the pipeline does what the handler answers, has the URI it answers and is as
\* loud as it was asked to be, with the exceptions TransportIsPipeline names.
THEOREM AnswersAreTrue == Spec => []TransportIsPipeline
<1>1. IInv => TransportIsPipeline
  <2> SUFFICES ASSUME IInv PROVE TransportIsPipeline
    OBVIOUS
  <2>1. ASSUME Settled, NEW S PROVE None(posted, S)
    BY <2>1, EmptySeq DEF Settled, None
  <2>2. StateIsPipeline
    <3> SUFFICES ASSUME Settled, ~overlapped, pipe.by = "dlna" PROVE StateIsPipeline
      BY DEF StateIsPipeline
    <3>1. Reached(transport, pipe, hud)
      BY <2>1 DEF IInv, StateFollows, Leads, Settled
    <3>2. transport \in {"STOPPED", "PLAYING", "PAUSED"}
      BY DEF IInv, TypeOK
    <3> QED BY <3>1, <3>2 DEF Reached, StateIsPipeline
  <2>3. UriIsPipeline
    <3> SUFFICES ASSUME Settled, ~raced PROVE UriIsPipeline
      BY DEF UriIsPipeline
    <3>1. \A w \in Worker : worker[w].op # "setUri"
      BY Lambdas DEF Settled
    <3> QED BY <2>1, <3>1 DEF IInv, UriFollows, UriLeads, UriIsPipeline
  <2>4. SoundIsPipeline
    BY <2>1 DEF IInv, SoundFollows, SoundLeads, SoundIsPipeline
  <2> QED BY <2>2, <2>3, <2>4 DEF TransportIsPipeline
<1> QED BY <1>1, Invariance, PTL

\* A controller that reads PLAYING finds the HUD on once all lambdas have run.
THEOREM HudFollows == Spec => []HudShowsPlaying
<1>1. IInv => HudShowsPlaying
  <2> SUFFICES ASSUME IInv, Settled, ~overlapped, transport = "PLAYING" PROVE hud
    BY DEF HudShowsPlaying
  <2>1. None(posted, Command)
    BY EmptySeq DEF Settled, None
  <2> QED BY <2>1 DEF IInv, StateFollows, Leads, Reached, Settled
<1> QED BY <1>1, Invariance, PTL
=============================================================================
