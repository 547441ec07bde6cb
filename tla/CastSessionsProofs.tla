------------------------- MODULE CastSessionsProofs -------------------------
(***************************************************************************)
(* For any number of Cast connections, messages and posted events: what a  *)
(* sender asks for happens in its order and after the user's consent, and  *)
(* the pipeline the sessions share never outlives the one it was built for.*)
(***************************************************************************)
EXTENDS CastSessions, SequenceTheorems, TLAPS

USE SessionAssumption

-----------------------------------------------------------------------------
(* The inductive invariant.                                                *)

\* Held messages are those of sessions nobody answered for: an approval replays
\* them to the last before anything else is dispatched.
HeldForApproval ==
  /\ \A s \in Session : approved[s] /\ replaying # s => held[s] = <<>>
  /\ replaying # NoSession => approved[replaying] /\ stage[replaying] = "open"

\* A prompt is open for undecided sessions only, and who was denied had connected.
OneAnswer ==
  \A s \in Session :
    /\ approvalPending[s] => ~approved[s] /\ ~rejected[s]
    /\ approved[s] => consent[s] = "allow"
    /\ rejected[s] => stage[s] # "none"

\* Every effect is that of an approved session.
EffectsApproved ==
  \A s \in Session :
    done[s] # <<>> \/ appLaunched[s] \/ didConnect[s] \/ streaming[s] => approved[s]

Finished(s) == [kind |-> "finished", of |-> s]

\* A session that was denied or has lost its socket has posted its own removal.
RemovalPosted ==
  \A s \in Session :
    stage[s] = "open" /\ (rejected[s] \/ ~socket[s]) =>
      \E i \in 1 .. Len(events) : events[i] = Finished(s)

IInv ==
  /\ TypeOK
  /\ HeldForApproval
  /\ OneAnswer
  /\ EffectsApproved
  /\ GatedInOrder
  /\ NoOrphanPipeline
  /\ RemovalPosted

-----------------------------------------------------------------------------
(* Posted events.                                                          *)

\* The new queue is the old one and something behind it.
Behind(old, new) ==
  new \in Seq(Event) /\ Len(old) <= Len(new) /\ \A i \in 1 .. Len(old) : new[i] = old[i]

\* Posting appends.
LEMMA PostGives ==
  ASSUME events \in Seq(Event), NEW s \in Session,
         NEW kinds \in Seq({"hudOn", "hudOff", "finished"})
  PROVE  /\ Behind(events, Post(kinds, s))
         /\ Len(Post(kinds, s)) = Len(events) + Len(kinds)
         /\ \A i \in 1 .. Len(kinds) : Post(kinds, s)[Len(events) + i] = [kind |-> kinds[i], of |-> s]
<1> DEFINE new == [i \in DOMAIN kinds |-> [kind |-> kinds[i], of |-> s]]
<1>1. DOMAIN kinds = 1 .. Len(kinds) /\ Len(kinds) \in Nat
  OBVIOUS
<1>2. \A i \in 1 .. Len(kinds) : [kind |-> kinds[i], of |-> s] \in Event
  BY DEF Event
<1>3. new \in Seq(Event) /\ Len(new) = Len(kinds)
  BY <1>1, <1>2
<1>4. \A i \in 1 .. Len(kinds) : new[i] = [kind |-> kinds[i], of |-> s]
  BY <1>1
<1> HIDE DEF new
<1> QED BY <1>1, <1>3, <1>4 DEF Post, Behind

\* A farewell ends in the session's own removal.
LEMMA FarewellGives ==
  ASSUME TypeOK, NEW s \in Session
  PROVE  /\ Behind(events, Farewell(s))
         /\ \E i \in 1 .. Len(Farewell(s)) : Farewell(s)[i] = Finished(s)
<1>1. events \in Seq(Event) /\ Len(events) \in Nat
  BY DEF TypeOK
<1>2. CASE didConnect[s]
  <2> DEFINE kinds == <<"hudOff", "finished">>
  <2>1. /\ kinds \in Seq({"hudOn", "hudOff", "finished"}) /\ Len(kinds) = 2 /\ kinds[2] = "finished"
        /\ Farewell(s) = Post(kinds, s)
    BY <1>2 DEF Farewell
  <2> HIDE DEF kinds
  <2>2. /\ Behind(events, Farewell(s)) /\ Len(Farewell(s)) = Len(events) + 2
        /\ Farewell(s)[Len(events) + 2] = Finished(s)
    BY <1>1, <2>1, PostGives DEF Finished
  <2>3. Len(events) + 2 \in 1 .. Len(Farewell(s))
    BY <1>1, <2>2
  <2> QED BY <2>2, <2>3
<1>3. CASE ~didConnect[s]
  <2> DEFINE kinds == <<"finished">>
  <2>1. /\ kinds \in Seq({"hudOn", "hudOff", "finished"}) /\ Len(kinds) = 1 /\ kinds[1] = "finished"
        /\ Farewell(s) = Post(kinds, s)
    BY <1>3 DEF Farewell
  <2> HIDE DEF kinds
  <2>2. /\ Behind(events, Farewell(s)) /\ Len(Farewell(s)) = Len(events) + 1
        /\ Farewell(s)[Len(events) + 1] = Finished(s)
    BY <1>1, <2>1, PostGives DEF Finished
  <2>3. Len(events) + 1 \in 1 .. Len(Farewell(s))
    BY <1>1, <2>2
  <2> QED BY <2>2, <2>3
<1> QED BY <1>2, <1>3

\* A removal stays posted while only posting goes on.
LEMMA RemovalStays ==
  ASSUME TypeOK, NEW new, Behind(events, new), NEW s \in Session,
         \E i \in 1 .. Len(events) : events[i] = Finished(s)
  PROVE  \E i \in 1 .. Len(new) : new[i] = Finished(s)
<1>1. PICK i \in 1 .. Len(events) : events[i] = Finished(s)
  OBVIOUS
<1>2. Len(events) \in Nat /\ Len(new) \in Nat /\ Len(events) <= Len(new) /\ new[i] = events[i]
  BY DEF TypeOK, Behind
<1>3. i \in 1 .. Len(new)
  BY <1>2
<1> QED BY <1>1, <1>2, <1>3

\* The first posted event, and the rest of the queue.
LEMMA HeadAndTail ==
  ASSUME TypeOK, events # <<>>
  PROVE  /\ Head(events) \in Event /\ Tail(events) \in Seq(Event) /\ events[1] = Head(events)
         /\ \A s \in Session :
              /\ \E i \in 1 .. Len(events) : events[i] = Finished(s)
              /\ Head(events) # Finished(s)
              => \E i \in 1 .. Len(Tail(events)) : Tail(events)[i] = Finished(s)
<1>1. events \in Seq(Event) /\ Len(events) \in Nat /\ Len(events) > 0
  BY DEF TypeOK
<1>2. /\ Head(events) \in Event /\ Tail(events) \in Seq(Event) /\ events[1] = Head(events)
      /\ Len(Tail(events)) = Len(events) - 1
      /\ \A i \in 1 .. Len(Tail(events)) : Tail(events)[i] = events[i + 1]
  BY <1>1
<1>3. ASSUME NEW s \in Session, NEW i \in 1 .. Len(events), events[i] = Finished(s),
             Head(events) # Finished(s)
      PROVE  \E j \in 1 .. Len(Tail(events)) : Tail(events)[j] = Finished(s)
  <2>1. i # 1
    BY <1>2, <1>3
  <2>2. i - 1 \in 1 .. Len(Tail(events)) /\ i = (i - 1) + 1
    BY <1>1, <1>2, <2>1
  <2>3. Tail(events)[i - 1] = events[i]
    BY <1>2, <2>2
  <2> QED BY <1>3, <2>2, <2>3
<1> QED BY <1>2, <1>3

-----------------------------------------------------------------------------
(* The effect of a message.                                                *)

\* Only s changes, and f stays a flag of every session.
FlagOf(f, new, s) ==
  new \in [Session -> BOOLEAN] /\ \A t \in Session : t # s => new[t] = f[t]

\* Stopping s's stream clears the shared pipeline with it: nobody is orphaned.
LEMMA StopStreamingGives ==
  ASSUME TypeOK, NoOrphanPipeline, NEW s \in Session, StopStreaming(s)
  PROVE  /\ FlagOf(streaming, streaming', s) /\ ~streaming'[s]
         /\ castPipeline' \in {castPipeline, NoSession}
         /\ castPipeline' # NoSession => streaming'[castPipeline']
  BY DEF StopStreaming, FlagOf, TypeOK, NoOrphanPipeline

\* An offer builds s's pipeline, or leaves none.
LEMMA OnOfferGives ==
  ASSUME TypeOK, NoOrphanPipeline, NEW s \in Session, OnOffer(s)
  PROVE  /\ FlagOf(streaming, streaming', s)
         /\ castPipeline' \in {castPipeline, s, NoSession}
         /\ castPipeline' # NoSession => streaming'[castPipeline']
  BY DEF OnOffer, FlagOf, TypeOK, NoOrphanPipeline

\* What any message may do: effects on its own session only, and those of a message
\* that is not gated start nothing.
LEMMA ExecuteGives ==
  ASSUME TypeOK, NoOrphanPipeline, NEW s \in Session, NEW m \in Message, Execute(s, m)
  PROVE  /\ FlagOf(appLaunched, appLaunched', s)
         /\ FlagOf(didConnect, didConnect', s)
         /\ FlagOf(streaming, streaming', s)
         /\ castPipeline' \in {castPipeline, s, NoSession}
         /\ castPipeline' # NoSession => streaming'[castPipeline']
         /\ playing' \in Nat
         /\ Behind(events, events')
         /\ m \notin Gated => /\ appLaunched'[s] => appLaunched[s]
                            /\ didConnect'[s] = didConnect[s]
                            /\ ~streaming'[s]
<1>1. /\ appLaunched \in [Session -> BOOLEAN] /\ didConnect \in [Session -> BOOLEAN]
      /\ streaming \in [Session -> BOOLEAN] /\ events \in Seq(Event) /\ playing \in Nat
      /\ FlagOf(appLaunched, appLaunched, s) /\ FlagOf(didConnect, didConnect, s)
      /\ FlagOf(streaming, streaming, s) /\ Behind(events, events)
      /\ castPipeline # NoSession => streaming[castPipeline]
  BY DEF TypeOK, FlagOf, Behind, NoOrphanPipeline
<1>2. CASE m = "LAUNCH"
  <2>1. Launch(s)
    BY <1>2 DEF Execute
  <2>2. FlagOf(appLaunched, appLaunched', s)
    BY <1>1, <2>1 DEF Launch, FlagOf
  <2> QED BY <1>1, <1>2, <2>1, <2>2 DEF Launch, media, Gated
<1>3. CASE m = "CONNECT"
  <2>1. ConnectTransport(s)
    BY <1>3 DEF Execute
  <2>2. FlagOf(didConnect, didConnect', s)
    BY <1>1, <2>1 DEF ConnectTransport, FlagOf
  <2>3. Behind(events, events')
    <3>1. <<"hudOn">> \in Seq({"hudOn", "hudOff", "finished"})
      OBVIOUS
    <3>2. Behind(events, Post(<<"hudOn">>, s))
      BY <1>1, <3>1, PostGives
    <3> QED BY <2>1, <3>2 DEF ConnectTransport
  <2> QED BY <1>1, <1>3, <2>1, <2>2, <2>3 DEF ConnectTransport, media, Gated
<1>4. CASE m = "LOAD"
  <2>1. Load(s)
    BY <1>4 DEF Execute
  <2> QED BY <1>1, <1>4, <2>1 DEF Load, Gated
<1>5. CASE m = "OFFER"
  <2>1. Offer(s)
    BY <1>5 DEF Execute
  <2> QED BY <1>1, <1>5, <2>1, OnOfferGives DEF Offer, Gated
<1>6. CASE m = "STOP"
  <2>1. Stop(s)
    BY <1>6 DEF Execute
  <2>2. FlagOf(appLaunched, appLaunched', s) /\ ~appLaunched'[s]
    BY <1>1, <2>1 DEF Stop, FlagOf
  <2> QED BY <1>1, <1>6, <2>1, <2>2, StopStreamingGives DEF Stop
<1>7. CASE m = "CLOSE"
  <2>1. Close(s)
    BY <1>7 DEF Execute
  <2> QED BY <1>1, <1>7, <2>1, StopStreamingGives, FarewellGives DEF Close
<1> QED BY <1>2, <1>3, <1>4, <1>5, <1>6, <1>7 DEF Message, Gated

-----------------------------------------------------------------------------
(* The steps.                                                              *)

\* No connection, nothing held, nothing shown.
LEMMA InitOK == Init => IInv
<1> SUFFICES ASSUME Init PROVE IInv
  OBVIOUS
<1>1. TypeOK
  BY DEF Init, TypeOK, Flow
<1>2. GatedInOrder
  BY DEF Init, GatedInOrder
<1> QED BY <1>1, <1>2 DEF Init, IInv, HeldForApproval, OneAnswer, EffectsApproved, NoOrphanPipeline,
           RemovalPosted

\* The HUD plays no part in the invariant.
LEMMA HudKeeps ==
  ASSUME IInv, hud' \in Session \union {NoSession, "Other"},
         UNCHANGED <<stage, socket, gate, didConnect, appLaunched, media, replaying, events, history>>
  PROVE  IInv'
<1> USE DEF gate, media, history
<1>1. TypeOK'
  BY DEF IInv, TypeOK
<1> QED BY <1>1 DEF IInv, HeldForApproval, OneAnswer, EffectsApproved, GatedInOrder, NoOrphanPipeline,
           RemovalPosted

\* A connection is taken or refused; it has no effect yet.
LEMMA PendingConnectionKeeps == ASSUME IInv, NEW s \in Session, OnPendingConnection(s) PROVE IInv'
<1>1. /\ stage[s] = "none" /\ Idle
      /\ stage' = [stage EXCEPT ![s] = IF Refused THEN "gone" ELSE "open"]
      /\ socket' = [socket EXCEPT ![s] = ~Refused]
      /\ UNCHANGED <<gate, didConnect, appLaunched, media, replaying, hud, events, history>>
  BY DEF OnPendingConnection
<1> USE DEF gate, media, history
<1>2. TypeOK'
  BY <1>1 DEF IInv, TypeOK
<1>3. HeldForApproval' /\ NoOrphanPipeline'
  BY <1>1 DEF IInv, HeldForApproval, NoOrphanPipeline, TypeOK, Idle
<1>4. RemovalPosted'
  <2> SUFFICES ASSUME NEW t \in Session, stage'[t] = "open", rejected'[t] \/ ~socket'[t]
               PROVE  \E i \in 1 .. Len(events) : events[i] = Finished(t)
    BY <1>1 DEF RemovalPosted
  <2>1. t # s
    BY <1>1 DEF IInv, TypeOK, OneAnswer
  <2> QED BY <1>1, <2>1 DEF IInv, TypeOK, RemovalPosted
<1>5. OneAnswer'
  BY <1>1 DEF IInv, TypeOK, OneAnswer
<1> QED BY <1>1, <1>2, <1>3, <1>4, <1>5 DEF IInv, EffectsApproved, GatedInOrder

\* A message is noted at the end if it is gated.
LEMMA NoteGives ==
  ASSUME NEW f \in Flow, NEW s \in Session, NEW m \in Message
  PROVE  /\ Note(f, s, m) \in Flow
         /\ \A t \in Session : t # s => Note(f, s, m)[t] = f[t]
         /\ Note(f, s, m)[s] = IF m \in Gated THEN Append(f[s], m) ELSE f[s]
  BY DEF Note, Flow

\* What comes in last is held last.
LEMMA AppendToConcat ==
  ASSUME NEW d \in Seq(Gated), NEW h \in Seq(Gated), NEW m \in Gated
  PROVE  /\ Append(d \o h, m) = d \o Append(h, m)
         /\ d \o <<>> = d
<1>1. d \o h \in Seq(Gated) /\ Len(d \o h) = Len(d) + Len(h)
  OBVIOUS
<1>2. Append(d \o h, m) \in Seq(Gated) /\ d \o Append(h, m) \in Seq(Gated)
  BY <1>1
<1>3. /\ Len(Append(d \o h, m)) = Len(d \o Append(h, m))
      /\ \A i \in 1 .. Len(Append(d \o h, m)) : Append(d \o h, m)[i] = (d \o Append(h, m))[i]
  BY <1>1
<1>4. Append(d \o h, m) = d \o Append(h, m)
  BY <1>2, <1>3, SeqEqual
<1> QED BY <1>4, ConcatEmptySeq

\* A message that may be executed: it is not gated or its session is approved.
LEMMA ExecuteKeeps ==
  ASSUME IInv, NEW s \in Session, NEW m \in Message, Execute(s, m),
         stage[s] = "open", m \in Gated => approved[s], done' = Note(done, s, m),
         UNCHANGED <<stage, socket, approved, approvalPending, rejected, consent, hud>>,
         arrived' \in Flow, held' \in Flow, replaying' \in Session \union {NoSession}
  PROVE  /\ TypeOK' /\ OneAnswer' /\ EffectsApproved' /\ NoOrphanPipeline' /\ RemovalPosted'
<1>1. /\ FlagOf(appLaunched, appLaunched', s)
      /\ FlagOf(didConnect, didConnect', s)
      /\ FlagOf(streaming, streaming', s)
      /\ castPipeline' \in {castPipeline, s, NoSession}
      /\ castPipeline' # NoSession => streaming'[castPipeline']
      /\ playing' \in Nat
      /\ Behind(events, events')
      /\ m \notin Gated => /\ appLaunched'[s] => appLaunched[s]
                         /\ didConnect'[s] = didConnect[s]
                         /\ ~streaming'[s]
  BY ExecuteGives DEF IInv
<1>2. /\ done' \in Flow /\ \A t \in Session : t # s => done'[t] = done[t]
      /\ m \notin Gated => done'[s] = done[s]
  <2>1. done \in Flow
    BY DEF IInv, TypeOK
  <2> QED BY <2>1, NoteGives
<1>3. TypeOK'
  BY <1>1, <1>2 DEF IInv, TypeOK, FlagOf, Behind
<1>4. OneAnswer'
  BY DEF IInv, OneAnswer
<1>5. EffectsApproved'
  <2> SUFFICES ASSUME NEW t \in Session,
                      done'[t] # <<>> \/ appLaunched'[t] \/ didConnect'[t] \/ streaming'[t]
               PROVE  approved[t]
    BY DEF EffectsApproved
  <2>1. CASE t = s
    BY <1>1, <1>2, <2>1 DEF IInv, EffectsApproved
  <2>2. CASE t # s
    BY <1>1, <1>2, <2>2 DEF IInv, EffectsApproved, FlagOf
  <2> QED BY <2>1, <2>2
<1>6. NoOrphanPipeline'
  BY <1>1 DEF IInv, NoOrphanPipeline
<1>7. RemovalPosted'
  <2> SUFFICES ASSUME NEW t \in Session, stage[t] = "open", rejected[t] \/ ~socket[t]
               PROVE  \E i \in 1 .. Len(events') : events'[i] = Finished(t)
    BY DEF RemovalPosted, Finished
  <2> QED BY <1>1, RemovalStays DEF IInv, RemovalPosted
<1> QED BY <1>3, <1>4, <1>5, <1>6, <1>7

\* A message arrives: dropped, held for the approval, or executed.
LEMMA DispatchMessageKeeps ==
  ASSUME IInv, NEW s \in Session, NEW m \in Message, NEW auto \in BOOLEAN, DispatchMessage(s, m, auto)
  PROVE  IInv'
<1>1. /\ Idle /\ stage[s] = "open" /\ arrived' = Note(arrived, s, m)
      /\ UNCHANGED <<stage, socket, hud>>
      /\ arrived \in Flow /\ held \in Flow /\ done \in Flow
  BY DEF DispatchMessage, IInv, TypeOK
<1>2. /\ arrived' \in Flow /\ \A t \in Session : t # s => arrived'[t] = arrived[t]
      /\ arrived'[s] = IF m \in Gated THEN Append(arrived[s], m) ELSE arrived[s]
  BY <1>1, NoteGives
<1>3. CASE /\ Rejected(s)
           /\ UNCHANGED <<gate, didConnect, appLaunched, media, events, replaying, done, consent>>
  <2> USE DEF gate, media
  <2>1. TypeOK'
    BY <1>1, <1>2, <1>3 DEF IInv, TypeOK
  <2>2. GatedInOrder'
    BY <1>2, <1>3 DEF IInv, GatedInOrder, Rejected
  <2> QED BY <1>1, <1>3, <2>1, <2>2 DEF IInv, HeldForApproval, OneAnswer, EffectsApproved,
             NoOrphanPipeline, RemovalPosted
<1>4. CASE /\ ~Rejected(s) /\ ~approved[s] /\ RequiresApproval(m)
           /\ auto => ~approvalPending[s]
           /\ held' = [held EXCEPT ![s] = Append(@, m)]
           /\ IF auto
              THEN /\ approved' = [approved EXCEPT ![s] = TRUE]
                   /\ consent' = [consent EXCEPT ![s] = "allow"]
                   /\ replaying' = s
                   /\ UNCHANGED approvalPending
              ELSE /\ approvalPending' = [approvalPending EXCEPT ![s] = TRUE]
                   /\ UNCHANGED <<approved, consent, replaying>>
           /\ UNCHANGED <<rejected, didConnect, appLaunched, media, events, done>>
  <2> USE DEF media
  <2>1. m \in Gated /\ ~rejected[s]
    BY <1>4 DEF RequiresApproval, Rejected
  <2>2. held' \in Flow /\ held'[s] = Append(held[s], m) /\ \A t \in Session : t # s => held'[t] = held[t]
    BY <1>1, <1>4, <2>1 DEF Flow
  <2>3. TypeOK'
    BY <1>1, <1>2, <1>4, <2>2 DEF IInv, TypeOK
  <2>4. HeldForApproval'
    BY <1>1, <1>4, <2>2 DEF IInv, HeldForApproval, TypeOK, Idle
  <2>5. OneAnswer'
    BY <1>1, <1>4, <2>1 DEF IInv, OneAnswer, TypeOK
  <2>6. EffectsApproved'
    BY <1>4 DEF IInv, EffectsApproved, TypeOK
  <2>7. GatedInOrder'
    <3> SUFFICES ASSUME NEW t \in Session, ~rejected[t] PROVE arrived'[t] = done[t] \o held'[t]
      BY <1>4 DEF GatedInOrder
    <3>1. arrived[t] = done[t] \o held[t]
      BY DEF IInv, GatedInOrder
    <3>2. done[s] \in Seq(Gated) /\ held[s] \in Seq(Gated)
      BY <1>1 DEF Flow
    <3>3. CASE t = s
      <4>1. arrived'[s] = Append(done[s] \o held[s], m)
        BY <1>2, <2>1, <3>1, <3>3
      <4>2. Append(done[s] \o held[s], m) = done[s] \o Append(held[s], m)
        BY <2>1, <3>2, AppendToConcat
      <4> QED BY <2>2, <3>3, <4>1, <4>2
    <3> QED BY <1>2, <2>2, <3>1, <3>3
  <2>8. NoOrphanPipeline' /\ RemovalPosted'
    BY <1>1, <1>4 DEF IInv, NoOrphanPipeline, RemovalPosted
  <2> QED BY <2>3, <2>4, <2>5, <2>6, <2>7, <2>8 DEF IInv
<1>5. CASE /\ ~Rejected(s) /\ (approved[s] \/ ~RequiresApproval(m))
           /\ Execute(s, m)
           /\ done' = Note(done, s, m)
           /\ UNCHANGED <<gate, replaying, consent>>
  <2> USE DEF gate
  <2>1. m \in Gated => approved[s] /\ held[s] = <<>>
    BY <1>1, <1>5 DEF IInv, HeldForApproval, Idle, RequiresApproval
  <2>2. /\ TypeOK' /\ OneAnswer' /\ EffectsApproved' /\ NoOrphanPipeline' /\ RemovalPosted'
    <3>1. held' \in Flow /\ replaying' \in Session \union {NoSession}
      BY <1>5 DEF IInv, TypeOK
    <3> QED BY <1>1, <1>2, <1>5, <2>1, <3>1, ExecuteKeeps
  <2>3. HeldForApproval'
    BY <1>1, <1>5 DEF IInv, HeldForApproval
  <2>4. GatedInOrder'
    <3> SUFFICES ASSUME NEW t \in Session, ~rejected[t] PROVE arrived'[t] = done'[t] \o held[t]
      BY <1>5 DEF GatedInOrder
    <3>1. arrived[t] = done[t] \o held[t]
      BY DEF IInv, GatedInOrder
    <3>2. /\ \A u \in Session : u # s => done'[u] = done[u]
          /\ done'[s] = IF m \in Gated THEN Append(done[s], m) ELSE done[s]
      BY <1>1, <1>5, NoteGives
    <3>3. CASE t = s /\ m \in Gated
      <4>1. done[s] \in Seq(Gated) /\ Append(done[s], m) \in Seq(Gated)
        BY <1>1, <3>3 DEF Flow
      <4>2. done[s] \o <<>> = done[s] /\ Append(done[s], m) \o <<>> = Append(done[s], m)
        BY <4>1, ConcatEmptySeq
      <4>3. arrived'[s] = Append(done[s], m) /\ done'[s] = Append(done[s], m)
        BY <1>2, <2>1, <3>1, <3>2, <3>3, <4>2
      <4> QED BY <2>1, <3>3, <4>2, <4>3
    <3> QED BY <1>2, <3>1, <3>2, <3>3
  <2> QED BY <2>2, <2>3, <2>4 DEF IInv
<1> QED BY <1>3, <1>4, <1>5 DEF DispatchMessage

\* The user's Allow: the messages held until now are replayed.
LEMMA ApproveKeeps == ASSUME IInv, NEW s \in Session, Approve(s) PROVE IInv'
<1>1. /\ Idle /\ approvalPending[s]
      /\ approvalPending' = [approvalPending EXCEPT ![s] = FALSE]
      /\ IF stage[s] = "open"
         THEN /\ approved' = [approved EXCEPT ![s] = TRUE]
              /\ consent' = [consent EXCEPT ![s] = "allow"]
              /\ replaying' = s
         ELSE UNCHANGED <<approved, consent, replaying>>
      /\ UNCHANGED <<stage, socket, rejected, held, didConnect, appLaunched, media, hud,
                     events, arrived, done>>
  BY DEF Approve
<1> USE DEF media
<1>2. TypeOK'
  BY <1>1 DEF IInv, TypeOK
<1>3. HeldForApproval'
  BY <1>1 DEF IInv, HeldForApproval, TypeOK, Idle
<1>4. OneAnswer'
  BY <1>1 DEF IInv, OneAnswer, TypeOK
<1>5. EffectsApproved'
  BY <1>1 DEF IInv, EffectsApproved, TypeOK
<1> QED BY <1>1, <1>2, <1>3, <1>4, <1>5 DEF IInv, GatedInOrder, NoOrphanPipeline, RemovalPosted

\* The user's Deny: what was held is dropped, and the removal is posted.
LEMMA DenyKeeps == ASSUME IInv, NEW s \in Session, Deny(s) PROVE IInv'
<1>1. /\ Idle /\ approvalPending[s]
      /\ approvalPending' = [approvalPending EXCEPT ![s] = FALSE]
      /\ IF stage[s] = "open"
         THEN /\ rejected' = [rejected EXCEPT ![s] = TRUE]
              /\ consent' = [consent EXCEPT ![s] = "deny"]
              /\ held' = [held EXCEPT ![s] = <<>>]
              /\ events' = Post(<<"finished">>, s)
         ELSE UNCHANGED <<rejected, consent, held, events>>
      /\ UNCHANGED <<stage, socket, approved, didConnect, appLaunched, media, replaying, hud,
                     arrived, done>>
  BY DEF Deny, Denial
<1> USE DEF media
<1>2. events \in Seq(Event) /\ Len(events) \in Nat /\ Behind(events, events)
  BY DEF IInv, TypeOK, Behind
<1>3. /\ Behind(events, Post(<<"finished">>, s))
      /\ \E i \in 1 .. Len(Post(<<"finished">>, s)) : Post(<<"finished">>, s)[i] = Finished(s)
  <2> DEFINE kinds == <<"finished">>
  <2>1. kinds \in Seq({"hudOn", "hudOff", "finished"}) /\ Len(kinds) = 1 /\ kinds[1] = "finished"
    OBVIOUS
  <2> HIDE DEF kinds
  <2>2. /\ Behind(events, Post(kinds, s)) /\ Len(Post(kinds, s)) = Len(events) + 1
        /\ Post(kinds, s)[Len(events) + 1] = Finished(s)
    BY <1>2, <2>1, PostGives DEF Finished
  <2>3. Len(events) + 1 \in 1 .. Len(Post(kinds, s))
    BY <1>2, <2>2
  <2>4. Behind(events, Post(kinds, s)) /\ \E i \in 1 .. Len(Post(kinds, s)) : Post(kinds, s)[i] = Finished(s)
    BY <2>2, <2>3
  <2> QED BY <2>4 DEF kinds
<1>4. Behind(events, events')
  BY <1>1, <1>2, <1>3
<1>5. TypeOK'
  <2>1. held' \in Flow
    <3>1. <<>> \in Seq(Gated) /\ held \in [Session -> Seq(Gated)]
      BY DEF IInv, TypeOK, Flow
    <3>2. held' = held \/ held' = [held EXCEPT ![s] = <<>>]
      BY <1>1
    <3> QED BY <3>1, <3>2 DEF Flow
  <2>2. events' \in Seq(Event)
    BY <1>4 DEF Behind
  <2> QED BY <1>1, <2>1, <2>2 DEF IInv, TypeOK
<1>6. HeldForApproval'
  BY <1>1 DEF IInv, HeldForApproval, TypeOK, Flow
<1>7. OneAnswer'
  BY <1>1 DEF IInv, OneAnswer, TypeOK
<1>8. EffectsApproved' /\ NoOrphanPipeline'
  BY <1>1 DEF IInv, EffectsApproved, NoOrphanPipeline
<1>9. GatedInOrder'
  <2> SUFFICES ASSUME NEW t \in Session, ~rejected'[t] PROVE arrived[t] = done[t] \o held'[t]
    BY <1>1 DEF GatedInOrder
  <2>1. held \in [Session -> Seq(Gated)] /\ rejected \in [Session -> BOOLEAN]
    BY DEF IInv, TypeOK, Flow
  <2>2. ~rejected[t] /\ held'[t] = held[t]
    BY <1>1, <2>1
  <2> QED BY <2>2 DEF IInv, GatedInOrder
<1>10. RemovalPosted'
  <2> SUFFICES ASSUME NEW t \in Session, stage[t] = "open", rejected'[t] \/ ~socket[t]
               PROVE  \E i \in 1 .. Len(events') : events'[i] = Finished(t)
    BY <1>1 DEF RemovalPosted, Finished
  <2>1. CASE t = s
    BY <1>1, <1>3, <2>1
  <2>2. CASE t # s
    <3>1. rejected[t] \/ ~socket[t]
      BY <1>1, <2>2 DEF IInv, TypeOK
    <3> QED BY <1>4, <3>1, RemovalStays DEF IInv, RemovalPosted
  <2> QED BY <2>1, <2>2
<1> QED BY <1>5, <1>6, <1>7, <1>8, <1>9, <1>10 DEF IInv

\* Taking the first held message leaves the rest, in order.
LEMMA TakeFirst ==
  ASSUME NEW h \in Seq(Gated), NEW d \in Seq(Gated), h # <<>>
  PROVE  LET rest == SubSeq(h, 1, 0) \o SubSeq(h, 2, Len(h))
         IN  h[1] \in Gated /\ rest \in Seq(Gated) /\ d \o h = Append(d, h[1]) \o rest
<1> DEFINE rest == SubSeq(h, 2, Len(h))
           new == Append(d, h[1])
<1>1. Len(h) \in Nat /\ Len(h) > 0 /\ h[1] \in Gated
  OBVIOUS
<1>2. /\ rest \in Seq(Gated) /\ Len(rest) = Len(h) - 1 /\ \A i \in 1 .. Len(rest) : rest[i] = h[i + 1]
  <2> PICK m \in Nat, z \in Nat : m = 2 /\ z = Len(h)
    BY <1>1
  <2>1. \A i \in m .. z : h[i] \in Gated
    OBVIOUS
  <2>2. /\ SubSeq(h, m, z) \in Seq(Gated) /\ Len(SubSeq(h, m, z)) = IF m <= z THEN z - m + 1 ELSE 0
        /\ \A i \in 1 .. z - m + 1 : SubSeq(h, m, z)[i] = h[m + i - 1]
    BY <2>1, SubSeqProperties
  <2>3. \A i \in 1 .. z - 1 : i \in 1 .. z - m + 1 /\ m + i - 1 = i + 1
    OBVIOUS
  <2> QED BY <1>1, <2>2, <2>3
<1>3. SubSeq(h, 1, 0) = <<>> /\ <<>> \o rest = rest
  BY <1>2, ConcatEmptySeq, SubSeqEmpty
<1>4. new \in Seq(Gated) /\ Len(new) = Len(d) + 1 /\ new[Len(d) + 1] = h[1]
      /\ \A i \in 1 .. Len(d) : new[i] = d[i]
  BY <1>1
<1>5. d \o h \in Seq(Gated) /\ Len(d \o h) = Len(d) + Len(h)
      /\ \A i \in 1 .. Len(d) + Len(h) : (d \o h)[i] = IF i <= Len(d) THEN d[i] ELSE h[i - Len(d)]
  BY ConcatProperties
<1> HIDE DEF rest, new
<1>6. new \o rest \in Seq(Gated) /\ Len(new \o rest) = Len(new) + Len(rest)
      /\ \A i \in 1 .. Len(new) + Len(rest) :
           (new \o rest)[i] = IF i <= Len(new) THEN new[i] ELSE rest[i - Len(new)]
  BY <1>2, <1>4, ConcatProperties
<1>7. Len(d) \in Nat /\ Len(d \o h) = Len(new \o rest)
  BY <1>1, <1>2, <1>4, <1>5, <1>6
<1>8. ASSUME NEW i \in 1 .. Len(d \o h) PROVE (d \o h)[i] = (new \o rest)[i]
  <2>1. CASE i <= Len(d)
    BY <1>1, <1>2, <1>4, <1>5, <1>6, <1>7, <2>1
  <2>2. CASE i = Len(d) + 1
    BY <1>1, <1>2, <1>4, <1>5, <1>6, <1>7, <2>2
  <2>3. CASE i > Len(d) + 1
    <3>1. i - Len(new) \in 1 .. Len(rest) /\ (i - Len(new)) + 1 = i - Len(d)
      BY <1>1, <1>2, <1>4, <1>5, <1>7, <2>3
    <3>2. (new \o rest)[i] = rest[i - Len(new)]
      BY <1>2, <1>4, <1>6, <1>7, <2>3
    <3>3. rest[i - Len(new)] = h[i - Len(d)]
      BY <1>2, <3>1
    <3>4. (d \o h)[i] = h[i - Len(d)]
      BY <1>1, <1>5, <1>7, <2>3
    <3> QED BY <3>2, <3>3, <3>4
  <2> QED BY <1>7, <2>1, <2>2, <2>3
<1>9. d \o h = new \o rest
  BY <1>5, <1>6, <1>7, <1>8, SeqEqual
<1> QED BY <1>1, <1>2, <1>3, <1>9 DEF rest, new

\* The replay loop: the oldest held message is executed, or the loop ends.
LEMMA ReplayKeeps == ASSUME IInv, NEW s \in Session, Replay(s) PROVE IInv'
<1>1. /\ replaying = s /\ s # NoSession /\ approved[s] /\ stage[s] = "open"
      /\ held \in [Session -> Seq(Gated)] /\ done \in Flow /\ held \in Flow
      /\ UNCHANGED <<stage, socket, approved, approvalPending, rejected, hud, arrived, consent>>
  BY DEF Replay, IInv, HeldForApproval, TypeOK, Flow
<1>2. CASE held[s] = <<>> /\ replaying' = NoSession
             /\ UNCHANGED <<held, didConnect, appLaunched, media, events, done>>
  <2> USE DEF media
  <2>1. TypeOK'
    BY <1>1, <1>2 DEF IInv, TypeOK
  <2>2. HeldForApproval'
    BY <1>1, <1>2 DEF IInv, HeldForApproval
  <2> QED BY <1>1, <1>2, <2>1, <2>2 DEF IInv, OneAnswer, EffectsApproved, GatedInOrder,
             NoOrphanPipeline, RemovalPosted
<1>3. CASE /\ held[s] # <<>>
           /\ Execute(s, held[s][1])
           /\ done' = Note(done, s, held[s][1])
           /\ held' = [held EXCEPT ![s] = SubSeq(@, 1, 1 - 1) \o SubSeq(@, 1 + 1, Len(@))]
           /\ UNCHANGED replaying
  <2> DEFINE h == held[s]
             rest == SubSeq(h, 1, 0) \o SubSeq(h, 2, Len(h))
  <2>1. h \in Seq(Gated) /\ done[s] \in Seq(Gated)
    BY <1>1 DEF Flow
  <2>2. h[1] \in Gated /\ rest \in Seq(Gated) /\ done[s] \o h = Append(done[s], h[1]) \o rest
    BY <1>3, <2>1, TakeFirst
  <2>3. held' = [held EXCEPT ![s] = rest]
    BY <1>3
  <2> HIDE DEF rest
  <2>4. held' \in Flow /\ held'[s] = rest /\ \A t \in Session : t # s => held'[t] = held[t]
    BY <1>1, <2>2, <2>3 DEF Flow
  <2>5. h[1] \in Message
    BY <2>2 DEF Message
  <2>6. TypeOK' /\ OneAnswer' /\ EffectsApproved' /\ NoOrphanPipeline' /\ RemovalPosted'
    <3>1. arrived' \in Flow /\ replaying' \in Session \union {NoSession}
      BY <1>1, <1>3 DEF IInv, TypeOK
    <3> QED BY <1>1, <1>3, <2>4, <2>5, <3>1, ExecuteKeeps
  <2>7. HeldForApproval'
    BY <1>1, <1>3, <2>4 DEF IInv, HeldForApproval
  <2>8. GatedInOrder'
    <3> SUFFICES ASSUME NEW t \in Session, ~rejected[t] PROVE arrived[t] = done'[t] \o held'[t]
      BY <1>1 DEF GatedInOrder
    <3>1. arrived[t] = done[t] \o held[t]
      BY DEF IInv, GatedInOrder
    <3>2. done'[s] = Append(done[s], h[1]) /\ \A u \in Session : u # s => done'[u] = done[u]
      <4>1. PICK m \in Message : m = h[1] /\ m \in Gated
        BY <2>2, <2>5
      <4>2. done' = Note(done, s, m)
        BY <1>3, <4>1
      <4>3. /\ \A u \in Session : u # s => Note(done, s, m)[u] = done[u]
            /\ Note(done, s, m)[s] = Append(done[s], m)
        BY <1>1, <4>1 DEF Note, Flow
      <4> QED BY <4>1, <4>2, <4>3
    <3>3. CASE t = s
      BY <2>2, <2>4, <3>1, <3>2, <3>3
    <3> QED BY <2>4, <3>1, <3>2, <3>3
  <2> QED BY <2>6, <2>7, <2>8 DEF IInv
<1> QED BY <1>2, <1>3 DEF Replay, NextHeld

\* A socket is gone: the stream stops with it, and the removal is posted.
LEMMA DisconnectedKeeps == ASSUME IInv, NEW s \in Session, OnDisconnected(s) PROVE IInv'
<1>1. /\ socket' = [socket EXCEPT ![s] = FALSE]
      /\ StopStreaming(s) /\ events' = Farewell(s) /\ stage[s] = "open"
      /\ UNCHANGED <<stage, gate, didConnect, appLaunched, playing, replaying, hud, history>>
  BY DEF OnDisconnected
<1> USE DEF gate, history
<1>2. /\ FlagOf(streaming, streaming', s) /\ ~streaming'[s]
      /\ castPipeline' \in {castPipeline, NoSession}
      /\ castPipeline' # NoSession => streaming'[castPipeline']
  BY <1>1, StopStreamingGives DEF IInv
<1>3. /\ Behind(events, events')
      /\ \E i \in 1 .. Len(events') : events'[i] = Finished(s)
  BY <1>1, FarewellGives DEF IInv
<1>4. TypeOK'
  <2>1. events' \in Seq(Event) /\ streaming' \in [Session -> BOOLEAN]
    BY <1>2, <1>3 DEF Behind, FlagOf
  <2>2. castPipeline' \in Session \union {NoSession}
    BY <1>2 DEF IInv, TypeOK
  <2> QED BY <1>1, <2>1, <2>2 DEF IInv, TypeOK
<1>5. EffectsApproved'
  BY <1>1, <1>2 DEF IInv, EffectsApproved, FlagOf
<1>6. NoOrphanPipeline'
  BY <1>1, <1>2 DEF IInv, NoOrphanPipeline
<1>7. RemovalPosted'
  <2> SUFFICES ASSUME NEW t \in Session, stage[t] = "open", rejected[t] \/ ~socket'[t]
               PROVE  \E i \in 1 .. Len(events') : events'[i] = Finished(t)
    BY <1>1 DEF RemovalPosted, Finished
  <2>1. CASE t = s
    BY <1>3, <2>1
  <2>2. CASE t # s
    <3>1. rejected[t] \/ ~socket[t]
      BY <1>1, <2>2 DEF IInv, TypeOK
    <3> QED BY <1>3, <3>1, RemovalStays DEF IInv, RemovalPosted
  <2> QED BY <2>1, <2>2
<1> QED BY <1>1, <1>4, <1>5, <1>6, <1>7 DEF IInv, HeldForApproval, OneAnswer, GatedInOrder

\* A posted HUD change.
LEMMA HudEventKeeps ==
  ASSUME IInv, events # <<>>, NEW s \in Session, NEW show \in BOOLEAN, OnHud(s, show),
         Head(events).kind # "finished"
  PROVE  IInv'
<1>1. /\ hud' \in Session \union {NoSession} /\ events' = Tail(events)
      /\ UNCHANGED <<stage, socket, gate, didConnect, appLaunched, media, replaying, history>>
  BY DEF OnHud
<1> USE DEF gate, media, history
<1>2. /\ Tail(events) \in Seq(Event)
      /\ \A t \in Session :
           /\ \E i \in 1 .. Len(events) : events[i] = Finished(t)
           /\ Head(events) # Finished(t)
           => \E i \in 1 .. Len(Tail(events)) : Tail(events)[i] = Finished(t)
  BY HeadAndTail DEF IInv
<1>3. TypeOK'
  BY <1>1, <1>2 DEF IInv, TypeOK
<1>4. RemovalPosted'
  <2> SUFFICES ASSUME NEW t \in Session, stage[t] = "open", rejected[t] \/ ~socket[t]
               PROVE  \E i \in 1 .. Len(Tail(events)) : Tail(events)[i] = Finished(t)
    BY <1>1 DEF RemovalPosted, Finished
  <2>1. Head(events) # Finished(t)
    BY DEF Finished
  <2> QED BY <1>2, <2>1 DEF IInv, RemovalPosted
<1> QED BY <1>1, <1>3, <1>4 DEF IInv, HeldForApproval, OneAnswer, EffectsApproved, GatedInOrder,
           NoOrphanPipeline

\* A session is destroyed: its stream goes first.
LEMMA FinishedKeeps ==
  ASSUME IInv, Idle, events # <<>>, NEW s \in Session, OnSessionFinished(s),
         Head(events) = Finished(s)
  PROVE  IInv'
<1>1. /\ stage' = [stage EXCEPT ![s] = "gone"]
      /\ socket' = [socket EXCEPT ![s] = FALSE]
      /\ IF stage[s] = "open" THEN StopStreaming(s) ELSE UNCHANGED <<streaming, castPipeline>>
      /\ events' = Tail(events) \/ events' = Append(Tail(events), [kind |-> "hudOff", of |-> s])
      /\ UNCHANGED <<gate, didConnect, appLaunched, playing, replaying, hud, history>>
  BY DEF OnSessionFinished
<1> USE DEF gate, history
<1>2. /\ FlagOf(streaming, streaming', s)
      /\ castPipeline' \in {castPipeline, NoSession}
      /\ castPipeline' # NoSession => streaming'[castPipeline'] /\ castPipeline' # s
      /\ streaming'[s] => streaming[s]
  <2>1. CASE stage[s] = "open"
    BY <1>1, <2>1, StopStreamingGives DEF IInv
  <2>2. CASE stage[s] # "open"
    BY <1>1, <2>2 DEF IInv, TypeOK, FlagOf, NoOrphanPipeline
  <2> QED BY <2>1, <2>2
<1>3. /\ Tail(events) \in Seq(Event)
      /\ \A t \in Session :
           /\ \E i \in 1 .. Len(events) : events[i] = Finished(t)
           /\ Head(events) # Finished(t)
           => \E i \in 1 .. Len(Tail(events)) : Tail(events)[i] = Finished(t)
  BY HeadAndTail DEF IInv
<1>4. Behind(Tail(events), events')
  <2>1. [kind |-> "hudOff", of |-> s] \in Event
    BY DEF Event
  <2> QED BY <1>1, <1>3, <2>1 DEF Behind
<1>5. TypeOK'
  <2>1. events' \in Seq(Event) /\ streaming' \in [Session -> BOOLEAN]
    BY <1>2, <1>4 DEF Behind, FlagOf
  <2>2. castPipeline' \in Session \union {NoSession}
    BY <1>2 DEF IInv, TypeOK
  <2> QED BY <1>1, <2>1, <2>2 DEF IInv, TypeOK
<1>6. HeldForApproval'
  BY <1>1 DEF IInv, HeldForApproval, Idle
<1>7. OneAnswer'
  BY <1>1 DEF IInv, OneAnswer, TypeOK
<1>8. EffectsApproved'
  <2> SUFFICES ASSUME NEW t \in Session,
                      done[t] # <<>> \/ appLaunched[t] \/ didConnect[t] \/ streaming'[t]
               PROVE  approved[t]
    BY <1>1 DEF EffectsApproved
  <2> QED BY <1>2 DEF IInv, EffectsApproved, FlagOf
<1>9. NoOrphanPipeline'
  BY <1>1, <1>2 DEF IInv, NoOrphanPipeline, TypeOK
<1>10. RemovalPosted'
  <2> SUFFICES ASSUME NEW t \in Session, stage'[t] = "open", rejected[t] \/ ~socket'[t]
               PROVE  \E i \in 1 .. Len(events') : events'[i] = Finished(t)
    BY <1>1 DEF RemovalPosted, Finished
  <2>1. t # s /\ stage[t] = "open" /\ (rejected[t] \/ ~socket[t])
    BY <1>1 DEF IInv, TypeOK
  <2>2. Head(events) # Finished(t)
    BY <2>1 DEF Finished
  <2>3. PICK i \in 1 .. Len(Tail(events)) : Tail(events)[i] = Finished(t)
    BY <1>3, <2>1, <2>2 DEF IInv, RemovalPosted
  <2>4. /\ Len(Tail(events)) \in Nat /\ Len(events') \in Nat /\ Len(Tail(events)) <= Len(events')
        /\ events'[i] = Tail(events)[i]
    BY <1>3, <1>4 DEF Behind
  <2>5. i \in 1 .. Len(events')
    BY <2>4
  <2> QED BY <2>3, <2>4, <2>5
<1> QED BY <1>1, <1>5, <1>6, <1>7, <1>8, <1>9, <1>10 DEF IInv, GatedInOrder

\* The first posted event is one of these.
LEMMA PostedEventKeeps == ASSUME IInv, PostedEvent PROVE IInv'
<1>1. Idle /\ events # <<>> /\ Head(events) \in Event
  BY HeadAndTail DEF PostedEvent, IInv
<1>2. PICK e \in Event : e = Head(events)
  BY <1>1
<1>3. e.of \in Session /\ e.kind \in {"hudOn", "hudOff", "finished"} /\ e = [kind |-> e.kind, of |-> e.of]
  BY DEF Event
<1>4. CASE e.kind = "hudOn"
  <2>1. OnHud(e.of, TRUE)
    BY <1>2, <1>4 DEF PostedEvent
  <2> QED BY <1>1, <1>2, <1>3, <1>4, <2>1, HudEventKeeps
<1>5. CASE e.kind = "hudOff"
  <2>1. OnHud(e.of, FALSE)
    BY <1>2, <1>5 DEF PostedEvent
  <2> QED BY <1>1, <1>2, <1>3, <1>5, <2>1, HudEventKeeps
<1>6. CASE e.kind = "finished"
  <2>1. OnSessionFinished(e.of) /\ e = Finished(e.of)
    BY <1>2, <1>3, <1>6 DEF PostedEvent, Finished
  <2> QED BY <1>1, <1>2, <1>3, <2>1, FinishedKeeps
<1> QED BY <1>3, <1>4, <1>5, <1>6

\* Every reachable state satisfies the invariant.
THEOREM Invariance == Spec => []IInv
<1>1. IInv /\ [Next]_vars => IInv'
  <2> SUFFICES ASSUME IInv, [Next]_vars PROVE IInv'
    OBVIOUS
  <2>1. CASE UNCHANGED vars
    <3>1. hud' \in Session \union {NoSession, "Other"}
      BY <2>1 DEF vars, IInv, TypeOK
    <3> QED BY <2>1, <3>1, HudKeeps DEF vars, gate, media, history
  <2>2. CASE OtherProtocol
    BY <2>2, HudKeeps DEF OtherProtocol
  <2> QED BY <2>1, <2>2, PendingConnectionKeeps, DispatchMessageKeeps, ApproveKeeps, DenyKeeps,
             ReplayKeeps, DisconnectedKeeps, PostedEventKeeps DEF Next, ReplayStep
<1> QED BY <1>1, InitOK, PTL DEF Spec

-----------------------------------------------------------------------------
(* What follows.                                                           *)

\* The variables of CastSessions stay within their types.
THEOREM TypeCorrect == Spec => []TypeOK
  BY Invariance, PTL DEF IInv

\* However the prompt, its answer and further messages interleave, the messages that
\* start or control a cast take effect in the order of their arrival, each once
\* (CastSession.h:110-113).
THEOREM InOrderOfArrival == Spec => []GatedInOrder
  BY Invariance, PTL DEF IInv

\* Before a session is allowed, nothing is launched, shown, loaded or streamed for it.
THEOREM ConsentFirst == Spec => []NothingBeforeConsent
<1>1. IInv => NothingBeforeConsent
  BY DEF IInv, EffectsApproved, OneAnswer, NothingBeforeConsent
<1> QED BY <1>1, Invariance, PTL

\* The shared playback pipeline is always that of an open, streaming session.
THEOREM NoOrphans == Spec => []NoOrphanPipeline
  BY Invariance, PTL DEF IInv

\* The safety half of EndedIsRemoved: the removal of a session that was denied or
\* lost its socket is in the event queue as long as the session exists.
THEOREM EndedIsPosted == Spec => []RemovalPosted
  BY Invariance, PTL DEF IInv

-----------------------------------------------------------------------------
(* Device authentication, for every clock.  The window of a time is within *)
(* the table, and the window of a window's start is the window: so a       *)
(* signature looked up by a certificate's notBefore is the one of that     *)
(* certificate.                                                            *)

VARIABLES clock, server, certWindowIndex, certificate, peer, answer

\* CastAuth, of the same connections.
Auth == INSTANCE CastAuth WITH Connection <- Session

\* Every time has a window of the table or none.
LEMMA WindowType == ASSUME NEW t \in Int PROVE Auth!WindowIndex(t) \in Auth!Window \union {Auth!None}
  BY DEF Auth!WindowIndex, Auth!Window, Auth!None, Auth!kCastAuthStartEpoch, Auth!kCastAuthEndEpoch,
         Auth!kCastAuthWindowSeconds, Auth!kCastAuthSignatureCount

\* The first second of a window, the notBefore of its certificate, is in it.
LEMMA StartIsInWindow ==
  ASSUME NEW w \in Auth!Window
  PROVE  Auth!WindowStart(w) \in Int /\ Auth!WindowStart(w) # Auth!None /\ Auth!WindowIndex(Auth!WindowStart(w)) = w
  BY DEF Auth!WindowIndex, Auth!WindowStart, Auth!Window, Auth!None, Auth!kCastAuthStartEpoch, Auth!kCastAuthEndEpoch,
         Auth!kCastAuthWindowSeconds, Auth!kCastAuthSignatureCount

\* So a certificate's notBefore is looked up as the window it was made for.
LEMMA CertificateOfWindow ==
  ASSUME NEW p \in Auth!Certificate
  PROVE  /\ p \in Int /\ p # Auth!None
         /\ Auth!WindowIndex(p) \in Auth!Window
         /\ p = Auth!GenerateSelfSignedCert(Auth!WindowIndex(p))
<1>1. PICK w \in Auth!Window : p = Auth!WindowStart(w)
  BY DEF Auth!Certificate, Auth!GenerateSelfSignedCert
<1>2. QED
  BY <1>1, StartIsInWindow DEF Auth!GenerateSelfSignedCert

\* A listening server has the certificate it recorded, a server not yet started
\* has none, a connection that is up was handshaked with one and the answers it
\* was given are of that one.
AuthIInv ==
  /\ Auth!TypeOK
  /\ Auth!ListensWithCertificate
  /\ server = "new" => certWindowIndex = Auth!None
  /\ \A c \in Session : peer[c] # Auth!None => answer[c] \in {Auth!None, Auth!WindowIndex(peer[c])}

\* Nothing is up in the beginning.
LEMMA AuthInit == Auth!Init => AuthIInv
  BY DEF Auth!Init, AuthIInv, Auth!TypeOK, Auth!ListensWithCertificate

\* refreshCertificate() changes certificate and index together, to a window of
\* the table.
LEMMA RefreshKeeps ==
  ASSUME Auth!TypeOK, Auth!Refresh
  PROVE  \/ /\ certWindowIndex' \in Auth!Window
            /\ certificate' = Auth!GenerateSelfSignedCert(certWindowIndex')
         \/ certificate' = certificate /\ certWindowIndex' = certWindowIndex
  BY WindowType DEF Auth!TypeOK, Auth!Refresh

\* Every step keeps the invariant; only a start and a handshake change what the
\* server has, both through refreshCertificate().
LEMMA AuthStep == AuthIInv /\ [Auth!Next]_(Auth!vars) => AuthIInv'
<1> SUFFICES ASSUME AuthIInv, [Auth!Next]_(Auth!vars) PROVE AuthIInv'
  OBVIOUS
<1>1. CASE Auth!Tick
  BY <1>1 DEF Auth!Tick, AuthIInv, Auth!TypeOK, Auth!ListensWithCertificate
<1>2. CASE Auth!Start
  <2>1. Auth!WindowIndex(clock) \in Auth!Window \union {Auth!None}
    BY WindowType DEF AuthIInv, Auth!TypeOK
  <2>2. CASE server' = "up"
    <3>1. /\ server = "new" /\ certWindowIndex = Auth!None
          /\ Auth!Refresh
          /\ certWindowIndex' # Auth!None
          /\ UNCHANGED <<clock, peer, answer>>
      BY <1>2, <2>2 DEF Auth!Start, AuthIInv
    <3>2. /\ certWindowIndex' \in Auth!Window
          /\ certificate' = Auth!GenerateSelfSignedCert(certWindowIndex')
          /\ certificate' \in Auth!Certificate
      BY <3>1, RefreshKeeps DEF AuthIInv, Auth!Certificate
    <3>3. QED
      BY <2>2, <3>1, <3>2 DEF AuthIInv, Auth!TypeOK, Auth!ListensWithCertificate
  <2>3. CASE server' = "down"
    BY <1>2, <2>1, <2>3 DEF Auth!Start, AuthIInv, Auth!TypeOK, Auth!ListensWithCertificate
  <2>4. QED
    BY <1>2, <2>2, <2>3 DEF Auth!Start
<1>3. CASE Auth!Stop
  BY <1>3 DEF Auth!Stop, AuthIInv, Auth!TypeOK, Auth!ListensWithCertificate, Auth!None
<1>4. ASSUME NEW c \in Session, Auth!IncomingConnection(c) PROVE AuthIInv'
  <2>1. /\ server = "up" /\ server' = "up" /\ answer[c] = Auth!None
        /\ Auth!Refresh
        /\ peer' = [peer EXCEPT ![c] = certificate']
        /\ UNCHANGED <<clock, answer>>
    BY <1>4 DEF Auth!IncomingConnection
  <2>2. /\ certWindowIndex' \in Auth!Window
        /\ certificate' = Auth!GenerateSelfSignedCert(certWindowIndex')
        /\ certificate' \in Auth!Certificate
    BY <2>1, RefreshKeeps DEF AuthIInv, Auth!ListensWithCertificate, Auth!Certificate
  <2>3. Auth!TypeOK'
    BY <2>1, <2>2 DEF AuthIInv, Auth!TypeOK
  <2>4. ASSUME NEW d \in Session, peer'[d] # Auth!None
        PROVE  answer'[d] \in {Auth!None, Auth!WindowIndex(peer'[d])}
    BY <2>1, <2>4 DEF AuthIInv, Auth!TypeOK
  <2>5. QED
    BY <2>1, <2>2, <2>3, <2>4 DEF AuthIInv, Auth!ListensWithCertificate
<1>5. ASSUME NEW c \in Session, Auth!OnDeviceAuth(c) PROVE AuthIInv'
  <2>1. peer[c] # Auth!None /\ peer[c] \in Auth!Certificate
    BY <1>5 DEF Auth!OnDeviceAuth, AuthIInv, Auth!TypeOK
  <2>2. Auth!WindowIndex(peer[c]) \in Auth!Window
    BY <2>1, CertificateOfWindow
  <2>3. answer' = [answer EXCEPT ![c] = Auth!WindowIndex(peer[c])]
    BY <1>5, <2>1 DEF Auth!OnDeviceAuth, Auth!GetSignature
  <2>4. UNCHANGED <<clock, server, certWindowIndex, certificate, peer>>
    BY <1>5 DEF Auth!OnDeviceAuth
  <2>5. Auth!TypeOK'
    BY <2>2, <2>3, <2>4 DEF AuthIInv, Auth!TypeOK
  <2>6. ASSUME NEW d \in Session, peer'[d] # Auth!None
        PROVE  answer'[d] \in {Auth!None, Auth!WindowIndex(peer'[d])}
    <3>1. CASE d = c
      BY <2>3, <2>4, <3>1 DEF AuthIInv, Auth!TypeOK
    <3>2. CASE d # c
      BY <2>3, <2>4, <2>6, <3>2 DEF AuthIInv, Auth!TypeOK
    <3>3. QED
      BY <3>1, <3>2
  <2>7. QED
    BY <2>4, <2>5, <2>6 DEF AuthIInv, Auth!ListensWithCertificate
<1>6. CASE UNCHANGED Auth!vars
  BY <1>6 DEF Auth!vars, AuthIInv, Auth!TypeOK, Auth!ListensWithCertificate
<1>7. QED
  BY <1>1, <1>2, <1>3, <1>4, <1>5, <1>6 DEF Auth!Next

\* A certificate of the table is looked up as itself, so the invariant says what
\* the property does.
LEMMA AuthIInvIsEnough == AuthIInv => Auth!SignatureIsOfCertificate
<1> SUFFICES ASSUME AuthIInv, NEW c \in Session, peer[c] # Auth!None
             PROVE  /\ Auth!GetSignature(c) \in Auth!Window
                    /\ peer[c] = Auth!GenerateSelfSignedCert(Auth!GetSignature(c))
                    /\ answer[c] \in {Auth!None, Auth!GetSignature(c)}
  BY DEF Auth!SignatureIsOfCertificate
<1>1. peer[c] \in Auth!Certificate
  BY DEF AuthIInv, Auth!TypeOK
<1>2. Auth!GetSignature(c) = Auth!WindowIndex(peer[c])
  BY DEF Auth!GetSignature
<1>3. QED
  BY <1>1, <1>2, CertificateOfWindow DEF AuthIInv

\* A challenge is answered with the signature of the certificate its connection
\* was handshaked with, wherever the clock has gone since (CastSession.cpp:235).
THEOREM SignatureHolds == Auth!Spec => []Auth!SignatureIsOfCertificate
  BY AuthInit, AuthStep, AuthIInvIsEnough, PTL DEF Auth!Spec

\* The server never listens without a certificate of the table, and knows which
\* one it has (m_certWindowIndex, CastHandler.cpp:158).
THEOREM ListensHolds == Auth!Spec => []Auth!ListensWithCertificate
<1>1. AuthIInv => Auth!ListensWithCertificate
  BY DEF AuthIInv
<1>2. QED
  BY AuthInit, AuthStep, <1>1, PTL DEF Auth!Spec

\* The state of CastAuth keeps its types, whatever the clock does: certificates are
\* those of the table, and answers are windows of it (cast_auth_sigs.h).
THEOREM AuthTypeCorrect == Auth!Spec => []Auth!TypeOK
<1>1. AuthIInv => Auth!TypeOK
  BY DEF AuthIInv
<1>2. QED
  BY AuthInit, AuthStep, <1>1, PTL DEF Auth!Spec
=============================================================================
