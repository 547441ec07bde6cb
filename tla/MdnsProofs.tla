----------------------------- MODULE MdnsProofs -----------------------------
(***************************************************************************)
(* For any number of services, names, updates, conflicts and scheduled     *)
(* datagrams: MdnsResponderCore says no name that it did not verify, leaves *)
(* no name live that nobody holds, but those it knows as lost, and what the *)
(* network knows at rest is current, whatever answers and repeats crossed. *)
(* And DnsReader, which decodes what the responder is sent, reads any      *)
(* packet within its bounds and comes to an end.  At last Advertisers,     *)
(* which hands the services to the daemon of the system instead: what the  *)
(* daemon publishes is what AirShow holds, and nothing is forgotten.       *)
(***************************************************************************)
EXTENDS MdnsResponder, Advertisers, SequenceTheorems, FiniteSetTheorems, TLAPS

USE MdnsAssumption

Suffix == 1 .. MaxSuffix + 1
Shape  == [is : {"unborn", "held", "gone"}, probes : 0 .. kProbeCount, ann : BOOLEAN,
           suffix : Suffix, base : Base, txt : 0 .. MaxTxt]

Datum == [name : Name, txt : 0 .. MaxTxt, host : Suffix]

Typed == TypeOK /\ \A a \in answers : \A r \in a : r \in Datum

\* Only a service in the list is announced, and only one announced has repeats.
OnlyHeld ==
  /\ \A s \in Service : svc[s].ann => Held(s)
  /\ \A r \in repeats : r.service \in Announced

\* m_probesSent counts the probes of the name the service has now.
Counted ==
  \A s \in Service :
    svc[s].is # "gone" => probed[s] = svc[s].probes /\ (svc[s].is = "unborn" => svc[s] = Absent)

\* Names that are announced, or that an answer carries, were verified.
Verified ==
  /\ \A s \in Announced : NameOf(s) \in verified
  /\ \A a \in answers : \A r \in a : r.name \in verified

Current(s) == [live |-> TRUE, txt |-> svc[s].txt, host |-> host.suffix]

\* What the answer says of s is so.
Fits(a, s) == \A r \in a : r.name = NameOf(s) => r.txt = svc[s].txt /\ r.host = host.suffix

\* Either the network knows s as it is and no answer that waits will say otherwise,
\* or a repeat will come, after every answer that may.
KnownOrRepeated ==
  host.ann => \A s \in Announced :
    \/ said[NameOf(s)] = Current(s) /\ \A a \in answers : Fits(a, s)
    \/ \E r \in repeats : r.service = s /\ \A a \in answers \ r.after : Fits(a, s)

IInv ==
  /\ Typed /\ OnlyHeld /\ Counted /\ Verified
  /\ OnlyVerifiedSaid /\ LiveNamesAreHeld /\ KnownOrRepeated

-----------------------------------------------------------------------------
(* What the operators of the module give.                                  *)

\* A service that is not in the list.
LEMMA AbsentShape ==
  /\ Absent \in Shape /\ Absent.is = "unborn" /\ ~Absent.ann /\ Absent.probes = 0
  /\ [Absent EXCEPT !.is = "gone"] \in Shape
  /\ [Absent EXCEPT !.is = "gone"].is = "gone" /\ ~[Absent EXCEPT !.is = "gone"].ann
<1>1. (CHOOSE b \in Base : TRUE) \in Base
  BY MdnsAssumption
<1>2. 1 \in Suffix /\ 0 \in 0 .. MaxTxt /\ 0 \in 0 .. kProbeCount
  BY MdnsAssumption DEF Suffix, kProbeCount
<1> QED BY <1>1, <1>2 DEF Absent, Shape

\* Probing() keeps the name and the record.
LEMMA ProbingGives ==
  ASSUME NEW g \in Shape
  PROVE  /\ Probing(g) \in Shape /\ Probing(g).probes = 0 /\ ~Probing(g).ann
         /\ Probing(g).is = g.is /\ Probing(g).suffix = g.suffix
         /\ Probing(g).base = g.base /\ Probing(g).txt = g.txt
<1> DEFINE a == [g EXCEPT !.probes = 0]
<1>1. a \in Shape
  BY DEF Shape, kProbeCount
<1>2. Probing(g) = [a EXCEPT !.ann = FALSE]
  BY DEF Probing, Shape
<1>3. Probing(g) \in Shape
  BY <1>1, <1>2 DEF Shape
<1>4. /\ Probing(g).probes = 0 /\ ~Probing(g).ann /\ Probing(g).is = g.is
      /\ Probing(g).suffix = g.suffix /\ Probing(g).base = g.base /\ Probing(g).txt = g.txt
  BY DEF Probing, Shape
<1> QED BY <1>3, <1>4

\* A tick never changes the name or the record, nor takes an announcement back.
LEMMA SteppedGives ==
  ASSUME NEW g \in Shape \union Group, NEW due \in BOOLEAN, NEW can \in BOOLEAN
  PROVE  LET v == Stepped(g, due, can) IN
         /\ g \in Shape => v \in Shape /\ v.is = g.is /\ v.base = g.base /\ v.txt = g.txt
         /\ g \in Group => v \in Group
         /\ v.suffix = g.suffix /\ (g.ann => v = g)
         /\ v.ann /\ ~g.ann => can /\ g.probes = kProbeCount /\ v.probes = g.probes
         /\ v.probes = g.probes \/ v.probes = g.probes + 1
<1> DEFINE v == Stepped(g, due, can)
<1>1. g.probes \in 0 .. 3 /\ g.ann \in BOOLEAN
  BY DEF Shape, Group, kProbeCount
<1>2. CASE v = g
  BY <1>1, <1>2
<1>3. CASE ~g.ann /\ g.probes < 3 /\ v = [g EXCEPT !.probes = @ + 1]
  <2>1. g.probes + 1 \in 0 .. 3
    BY <1>1, <1>3
  <2> QED BY <1>1, <1>3, <2>1 DEF Shape, Group, kProbeCount
<1>4. CASE ~g.ann /\ can /\ g.probes = 3 /\ v = [g EXCEPT !.ann = TRUE]
  BY <1>1, <1>4 DEF Shape, Group, kProbeCount
<1> QED BY <1>1, <1>2, <1>3, <1>4 DEF Stepped, ProbesLeft, kProbeCount

\* What a tick may make of a service g.
Step(g, can, v) ==
  /\ v \in Shape /\ v.is = g.is /\ v.base = g.base /\ v.txt = g.txt
  /\ v.suffix = g.suffix /\ (g.ann => v = g)
  /\ v.ann /\ ~g.ann => can /\ g.probes = kProbeCount /\ v.probes = g.probes
  /\ v.probes = g.probes \/ v.probes = g.probes + 1

\* The same, of a service.
LEMMA SteppedService ==
  \A g \in Shape, due, can \in BOOLEAN : Step(g, can, Stepped(g, due, can))
<1> TAKE g \in Shape, due \in BOOLEAN, can \in BOOLEAN
<1> PICK v : v = Stepped(g, due, can)
  OBVIOUS
<1>1. g \in Shape \union Group
  OBVIOUS
<1>2. Step(g, can, v)
  <2> HIDE DEF Shape, Group
  <2> QED BY <1>1, SteppedGives DEF Step
<1> QED BY <1>2, Zenon

\* The service's name, if it were v.
At(s, v) == [service |-> s, base |-> v[s].base, suffix |-> v[s].suffix]

\* Names tell services apart.
LEMMA NameGives ==
  ASSUME TypeOK, NEW s \in Service
  PROVE  /\ NameOf(s) \in Name /\ NameOf(s) = At(s, svc)
         /\ \A t \in Service : NameOf(s) = NameOf(t) => s = t
<1>1. svc[s].base \in Base /\ svc[s].suffix \in 1 .. MaxSuffix + 1
  BY DEF TypeOK
<1> QED BY <1>1 DEF NameOf, Name, At

\* The network knows the services of S as v and h have them, the others as before.
Tells(S, v, h, known) ==
  /\ known \in [Name -> Record]
  /\ \A s \in S : /\ At(s, v) \in Name
                  /\ known[At(s, v)] = [live |-> TRUE, txt |-> v[s].txt, host |-> h.suffix]
  /\ \A n \in Name : (\E s \in S : n = At(s, v)) \/ known[n] = said[n]

\* An announcement of S says what v is of S, and nothing of others.
LEMMA SaidByGives ==
  ASSUME said \in [Name -> Record], NEW v \in [Service -> Shape], NEW S \in SUBSET Service,
         NEW h, h.suffix \in Suffix
  PROVE  Tells(S, v, h, SaidBy(S, v, h))
<1>1. \A s \in S : /\ At(s, v) \in Name /\ At(s, v).service = s
                   /\ [live |-> TRUE, txt |-> v[s].txt, host |-> h.suffix] \in Record
  BY MdnsAssumption DEF At, Name, Shape, Suffix, Record
<1>2. SaidBy(S, v, h) =
        [n \in Name |-> IF \E s \in S : n = At(s, v)
                        THEN [live |-> TRUE, txt |-> v[n.service].txt, host |-> h.suffix]
                        ELSE said[n]]
  BY DEF SaidBy, At
<1>3. \A s \in S : SaidBy(S, v, h)[At(s, v)] = [live |-> TRUE, txt |-> v[s].txt, host |-> h.suffix]
  BY <1>1, <1>2
<1>4. \A n \in Name : (\E s \in S : n = At(s, v)) \/ SaidBy(S, v, h)[n] = said[n]
  BY <1>2
<1>5. SaidBy(S, v, h) \in [Name -> Record]
  <2> SUFFICES ASSUME NEW n \in Name PROVE SaidBy(S, v, h)[n] \in Record
    BY <1>2
  <2>1. CASE \E s \in S : n = At(s, v)
    BY <1>1, <1>3, <2>1
  <2>2. CASE ~\E s \in S : n = At(s, v)
    BY <1>4, <2>2
  <2> QED BY <2>1, <2>2
<1> QED BY <1>1, <1>3, <1>4, <1>5 DEF Tells

\* The scheduled copies are of S, behind the answers that wait.
LEMMA CopiesGive ==
  ASSUME NEW S \in SUBSET Service
  PROVE  /\ \A r \in Copies(S) : r.service \in S /\ r.copy \in 1 .. 2
         /\ \A s \in S : \E r \in Copies(S) : r.service = s /\ r.after = answers
<1>1. ASSUME NEW s \in S PROVE \E r \in Copies(S) : r.service = s /\ r.after = answers
  <2> DEFINE r == [service |-> s, copy |-> 1, after |-> answers]
  <2>1. r \in Copies(S) /\ r.service = s /\ r.after = answers
    BY DEF Copies
  <2> HIDE DEF r
  <2> QED BY <2>1
<1> QED BY <1>1 DEF Copies

\* The parts of the state, typed.
LEMMA Types == Typed =>
  /\ svc \in [Service -> Shape] /\ said \in [Name -> Record] /\ host \in Group /\ host.suffix \in Suffix
  /\ probed \in [Service -> 0 .. kProbeCount]
  BY DEF Typed, TypeOK, Shape, Suffix, Group

-----------------------------------------------------------------------------
(* Each step keeps the invariant.                                          *)

\* Nothing is announced, said or scheduled.
LEMMA InitOK == Init => IInv
<1> SUFFICES ASSUME Init PROVE IInv
  OBVIOUS
<1>1. /\ svc = [s \in Service |-> Absent] /\ repeats = {} /\ answers = {} /\ verified = {}
      /\ said = [n \in Name |-> Nothing] /\ host = Fresh
  BY DEF Init
<1>2. Fresh \in Group /\ Nothing \in Record /\ ~Nothing.live
  BY MdnsAssumption DEF Fresh, Group, Nothing, Record, kProbeCount
<1>3. Announced = {} /\ \A s \in Service : svc[s] \in Shape /\ ~svc[s].ann /\ svc[s].probes = 0
  BY <1>1, AbsentShape DEF Announced
<1>4. Typed
  BY <1>1, <1>2, <1>3, MdnsAssumption DEF Init, Typed, TypeOK, Shape, Suffix, kProbeCount
<1>5. OnlyHeld /\ Counted /\ Verified
  BY <1>1, <1>3 DEF Init, OnlyHeld, Counted, Verified
<1>6. OnlyVerifiedSaid /\ LiveNamesAreHeld
  BY <1>1, <1>2 DEF OnlyVerifiedSaid, LiveNamesAreHeld
<1>7. KnownOrRepeated
  BY <1>3 DEF KnownOrRepeated
<1> QED BY <1>4, <1>5, <1>6, <1>7 DEF IInv

\* Neither the services nor what is said or scheduled changes; the host may have to
\* probe again.
LEMMA HostKeeps ==
  ASSUME IInv, UNCHANGED <<svc, repeats, answers, said, probed, verified, lost>>,
         host' \in Group, host' = host \/ ~host'.ann, timer' \in BOOLEAN, events' \in 0 .. MaxEvents
  PROVE  IInv'
<1>1. Typed' /\ OnlyHeld' /\ Counted' /\ Verified'
  BY DEF IInv, Typed, TypeOK, OnlyHeld, Counted, Verified, Held, Announced, NameOf
<1>2. OnlyVerifiedSaid' /\ LiveNamesAreHeld'
  BY DEF IInv, OnlyVerifiedSaid, LiveNamesAreHeld, Held, NameOf
<1>3. KnownOrRepeated'
  BY DEF IInv, KnownOrRepeated, Announced, Held, NameOf, Current, Fits
<1> QED BY <1>1, <1>2, <1>3 DEF IInv

\* An announcement of T, as a step.
LEMMA Told ==
  ASSUME Typed, NEW T \in SUBSET Service, svc' \in [Service -> Shape], host'.suffix \in Suffix,
         said' = SaidBy(T, svc', host')
  PROVE  /\ said' \in [Name -> Record]
         /\ \A s \in T : NameOf(s)' \in Name /\ said'[NameOf(s)'] = Current(s)'
         /\ \A n \in Name : (\E s \in T : n = NameOf(s)') \/ said'[n] = said[n]
<1> PICK h : h = host'
  OBVIOUS
<1> PICK v \in [Service -> Shape] : v = svc'
  OBVIOUS
<1>1. said' = SaidBy(T, v, h) /\ h.suffix \in Suffix /\ said \in [Name -> Record]
  BY Types
<1>2. Tells(T, v, h, SaidBy(T, v, h))
  BY <1>1, SaidByGives
<1>3. \A s : At(s, v) = NameOf(s)'
  BY DEF At, NameOf
<1>4. \A s \in T : Current(s)' = [live |-> TRUE, txt |-> v[s].txt, host |-> h.suffix]
  BY DEF Current
<1> QED BY <1>1, <1>2, <1>3, <1>4 DEF Tells

\* The services that a step announces have a repeat behind all that waits; of the
\* others what was so stays so.
LEMMA KnownKeeps ==
  ASSUME IInv, NEW T \in SUBSET Service, host'.suffix = host.suffix, UNCHANGED answers,
         \A s \in T : \E r \in repeats' : r.service = s /\ r.after = answers,
         host'.ann => \A s \in Announced' \ T :
           /\ host.ann /\ s \in Announced /\ svc'[s] = svc[s] /\ said'[NameOf(s)] = said[NameOf(s)]
           /\ \A r \in repeats : r.service = s => r \in repeats'
  PROVE  KnownOrRepeated'
<1> SUFFICES ASSUME host'.ann, NEW s \in Announced'
             PROVE  \/ said'[NameOf(s)'] = Current(s)' /\ \A a \in answers : Fits(a, s)'
                    \/ \E r \in repeats' : r.service = s /\ \A a \in answers \ r.after : Fits(a, s)'
  BY DEF KnownOrRepeated, Fits
<1>1. CASE s \in T
  BY <1>1
<1>2. CASE s \notin T
  <2>1. /\ host.ann /\ s \in Announced /\ svc'[s] = svc[s] /\ said'[NameOf(s)] = said[NameOf(s)]
        /\ \A r \in repeats : r.service = s => r \in repeats'
    BY <1>2
  <2>2. /\ NameOf(s)' = NameOf(s) /\ Current(s)' = Current(s)
        /\ \A a \in answers : Fits(a, s)' <=> Fits(a, s)
    BY <2>1 DEF NameOf, Current, Fits
  <2>3. \/ said[NameOf(s)] = Current(s) /\ \A a \in answers : Fits(a, s)
        \/ \E r \in repeats : r.service = s /\ \A a \in answers \ r.after : Fits(a, s)
    BY <2>1 DEF IInv, KnownOrRepeated
  <2> QED BY <2>1, <2>2, <2>3
<1> QED BY <1>1, <1>2

\* The names keep their holders, and nothing goes live but what is announced.
LEMMA SaidKeeps ==
  ASSUME IInv, Typed', OnlyHeld', Verified', verified \subseteq verified', lost \subseteq lost',
         \A n \in Name : said'[n].live =>
           \/ \E s \in Announced' : n = NameOf(s)'
           \/ said[n].live /\ \A s \in Service : Held(s) /\ NameOf(s) = n =>
                (Held(s)' /\ NameOf(s)' = n) \/ n \in lost'
  PROVE  OnlyVerifiedSaid' /\ LiveNamesAreHeld'
<1> SUFFICES ASSUME NEW n \in Name, said'[n].live
             PROVE  /\ n \in verified'
                    /\ n \in lost' \/ \E s \in Service : Held(s)' /\ NameOf(s)' = n
  BY DEF OnlyVerifiedSaid, LiveNamesAreHeld
<1>1. CASE \E s \in Announced' : n = NameOf(s)'
  BY <1>1 DEF Verified, Announced
<1>2. CASE said[n].live /\ \A s \in Service : Held(s) /\ NameOf(s) = n =>
                (Held(s)' /\ NameOf(s)' = n) \/ n \in lost'
  BY <1>2 DEF IInv, OnlyVerifiedSaid, LiveNamesAreHeld
<1> QED BY <1>1, <1>2

\* A repeat says what is so, after every answer that may say otherwise.
LEMMA RepeatKeeps == ASSUME IInv, NEW r \in repeats, Repeat(r) PROVE IInv'
<1> PICK S \in SUBSET Service : S = {r.service}
  BY DEF IInv, OnlyHeld, Announced
<1>1. /\ r.after \intersect answers = {} /\ repeats' = repeats \ {r} /\ said' = SaidBy(S, svc', host')
      /\ UNCHANGED <<host, svc, timer, answers, probed, verified, lost, events>>
  BY DEF Repeat
<1>2. r.service \in Announced /\ TypeOK /\ Typed /\ svc' \in [Service -> Shape] /\ host'.suffix \in Suffix
  BY <1>1, Types DEF IInv, OnlyHeld, Typed
<1>3. /\ said' \in [Name -> Record]
      /\ \A s \in S : NameOf(s)' \in Name /\ said'[NameOf(s)'] = Current(s)'
      /\ \A n \in Name : (\E s \in S : n = NameOf(s)') \/ said'[n] = said[n]
  BY <1>1, <1>2, Told
<1>4. /\ said'[NameOf(r.service)] = Current(r.service)
      /\ \A n \in Name : n = NameOf(r.service) \/ said'[n] = said[n]
  BY <1>1, <1>3 DEF NameOf, Current
<1>5. Typed' /\ OnlyHeld' /\ Counted' /\ Verified'
  BY <1>1, <1>3 DEF IInv, Typed, TypeOK, OnlyHeld, Counted, Verified, Held, Announced, NameOf
<1>6. OnlyVerifiedSaid' /\ LiveNamesAreHeld'
  BY <1>1, <1>2, <1>4 DEF IInv, OnlyVerifiedSaid, LiveNamesAreHeld, Held, NameOf, Verified, Announced
<1>7. KnownOrRepeated'
  <2> SUFFICES ASSUME host.ann, NEW s \in Announced
               PROVE  \/ said'[NameOf(s)] = Current(s) /\ \A a \in answers : Fits(a, s)
                      \/ \E q \in repeats' : q.service = s /\ \A a \in answers \ q.after : Fits(a, s)
    <3>1. /\ host' = host /\ Announced' = Announced /\ answers' = answers
          /\ \A s : NameOf(s)' = NameOf(s) /\ Current(s)' = Current(s)
          /\ \A s, a : Fits(a, s)' <=> Fits(a, s)
      BY <1>1 DEF Announced, Held, NameOf, Current, Fits
    <3> QED BY <3>1 DEF KnownOrRepeated
  <2>0. s \in Service
    BY DEF Announced
  <2>1. CASE said[NameOf(s)] = Current(s) /\ \A a \in answers : Fits(a, s)
    BY <1>2, <1>4, <2>0, <2>1, NameGives
  <2>2. CASE \E q \in repeats : q.service = s /\ \A a \in answers \ q.after : Fits(a, s)
    <3>1. PICK q \in repeats : q.service = s /\ \A a \in answers \ q.after : Fits(a, s)
      BY <2>2
    <3>2. CASE q = r
      BY <1>1, <1>4, <3>1, <3>2
    <3>3. CASE q # r
      BY <1>1, <3>1, <3>3
    <3> QED BY <3>2, <3>3
  <2> QED BY <2>1, <2>2 DEF IInv, KnownOrRepeated
<1> QED BY <1>5, <1>6, <1>7 DEF IInv

\* A contested group probes again, under its name or the next.
LEMMA ContestedGives ==
  ASSUME NEW g \in Shape, g.suffix <= MaxSuffix
  PROVE  /\ Contested(g) \in Shape /\ Contested(g).probes = 0 /\ ~Contested(g).ann
         /\ Contested(g).is = g.is /\ (g.ann => Contested(g).suffix = g.suffix)
         /\ Contested(g).base = g.base /\ Contested(g).txt = g.txt
<1>1. /\ Probing(g) \in Shape /\ Probing(g).probes = 0 /\ ~Probing(g).ann
      /\ Probing(g).is = g.is /\ Probing(g).suffix = g.suffix
      /\ Probing(g).base = g.base /\ Probing(g).txt = g.txt
  BY ProbingGives
<1> HIDE DEF Probing
<1>2. CASE g.ann
  BY <1>1, <1>2 DEF Contested
<1>3. CASE ~g.ann
  <2> PICK q \in Shape : q = Probing(g)
    BY <1>1
  <2>1. q.suffix + 1 \in Suffix
    BY <1>1, MdnsAssumption DEF Shape, Suffix
  <2>2. Contested(g) = [q EXCEPT !.suffix = q.suffix + 1]
    BY <1>3 DEF Contested
  <2> QED BY <1>1, <1>3, <2>1, <2>2 DEF Shape
<1> QED BY <1>2, <1>3

\* So does a contested host.
LEMMA ContestedHost ==
  ASSUME host \in Group, host.suffix <= MaxSuffix
  PROVE  /\ Contested(host) \in Group /\ ~Contested(host).ann
         /\ Probing(host) \in Group /\ ~Probing(host).ann
<1> PICK g \in Group : g = host
  OBVIOUS
<1> DEFINE a == [g EXCEPT !.probes = 0]
           q == [a EXCEPT !.ann = FALSE]
<1>1. a \in Group
  BY DEF Group, kProbeCount
<1>2. q \in Group /\ ~q.ann /\ q.suffix = g.suffix /\ Probing(g) = q
  BY <1>1 DEF Group, Probing
<1> HIDE DEF q
<1>3. q.suffix + 1 \in 1 .. MaxSuffix + 1
  BY <1>2, MdnsAssumption DEF Group
<1>4. [q EXCEPT !.suffix = q.suffix + 1] \in Group /\ ~[q EXCEPT !.suffix = q.suffix + 1].ann
  BY <1>2, <1>3 DEF Group
<1> QED BY <1>2, <1>4 DEF Contested

\* The bound on events is kept.
LEMMA CountGives == ASSUME Typed, Count PROVE events' \in 0 .. MaxEvents
<1>1. events \in 0 .. MaxEvents /\ MaxEvents \in Nat
  BY MdnsAssumption DEF Typed, TypeOK
<1> QED BY <1>1 DEF Count

\* Another device's probe wins over the host's, or it answers for our host name.
LEMMA HostStepKeeps == ASSUME IInv, LoseHostProbe \/ HostConflict PROVE IInv'
<1>1. host \in Group /\ events \in 0 .. MaxEvents /\ host.suffix \in Nat
  BY MdnsAssumption DEF IInv, Typed, TypeOK, Group
<1>2. /\ UNCHANGED <<svc, repeats, answers, said, probed, verified, lost>>
      /\ timer' \in BOOLEAN /\ events' \in 0 .. MaxEvents
  BY CountGives DEF IInv, LoseHostProbe, HostConflict, StartTimer
<1>3. host' \in Group /\ ~host'.ann
  <2>1. CASE LoseHostProbe
    <3> DEFINE a == [host EXCEPT !.probes = 0]
    <3>1. a \in Group
      BY <1>1 DEF Group, kProbeCount
    <3>2. host' = [a EXCEPT !.ann = FALSE]
      BY <1>1, <2>1 DEF LoseHostProbe, Probing, Group
    <3> QED BY <3>1, <3>2 DEF Group
  <2>2. CASE HostConflict
    BY <1>1, <2>2, ContestedHost DEF HostConflict
  <2> QED BY <2>1, <2>2
<1> QED BY <1>2, <1>3, HostKeeps

\* A service is taken back to probing, or into the list, and stays or goes on silent.
LEMMA OneKeeps ==
  ASSUME IInv, NEW s \in Service, NEW g \in Shape, svc' = [svc EXCEPT ![s] = g], ~g.ann, g.probes = 0,
         g.is = "held", probed' = [probed EXCEPT ![s] = 0], repeats' = {r \in repeats : r.service # s},
         lost' = lost \/ (lost' = lost \union {NameOf(s)}),
         Held(s) => (g.base = svc[s].base /\ g.suffix = svc[s].suffix) \/ NameOf(s) \in lost',
         UNCHANGED <<host, said, answers, verified>>, timer' \in BOOLEAN, events' \in 0 .. MaxEvents
  PROVE  IInv'
<1>1. /\ svc \in [Service -> Shape] /\ said \in [Name -> Record] /\ probed \in [Service -> 0 .. kProbeCount]
      /\ TypeOK /\ NameOf(s) \in Name
  BY Types, NameGives DEF IInv, Typed
<1>2. /\ svc' \in [Service -> Shape] /\ svc'[s] = g /\ \A t \in Service : t # s => svc'[t] = svc[t]
      /\ probed' \in [Service -> 0 .. kProbeCount] /\ probed'[s] = 0
      /\ \A t \in Service : t # s => probed'[t] = probed[t]
  BY <1>1 DEF kProbeCount
<1>3. Typed'
  BY <1>1, <1>2 DEF IInv, Typed, TypeOK, Shape, Suffix
<1>4. \A t \in Service : t # s => NameOf(t)' = NameOf(t) /\ Held(t)' = Held(t)
  BY <1>2 DEF NameOf, Held
<1>5. Announced' = Announced \ {s}
  BY <1>2, <1>4 DEF Announced
<1>6. OnlyHeld' /\ Counted' /\ Verified'
  <2>1. OnlyHeld'
    BY <1>2, <1>4, <1>5 DEF IInv, OnlyHeld, Held
  <2>2. Counted'
    BY <1>2 DEF IInv, Counted
  <2>3. Verified'
    BY <1>4, <1>5 DEF IInv, Verified, Announced
  <2> QED BY <2>1, <2>2, <2>3
<1>7. OnlyVerifiedSaid' /\ LiveNamesAreHeld'
  <2>1. Held(s) => (Held(s)' /\ NameOf(s)' = NameOf(s)) \/ NameOf(s) \in lost'
    BY <1>2 DEF Held, NameOf
  <2>2. \A n \in Name : said'[n].live => said[n].live /\ \A t \in Service : Held(t) /\ NameOf(t) = n =>
                (Held(t)' /\ NameOf(t)' = n) \/ n \in lost'
    BY <1>4, <2>1
  <2>3. verified \subseteq verified' /\ lost \subseteq lost'
    OBVIOUS
  <2> QED BY <1>3, <1>6, <2>2, <2>3, SaidKeeps
<1>8. KnownOrRepeated'
  <2>1. \A t \in Announced' : /\ t \in Announced /\ svc'[t] = svc[t] /\ said'[NameOf(t)] = said[NameOf(t)]
                              /\ \A r \in repeats : r.service = t => r \in repeats'
    BY <1>2, <1>5 DEF Announced
  <2> PICK T \in SUBSET Service : T = {}
    OBVIOUS
  <2> QED BY <2>1, KnownKeeps
<1> QED BY <1>3, <1>6, <1>7, <1>8 DEF IInv

\* A lost probe takes no name: the service probes for it again.
LEMMA LoseProbeKeeps == ASSUME IInv, NEW s \in Service, LoseProbe(s) PROVE IInv'
<1> DEFINE g == Probing(svc[s])
<1>1. /\ svc \in [Service -> Shape] /\ probed \in [Service -> 0 .. kProbeCount]
      /\ Held(s) /\ ~svc[s].ann
  BY Types DEF IInv, LoseProbe, Unsaid
<1>2. /\ g \in Shape /\ g.probes = 0 /\ ~g.ann /\ g.is = "held"
      /\ g.base = svc[s].base /\ g.suffix = svc[s].suffix
  BY <1>1, ProbingGives DEF Held
<1>3. /\ svc' = [svc EXCEPT ![s] = g] /\ timer' \in BOOLEAN
      /\ UNCHANGED <<host, repeats, answers, said, verified, lost>>
  BY DEF LoseProbe, StartTimer
<1>4. probed' = [probed EXCEPT ![s] = 0]
  BY <1>1 DEF LoseProbe, Forgotten
<1>5. repeats' = {r \in repeats : r.service # s}
  BY <1>1, <1>3 DEF IInv, OnlyHeld, Announced
<1>6. events' \in 0 .. MaxEvents
  BY CountGives DEF IInv, LoseProbe
<1> HIDE DEF g
<1> QED BY <1>2, <1>3, <1>4, <1>5, <1>6, OneKeeps

\* A name that is being probed for is lost; one that was announced is probed for again.
LEMMA ConflictKeeps == ASSUME IInv, NEW s \in Service, Conflict(s) PROVE IInv'
<1> DEFINE g == Contested(svc[s])
<1>1. /\ svc \in [Service -> Shape] /\ probed \in [Service -> 0 .. kProbeCount]
      /\ Held(s) /\ svc[s].suffix <= MaxSuffix
  BY Types DEF IInv, Conflict
<1>2. /\ g \in Shape /\ g.probes = 0 /\ ~g.ann /\ g.is = "held"
      /\ g.base = svc[s].base /\ (svc[s].ann => g.suffix = svc[s].suffix)
  BY <1>1, ContestedGives DEF Held
<1>3. /\ svc' = [svc EXCEPT ![s] = g] /\ timer' \in BOOLEAN
      /\ lost' = IF svc[s].ann THEN lost ELSE lost \union {NameOf(s)}
      /\ UNCHANGED <<host, answers, said, verified>>
  BY DEF Conflict, StartTimer
<1>4. probed' = [probed EXCEPT ![s] = 0]
  BY <1>1 DEF Conflict, Forgotten
<1>5. repeats' = {r \in repeats : r.service # s}
  BY DEF Conflict, Silenced
<1>6. events' \in 0 .. MaxEvents
  BY CountGives DEF IInv, Conflict
<1> HIDE DEF g
<1>7. /\ lost' = lost \/ lost' = lost \union {NameOf(s)}
      /\ Held(s) => (g.base = svc[s].base /\ g.suffix = svc[s].suffix) \/ NameOf(s) \in lost'
  BY <1>2, <1>3
<1> QED BY <1>2, <1>3, <1>4, <1>5, <1>6, <1>7, OneKeeps

\* A service comes into the list with nothing probed.
LEMMA AddKeeps == ASSUME IInv, NEW s \in Service, NEW b \in Base, AddService(s, b) PROVE IInv'
<1> DEFINE g == [Absent EXCEPT !.is = "held", !.base = b]
<1>1. /\ svc \in [Service -> Shape] /\ probed \in [Service -> 0 .. kProbeCount]
      /\ svc[s] = Absent /\ ~Held(s) /\ ~svc[s].ann
  BY Types, AbsentShape DEF IInv, AddService, Held
<1>2. g \in Shape /\ g.probes = 0 /\ ~g.ann /\ g.is = "held"
  <2> DEFINE a == [Absent EXCEPT !.is = "held"]
  <2>1. a \in Shape
    BY AbsentShape DEF Shape
  <2>2. g = [a EXCEPT !.base = b]
    BY AbsentShape DEF Shape
  <2>3. g.probes = 0 /\ ~g.ann /\ g.is = "held"
    BY AbsentShape DEF Shape
  <2> QED BY <2>1, <2>2, <2>3 DEF Shape
<1>3. /\ svc' = [svc EXCEPT ![s] = g] /\ timer' \in BOOLEAN
      /\ UNCHANGED <<host, repeats, answers, said, probed, verified, lost, events>>
  BY <1>1 DEF AddService, StartTimer
<1>4. probed' = [probed EXCEPT ![s] = 0]
  BY <1>1, <1>3, AbsentShape DEF IInv, Counted
<1>5. repeats' = {r \in repeats : r.service # s}
  BY <1>1, <1>3 DEF IInv, OnlyHeld, Announced
<1>6. events' \in 0 .. MaxEvents
  BY <1>3 DEF IInv, Typed, TypeOK
<1> HIDE DEF g
<1> QED BY <1>1, <1>2, <1>3, <1>4, <1>5, <1>6, OneKeeps

\* A goodbye leaves no name of S live, and the others as they were.
LEMMA GoodbyeGives ==
  ASSUME said \in [Name -> Record], NEW S \in SUBSET Service
  PROVE  /\ SaidGoodbye(S) \in [Name -> Record]
         /\ \A n \in Name : SaidGoodbye(S)[n].live => said[n].live /\ \A s \in S : n # NameOf(s)
<1>1. Nothing \in Record /\ ~Nothing.live
  BY MdnsAssumption DEF Nothing, Record
<1> QED BY <1>1 DEF SaidGoodbye

\* All services leave their names, with a goodbye or as lost ones.
LEMMA AllKeep ==
  ASSUME IInv, svc' \in [Service -> Shape], \A s \in Service : ~svc'[s].ann,
         \A s \in Service : svc'[s].is # "gone" =>
            /\ svc'[s].is = svc[s].is /\ (~Held(s) => svc'[s] = svc[s])
            /\ (Held(s) => svc'[s].probes = 0 /\ probed'[s] = 0) /\ (~Held(s) => probed'[s] = probed[s]),
         said' = SaidGoodbye(Announced), lost' = lost \union {NameOf(s) : s \in Unsaid}, repeats' = {},
         probed' \in [Service -> 0 .. kProbeCount],
         UNCHANGED <<host, answers, verified>>, timer' \in BOOLEAN, events' \in 0 .. MaxEvents
  PROVE  IInv'
<1>1. /\ said \in [Name -> Record] /\ Announced \in SUBSET Service
      /\ TypeOK /\ \A s \in Service : NameOf(s) \in Name
  BY Types, NameGives DEF IInv, Typed, Announced
<1>2. PICK S \in SUBSET Service : S = Announced
  BY <1>1
<1>3. /\ said' \in [Name -> Record]
      /\ \A n \in Name : said'[n].live => said[n].live /\ \A s \in Announced : n # NameOf(s)
  BY <1>1, <1>2, GoodbyeGives
<1>4. Announced' = {}
  BY DEF Announced
<1>5. Typed'
  BY <1>1, <1>3 DEF IInv, Typed, TypeOK, Shape, Suffix, Unsaid
<1>6. OnlyHeld' /\ Verified'
  BY <1>4 DEF IInv, OnlyHeld, Verified
<1>7. Counted'
  BY DEF IInv, Counted, Held
<1>8. OnlyVerifiedSaid' /\ LiveNamesAreHeld'
  <2>1. verified \subseteq verified' /\ lost \subseteq lost'
    OBVIOUS
  <2>2. ASSUME NEW n \in Name, said'[n].live
        PROVE  said[n].live /\ \A s \in Service : Held(s) /\ NameOf(s) = n => n \in lost'
    BY <1>3, <2>2 DEF Announced, Unsaid
  <2> QED BY <1>5, <1>6, <2>1, <2>2, SaidKeeps
<1>9. KnownOrRepeated'
  BY <1>4 DEF KnownOrRepeated
<1> QED BY <1>5, <1>6, <1>7, <1>8, <1>9 DEF IInv

\* Every service takes the new name, and none is announced under it.
LEMMA RenameKeeps == ASSUME IInv, NEW b \in Base, RenameAll(b) PROVE IInv'
<1>1. svc \in [Service -> Shape] /\ probed \in [Service -> 0 .. kProbeCount]
  BY Types DEF IInv
<1>2. ASSUME NEW g \in Shape
      PROVE  LET q == [Probing(g) EXCEPT !.base = b, !.suffix = 1] IN
             q \in Shape /\ ~q.ann /\ q.probes = 0 /\ q.is = g.is
  <2> PICK x \in Shape : x = Probing(g) /\ x.probes = 0 /\ ~x.ann /\ x.is = g.is
    BY ProbingGives
  <2> DEFINE a == [x EXCEPT !.base = b]
  <2>1. a \in Shape /\ 1 \in Suffix
    BY MdnsAssumption DEF Shape, Suffix
  <2>2. [x EXCEPT !.base = b, !.suffix = 1] = [a EXCEPT !.suffix = 1]
    BY DEF Shape
  <2>3. [a EXCEPT !.suffix = 1] \in Shape
    BY <2>1 DEF Shape
  <2>4. LET q == [x EXCEPT !.base = b, !.suffix = 1] IN ~q.ann /\ q.probes = 0 /\ q.is = g.is
    BY DEF Shape
  <2> QED BY <2>2, <2>3, <2>4
<1>3. \A s \in Service : IF Held(s) THEN svc'[s] \in Shape /\ ~svc'[s].ann /\ svc'[s].probes = 0 /\ svc'[s].is = svc[s].is
                                    ELSE svc'[s] = svc[s]
  BY <1>1, <1>2 DEF RenameAll
<1>4. svc' \in [Service -> Shape] /\ \A s \in Service : ~svc'[s].ann
  <2>1. \A s \in Service : svc'[s] \in Shape /\ ~svc'[s].ann
    BY <1>1, <1>3 DEF IInv, OnlyHeld
  <2> QED BY <2>1 DEF RenameAll
<1>5. /\ probed' \in [Service -> 0 .. kProbeCount]
      /\ \A s \in Service : probed'[s] = IF Held(s) THEN 0 ELSE probed[s]
  <2> PICK H : H = {s \in Service : Held(s)}
    OBVIOUS
  <2>1. probed' = [s \in Service |-> IF s \in H THEN 0 ELSE probed[s]]
    BY DEF RenameAll, Forgotten
  <2>2. probed' \in [Service -> 0 .. kProbeCount]
    BY <1>1, <2>1 DEF kProbeCount
  <2> QED BY <2>1, <2>2 DEF Held
<1>6. /\ said' = SaidGoodbye(Announced) /\ lost' = lost \union {NameOf(s) : s \in Unsaid} /\ repeats' = {}
      /\ UNCHANGED <<host, answers, verified>> /\ timer' \in BOOLEAN
  BY DEF RenameAll, GoodbyeOnRename, StartTimer, IInv, Typed, TypeOK
<1>7. events' \in 0 .. MaxEvents
  BY CountGives DEF IInv, RenameAll
<1>8. \A s \in Service : svc'[s].is # "gone" =>
            /\ svc'[s].is = svc[s].is /\ (~Held(s) => svc'[s] = svc[s])
            /\ (Held(s) => svc'[s].probes = 0 /\ probed'[s] = 0) /\ (~Held(s) => probed'[s] = probed[s])
  BY <1>3, <1>5
<1> QED BY <1>4, <1>5, <1>6, <1>7, <1>8, AllKeep

\* The list is empty.
LEMMA ShutdownKeeps == ASSUME IInv, Shutdown PROVE IInv'
<1>1. /\ svc' \in [Service -> Shape] /\ \A s \in Service : ~svc'[s].ann /\ svc'[s].is = "gone"
      /\ said' = SaidGoodbye(Announced) /\ lost' = lost \union {NameOf(s) : s \in Unsaid} /\ repeats' = {}
      /\ UNCHANGED <<host, timer, answers, probed, verified, events>>
  BY AbsentShape DEF Shutdown
<1>2. probed' \in [Service -> 0 .. kProbeCount] /\ timer' \in BOOLEAN /\ events' \in 0 .. MaxEvents
  BY <1>1 DEF IInv, Typed, TypeOK
<1> QED BY <1>1, <1>2, AllKeep

\* Records change, but no name, holder or answer: the services T are announced again
\* or for the first time, with repeats behind the answers that wait.
LEMMA TellKeeps ==
  ASSUME IInv, Typed', OnlyHeld', Counted', Verified', NEW T \in SUBSET Service, T \subseteq Announced',
         svc' \in [Service -> Shape], said' = SaidBy(T, svc', host'), repeats' = (repeats \ {r \in repeats : r.service \in T}) \union Copies(T)
           \/ repeats' = repeats \union Copies(T),
         \A s \in Service : NameOf(s)' = NameOf(s) /\ Held(s)' = Held(s),
         host'.suffix = host.suffix, UNCHANGED <<answers, lost>>, verified \subseteq verified',
         host'.ann => \A s \in Announced' \ T : host.ann /\ s \in Announced /\ svc'[s] = svc[s]
  PROVE  IInv'
<1>1. TypeOK /\ Typed /\ host'.suffix \in Suffix /\ Announced \subseteq Service /\ Announced' \subseteq Service
  BY Types DEF IInv, Typed, Announced
<1>2. /\ \A s \in T : NameOf(s)' \in Name /\ said'[NameOf(s)'] = Current(s)'
      /\ \A n \in Name : (\E s \in T : n = NameOf(s)') \/ said'[n] = said[n]
  BY <1>1, Told
<1>3. OnlyVerifiedSaid' /\ LiveNamesAreHeld'
  <2>1. ASSUME NEW n \in Name, said'[n].live
        PROVE  \/ \E s \in Announced' : n = NameOf(s)'
               \/ said[n].live /\ \A s \in Service : Held(s) /\ NameOf(s) = n =>
                    (Held(s)' /\ NameOf(s)' = n) \/ n \in lost'
    BY <1>2, <2>1
  <2>2. lost \subseteq lost'
    OBVIOUS
  <2> QED BY <2>1, <2>2, SaidKeeps
<1>4. KnownOrRepeated'
  <2>1. \A s \in T : \E r \in repeats' : r.service = s /\ r.after = answers
    BY CopiesGive
  <2>2. ASSUME host'.ann, NEW s \in Announced' \ T
        PROVE  /\ host.ann /\ s \in Announced /\ svc'[s] = svc[s] /\ said'[NameOf(s)] = said[NameOf(s)]
               /\ \A r \in repeats : r.service = s => r \in repeats'
    <3>1. \A t \in T : NameOf(t)' # NameOf(s)
      BY <1>1, NameGives
    <3>2. NameOf(s) \in Name
      BY <1>1, NameGives
    <3> QED BY <1>2, <2>2, <3>1, <3>2
  <2> QED BY <2>1, <2>2, KnownKeeps
<1> QED BY <1>3, <1>4 DEF IInv

\* updateTxt(): a service that is announced is announced again.
LEMMA UpdateKeeps == ASSUME IInv, NEW s \in Service, UpdateTxt(s) PROVE IInv'
<1>1. /\ svc \in [Service -> Shape] /\ said \in [Name -> Record] /\ host.suffix \in Suffix
      /\ Typed /\ TypeOK /\ Held(s) /\ svc[s].txt + 1 \in 0 .. MaxTxt
  BY Types, MdnsAssumption DEF IInv, UpdateTxt, Shape, Typed
<1>2. PICK g : g = [svc[s] EXCEPT !.txt = @ + 1]
  OBVIOUS
<1>3. /\ g \in Shape /\ g.is = svc[s].is /\ g.base = svc[s].base /\ g.suffix = svc[s].suffix
      /\ g.ann = svc[s].ann /\ g.probes = svc[s].probes
  BY <1>1, <1>2 DEF Shape
<1>4. /\ svc' = [svc EXCEPT ![s] = g] /\ svc' \in [Service -> Shape]
      /\ UNCHANGED <<host, timer, answers, probed, verified, lost, events>>
  BY <1>1, <1>2, <1>3 DEF UpdateTxt
<1>5. /\ \A t \in Service : NameOf(t)' = NameOf(t) /\ Held(t)' = Held(t) /\ svc'[t].ann = svc[t].ann
           /\ svc'[t].probes = svc[t].probes /\ svc'[t].is = svc[t].is
      /\ \A t \in Service : t # s => svc'[t] = svc[t]
      /\ Announced' = Announced
  BY <1>1, <1>3, <1>4 DEF NameOf, Held, Announced
<1>6. Counted' /\ Verified'
  <2>1. Counted'
    BY <1>1, <1>4, <1>5, AbsentShape DEF IInv, Counted, Held
  <2>2. Verified'
    BY <1>4, <1>5 DEF IInv, Verified, Announced
  <2> QED BY <2>1, <2>2
<1>7. CASE svc[s].ann
  <2> PICK T \in SUBSET Service : T = {s}
    OBVIOUS
  <2>1. /\ said' = SaidBy(T, svc', host')
        /\ repeats' = (repeats \ {r \in repeats : r.service \in T}) \union Copies(T)
    BY <1>4, <1>7 DEF UpdateTxt, Updated, Silenced
  <2>2. said' \in [Name -> Record]
    BY <1>1, <1>4, <2>1, Told
  <2>3. \A r \in repeats' : r.service \in Announced /\ r.service \in Service /\ r.copy \in 1 .. 2
    BY <1>1, <1>7, <2>1, CopiesGive DEF IInv, OnlyHeld, Typed, TypeOK, Announced
  <2>4. Typed' /\ OnlyHeld'
    BY <1>4, <1>5, <2>2, <2>3 DEF IInv, Typed, TypeOK, OnlyHeld, Shape, Suffix
  <2>5. T \subseteq Announced' /\ \A t \in Announced' \ T : t \in Announced /\ svc'[t] = svc[t]
    BY <1>1, <1>5, <1>7 DEF Announced
  <2> QED BY <1>4, <1>5, <1>6, <2>1, <2>4, <2>5, TellKeeps
<1>8. CASE ~svc[s].ann
  <2>1. UNCHANGED <<said, repeats>>
    BY <1>8 DEF UpdateTxt
  <2>2. Typed' /\ OnlyHeld'
    BY <1>1, <1>4, <1>5, <2>1 DEF IInv, Typed, TypeOK, OnlyHeld, Shape, Suffix
  <2>3. OnlyVerifiedSaid' /\ LiveNamesAreHeld'
    BY <1>4, <1>5, <2>1 DEF IInv, OnlyVerifiedSaid, LiveNamesAreHeld
  <2>4. KnownOrRepeated'
    <3> PICK T \in SUBSET Service : T = {}
      OBVIOUS
    <3>1. \A t \in Announced' : t \in Announced /\ svc'[t] = svc[t]
      BY <1>5, <1>8 DEF Announced
    <3>2. host'.suffix = host.suffix /\ host'.ann = host.ann
      BY <1>4
    <3> QED BY <1>4, <2>1, <3>1, <3>2, KnownKeeps DEF IInv, KnownOrRepeated
  <2> QED BY <1>6, <2>2, <2>3, <2>4 DEF IInv
<1> QED BY <1>7, <1>8

\* rescanInterfaces(): what is announced is announced again.
LEMMA RescanKeeps == ASSUME IInv, RescanInterfaces PROVE IInv'
<1> PICK T \in SUBSET Service : T = Announced
  BY DEF Announced
<1>1. /\ Typed /\ TypeOK /\ host.ann /\ svc \in [Service -> Shape] /\ host.suffix \in Suffix
      /\ said' = SaidBy(T, svc', host') /\ repeats' = repeats \union Copies(T)
      /\ UNCHANGED <<host, svc, timer, answers, probed, verified, lost>>
  BY Types DEF IInv, RescanInterfaces, Typed
<1>2. said' \in [Name -> Record] /\ events' \in 0 .. MaxEvents
  BY <1>1, Told, CountGives DEF RescanInterfaces
<1>3. \A r \in repeats' : r.service \in Announced /\ r.service \in Service /\ r.copy \in 1 .. 2
  BY <1>1, CopiesGive DEF IInv, OnlyHeld, Typed, TypeOK, Announced
<1>4. Announced' = Announced /\ \A s \in Service : NameOf(s)' = NameOf(s) /\ Held(s)' = Held(s)
  BY <1>1 DEF Announced, Held, NameOf
<1>5. Typed' /\ OnlyHeld' /\ Counted' /\ Verified'
  BY <1>1, <1>2, <1>3, <1>4 DEF IInv, Typed, TypeOK, OnlyHeld, Counted, Verified, Announced
<1>6. /\ host'.suffix = host.suffix /\ verified \subseteq verified' /\ svc' \in [Service -> Shape]
      /\ T \subseteq Announced' /\ \A s \in Announced' \ T : host.ann /\ s \in Announced /\ svc'[s] = svc[s]
  BY <1>1, <1>4
<1> QED BY <1>1, <1>4, <1>5, <1>6, TellKeeps

\* What an answer is made from is so.
LEMMA QueryKeeps == ASSUME IInv, HandleQuery PROVE IInv'
<1>1. /\ answers' = answers \union {Snapshot} /\ TypeOK /\ svc \in [Service -> Shape] /\ host.suffix \in Suffix
      /\ UNCHANGED <<host, svc, timer, repeats, said, probed, verified, lost, events>>
  BY Types DEF IInv, Typed, HandleQuery
<1>2. \A r \in Snapshot : \E s \in Announced : r = [name |-> NameOf(s), txt |-> svc[s].txt, host |-> host.suffix]
  BY DEF Snapshot
<1>3. \A r \in Snapshot : r \in Datum /\ r.name \in verified /\ r.name \in Name
  <2> SUFFICES ASSUME NEW s \in Announced
               PROVE  /\ NameOf(s) \in Name /\ NameOf(s) \in verified
                      /\ svc[s].txt \in 0 .. MaxTxt
    BY <1>1, <1>2 DEF Datum
  <2> QED BY <1>1, NameGives DEF IInv, Verified, Announced, Shape
<1>4. \A s \in Announced : Fits(Snapshot, s)
  <2> SUFFICES ASSUME NEW s \in Announced, NEW r \in Snapshot, r.name = NameOf(s)
               PROVE  r.txt = svc[s].txt /\ r.host = host.suffix
    BY DEF Fits
  <2>1. PICK t \in Announced : r = [name |-> NameOf(t), txt |-> svc[t].txt, host |-> host.suffix]
    BY <1>2
  <2>2. s = t
    BY <1>1, <2>1, NameGives DEF Announced
  <2> QED BY <2>1, <2>2
<1>5. Typed' /\ OnlyHeld' /\ Counted' /\ Verified'
  <2>1. Typed'
    BY <1>1, <1>3 DEF IInv, Typed, TypeOK
  <2>2. OnlyHeld' /\ Counted'
    BY <1>1 DEF IInv, OnlyHeld, Counted, Held, Announced
  <2>3. Verified'
    BY <1>1, <1>3 DEF IInv, Verified, Held, Announced, NameOf
  <2> QED BY <2>1, <2>2, <2>3
<1>6. OnlyVerifiedSaid' /\ LiveNamesAreHeld'
  BY <1>1 DEF IInv, OnlyVerifiedSaid, LiveNamesAreHeld, Held, NameOf
<1>7. KnownOrRepeated'
  <2>1. /\ Announced' = Announced /\ \A s : NameOf(s)' = NameOf(s) /\ Current(s)' = Current(s)
        /\ \A s, a : Fits(a, s)' <=> Fits(a, s)
    BY <1>1 DEF Announced, Held, NameOf, Current, Fits
  <2> QED BY <1>1, <1>4, <2>1 DEF IInv, KnownOrRepeated
<1> QED BY <1>5, <1>6, <1>7 DEF IInv

\* An answer that waited says what was so, of names that were verified; the names it
\* revives are lost.
LEMMA AnswerKeeps == ASSUME IInv, NEW a \in answers, SendAnswer(a) PROVE IInv'
<1>1. /\ answers' = answers \ {a} /\ TypeOK /\ said \in [Name -> Record]
      /\ \A r \in a : r \in Datum /\ r.name \in verified
      /\ UNCHANGED <<host, svc, timer, repeats, probed, verified, events>>
  BY Types DEF IInv, Typed, SendAnswer, Verified
<1>2. \A n \in Name :
        \/ said'[n] = said[n] /\ \A r \in a : r.name # n
        \/ \E r \in a : r.name = n /\ said'[n] = [live |-> TRUE, txt |-> r.txt, host |-> r.host]
  <2> SUFFICES ASSUME NEW n \in Name, NEW q \in a, q.name = n
               PROVE  \E r \in a : r.name = n /\ said'[n] = [live |-> TRUE, txt |-> r.txt, host |-> r.host]
    BY DEF SendAnswer
  <2> DEFINE r == CHOOSE x \in a : x.name = n
  <2>1. r \in a /\ r.name = n
    OBVIOUS
  <2>2. said'[n] = [live |-> TRUE, txt |-> r.txt, host |-> r.host]
    BY DEF SendAnswer
  <2> HIDE DEF r
  <2> QED BY <2>1, <2>2
<1>3. said' \in [Name -> Record]
  <2>1. \A n \in Name : said'[n] \in Record
    <3> SUFFICES ASSUME NEW n \in Name, NEW r \in Datum,
                        said'[n] = [live |-> TRUE, txt |-> r.txt, host |-> r.host]
                 PROVE  said'[n] \in Record
      BY <1>1, <1>2
    <3> QED BY MdnsAssumption DEF Datum, Suffix, Record
  <2> QED BY <2>1 DEF SendAnswer
<1>4. lost \subseteq lost' /\ lost' \subseteq Name /\ \A r \in a : said[r.name].live \/ r.name \in lost'
  BY <1>1 DEF SendAnswer, Datum, IInv, Typed, TypeOK
<1>5. Typed' /\ OnlyHeld' /\ Counted' /\ Verified'
  <2>1. Typed'
    BY <1>1, <1>3, <1>4 DEF IInv, Typed, TypeOK
  <2>2. OnlyHeld' /\ Counted' /\ Verified'
    BY <1>1 DEF IInv, OnlyHeld, Counted, Verified, Held, Announced, NameOf
  <2> QED BY <2>1, <2>2
<1>6. OnlyVerifiedSaid' /\ LiveNamesAreHeld'
  <2>1. \A n \in Name : said'[n].live => said[n].live \/ (n \in verified /\ n \in lost')
    BY <1>1, <1>2, <1>4
  <2> QED BY <1>1, <1>4, <2>1 DEF IInv, OnlyVerifiedSaid, LiveNamesAreHeld, Held, NameOf
<1>7. KnownOrRepeated'
  <2>1. /\ Announced' = Announced /\ host' = host /\ repeats' = repeats
        /\ \A s : NameOf(s)' = NameOf(s) /\ Current(s)' = Current(s)
        /\ \A s, b : Fits(b, s)' <=> Fits(b, s)
    BY <1>1 DEF Announced, Held, NameOf, Current, Fits
  <2>2. \A s \in Announced : said[NameOf(s)] = Current(s) /\ Fits(a, s) => said'[NameOf(s)] = Current(s)
    <3> SUFFICES ASSUME NEW s \in Announced, said[NameOf(s)] = Current(s), Fits(a, s)
                 PROVE  said'[NameOf(s)] = Current(s)
      OBVIOUS
    <3>1. NameOf(s) \in Name
      BY <1>1, NameGives DEF Announced
    <3>2. CASE said'[NameOf(s)] = said[NameOf(s)]
      BY <3>2
    <3>3. CASE \E r \in a : r.name = NameOf(s) /\ said'[NameOf(s)] = [live |-> TRUE, txt |-> r.txt, host |-> r.host]
      BY <3>3 DEF Fits, Current
    <3> QED BY <1>2, <3>1, <3>2, <3>3
  <2> QED BY <1>1, <2>1, <2>2 DEF IInv, KnownOrRepeated
<1> QED BY <1>5, <1>6, <1>7 DEF IInv

\* What a tick does to the host and to the services.
LEMMA TickGives ==
  ASSUME IInv, NEW hostDue \in BOOLEAN, NEW due \in SUBSET Service, ProbeTick(hostDue, due)
  PROVE  /\ host' \in Group /\ host'.suffix = host.suffix /\ (host.ann => host' = host)
         /\ \A s \in Service :
              /\ svc'[s] \in Shape /\ svc'[s].is = svc[s].is /\ svc'[s].base = svc[s].base
              /\ svc'[s].txt = svc[s].txt /\ svc'[s].suffix = svc[s].suffix
              /\ svc[s].ann => svc'[s] = svc[s]
              /\ ~Held(s) => svc'[s] = svc[s]
              /\ svc'[s].ann /\ ~svc[s].ann => host'.ann /\ Held(s) /\ svc[s].probes = kProbeCount
              /\ svc'[s].probes = svc[s].probes \/ svc'[s].probes = svc[s].probes + 1
<1>1. /\ svc \in [Service -> Shape] /\ host \in Group /\ host.ann \in BOOLEAN /\ host.suffix \in Suffix /\ Typed /\ TypeOK
      /\ probed \in [Service -> 0 .. kProbeCount]
  BY Types DEF IInv, Typed, Group
<1>2. host' = Stepped(host, hostDue, TRUE) /\ CanAnnounce(host') \in BOOLEAN
  BY <1>1, SteppedGives DEF ProbeTick, CanAnnounce, Group
<1>3. host' \in Group /\ host'.suffix = host.suffix /\ (host.ann => host' = host)
  BY <1>1, <1>2, SteppedGives
<1>4. \A s \in Service : svc'[s] = IF Held(s) THEN Stepped(svc[s], s \in due, CanAnnounce(host')) ELSE svc[s]
  BY DEF ProbeTick
<1>5. ASSUME NEW s \in Service
      PROVE  /\ svc'[s] \in Shape /\ svc'[s].is = svc[s].is /\ svc'[s].base = svc[s].base
             /\ svc'[s].txt = svc[s].txt /\ svc'[s].suffix = svc[s].suffix
             /\ svc[s].ann => svc'[s] = svc[s]
             /\ ~Held(s) => svc'[s] = svc[s]
             /\ svc'[s].ann /\ ~svc[s].ann => host'.ann /\ Held(s) /\ svc[s].probes = kProbeCount
             /\ svc'[s].probes = svc[s].probes \/ svc'[s].probes = svc[s].probes + 1
  <2>1. CASE Held(s)
    <3> PICK g \in Shape : g = svc[s]
      BY <1>1
    <3> PICK c \in BOOLEAN : c = CanAnnounce(host')
      BY <1>2, Zenon
    <3>1. svc'[s] = Stepped(g, TRUE, c) \/ svc'[s] = Stepped(g, FALSE, c)
      BY <1>4, <2>1 DEF Stepped
    <3> PICK d \in BOOLEAN : svc'[s] = Stepped(g, d, c)
      BY <3>1
    <3>2. Step(g, c, svc'[s])
      BY SteppedService, Zenon
    <3>3. c => host'.ann
      BY DEF CanAnnounce
    <3> QED BY <2>1, <3>2, <3>3 DEF Step
  <2>2. CASE ~Held(s)
    BY <1>1, <1>4, <2>2 DEF Shape
  <2> QED BY <2>1, <2>2
<1> QED BY <1>3, <1>5

\* A tick announces what was probed for three times, once the host name is announced.
LEMMA TickKeeps ==
  ASSUME IInv, NEW hostDue \in BOOLEAN, NEW due \in SUBSET Service, ProbeTick(hostDue, due)
  PROVE  IInv'
<1> DEFINE new == {s \in Service : svc'[s].ann /\ ~svc[s].ann}
           told == new \union IF host'.ann /\ ~host.ann THEN {s \in Service : svc[s].ann} ELSE {}
<1>1. /\ svc \in [Service -> Shape] /\ host \in Group /\ host.ann \in BOOLEAN /\ host.suffix \in Suffix /\ Typed /\ TypeOK
      /\ probed \in [Service -> 0 .. kProbeCount]
  BY Types DEF IInv, Typed, Group
<1>3. host' \in Group /\ host'.suffix = host.suffix /\ (host.ann => host' = host)
  BY TickGives
<1>5. ASSUME NEW s \in Service
      PROVE  /\ svc'[s] \in Shape /\ svc'[s].is = svc[s].is /\ svc'[s].base = svc[s].base
             /\ svc'[s].txt = svc[s].txt /\ svc'[s].suffix = svc[s].suffix
             /\ svc[s].ann => svc'[s] = svc[s]
             /\ ~Held(s) => svc'[s] = svc[s]
             /\ svc'[s].ann /\ ~svc[s].ann => host'.ann /\ Held(s) /\ svc[s].probes = kProbeCount
             /\ svc'[s].probes = svc[s].probes \/ svc'[s].probes = svc[s].probes + 1
  BY TickGives
<1>6. svc' \in [Service -> Shape]
  BY <1>5 DEF ProbeTick
<1>7. /\ \A s \in Service : NameOf(s)' = NameOf(s) /\ Held(s)' = Held(s)
      /\ Announced' = Announced \union new
  BY <1>5 DEF NameOf, Held, Announced, IInv, OnlyHeld
<1> PICK T \in SUBSET Service : T = told
  OBVIOUS
<1>8. /\ said' = SaidBy(T, svc', host') /\ repeats' = repeats \union Copies(T)
      /\ probed' = [s \in Service |-> IF svc[s].probes < svc'[s].probes THEN probed[s] + 1 ELSE probed[s]]
      /\ verified' = verified \union {NameOf(s) : s \in {t \in new : probed[t] = kProbeCount}}
      /\ timer' = (~host.ann \/ Unsaid # {}) /\ UNCHANGED <<answers, lost, events>>
  <2> DEFINE v == [s \in Service |-> IF Held(s) THEN Stepped(svc[s], s \in due, CanAnnounce(host')) ELSE svc[s]]
  <2>1. host' = Stepped(host, hostDue, TRUE) /\ svc' = v
    BY DEF ProbeTick
  <2> HIDE DEF v
  <2> QED BY <2>1 DEF ProbeTick, v
<1>9. T \subseteq Announced' /\ (host'.ann => \A s \in Announced' \ T : host.ann /\ s \in Announced /\ svc'[s] = svc[s])
  <2>1. T \subseteq Announced'
    BY <1>5, <1>7 DEF Announced, IInv, OnlyHeld, Held
  <2>2. ASSUME host'.ann, NEW s \in Announced' \ T PROVE host.ann /\ s \in Announced /\ svc'[s] = svc[s]
    <3>1. s \in Service /\ svc'[s].ann /\ s \notin new /\ s \in Announced
      BY <1>7, <2>2 DEF Announced
    <3> QED BY <1>5, <2>2, <3>1 DEF Announced
  <2> QED BY <2>1, <2>2
<1>10. Counted' /\ probed' \in [Service -> 0 .. kProbeCount]
  <2>1. ASSUME NEW s \in Service, svc[s].is # "gone"
        PROVE  probed'[s] = svc'[s].probes /\ (svc'[s].is = "unborn" => svc'[s] = Absent)
    <3>1. probed[s] = svc[s].probes /\ (svc[s].is = "unborn" => svc[s] = Absent) /\ svc[s].probes \in 0 .. kProbeCount
      BY <1>1, <2>1 DEF IInv, Counted, Shape
    <3>2. svc'[s].probes = svc[s].probes \/ svc'[s].probes = svc[s].probes + 1
      BY <1>5
    <3>3. probed'[s] = svc'[s].probes
      BY <1>8, <3>1, <3>2 DEF kProbeCount
    <3>4. svc[s].is = "unborn" => ~Held(s)
      BY DEF Held
    <3> QED BY <1>5, <3>1, <3>3, <3>4
  <2>2. ASSUME NEW s \in Service PROVE probed'[s] \in 0 .. kProbeCount
    <3>1. CASE svc[s].is # "gone"
      BY <1>5, <2>1, <3>1 DEF Shape
    <3>2. CASE svc[s].is = "gone"
      <4>1. svc'[s] = svc[s] /\ svc[s].probes \in 0 .. kProbeCount
        BY <1>1, <1>5, <3>2 DEF Held, Shape
      <4> QED BY <1>1, <1>8, <4>1 DEF kProbeCount
    <3> QED BY <3>1, <3>2
  <2> QED BY <1>5, <1>8, <2>1, <2>2 DEF Counted
<1>11. Verified'
  <2>1. ASSUME NEW s \in new PROVE NameOf(s) \in verified'
    <3>1. probed[s] = kProbeCount
      BY <1>5, <2>1 DEF IInv, Counted, Held
    <3> QED BY <1>8, <3>1
  <2> QED BY <1>7, <1>8, <2>1 DEF IInv, Verified, Announced
<1>12. Typed' /\ OnlyHeld'
  <2>1. said' \in [Name -> Record]
    BY <1>1, <1>3, <1>6, <1>8, Told DEF Group, Suffix
  <2>2. \A r \in repeats' : r.service \in Announced' /\ r.service \in Service /\ r.copy \in 1 .. 2
    BY <1>7, <1>8, <1>9, CopiesGive DEF IInv, OnlyHeld, Typed, TypeOK
  <2>3. verified' \subseteq Name
    <3>1. verified \subseteq Name /\ \A s \in Service : NameOf(s) \in Name
      BY <1>1, NameGives DEF TypeOK
    <3> QED BY <1>8, <3>1
  <2>4. timer' \in BOOLEAN
    BY <1>8
  <2>5. Typed'
    BY <1>1, <1>3, <1>6, <1>8, <1>10, <2>1, <2>2, <2>3, <2>4 DEF Typed, TypeOK, Shape, Suffix
  <2>6. OnlyHeld'
    BY <1>5, <1>7, <2>2 DEF IInv, OnlyHeld
  <2> QED BY <2>5, <2>6
<1>13. verified \subseteq verified'
  BY <1>8
<1> HIDE DEF new, told
<1> QED BY <1>3, <1>6, <1>7, <1>8, <1>9, <1>10, <1>11, <1>12, <1>13, TellKeeps

\* Every reachable state satisfies the invariant.
THEOREM Invariance == Spec => []IInv
<1>1. IInv /\ [Next]_vars => IInv'
  <2> SUFFICES ASSUME IInv, [Next]_vars PROVE IInv'
    OBVIOUS
  <2>1. CASE UNCHANGED vars
    BY <2>1, HostKeeps DEF vars, IInv, Typed, TypeOK
  <2> QED BY <2>1, HostStepKeeps, RepeatKeeps, TickKeeps, LoseProbeKeeps, ConflictKeeps, UpdateKeeps,
             AddKeeps, RenameKeeps, ShutdownKeeps, QueryKeeps, AnswerKeeps, RescanKeeps DEF Next
<1> QED BY <1>1, InitOK, PTL DEF Spec

\* The type invariant.
THEOREM TypeCorrect == Spec => []TypeOK
  BY Invariance, PTL DEF IInv, Typed

\* However conflicts, renames, repeats and answers cross, no name is on the network
\* that was not probed for three times without contest (probeTick()).
THEOREM VerifiedFirst == Spec => []OnlyVerifiedSaid
  BY Invariance, PTL DEF IInv

\* A name on the network has a service that holds it, or is one of the lost ones.
THEOREM LiveAreHeld == Spec => []LiveNamesAreHeld
  BY Invariance, PTL DEF IInv

\* At rest the network knows every announced service as it is: announceService()'s
\* repeats come after every answer that was made from what was so before.
THEOREM Heals == Spec => []SaidIsCurrent
<1>1. IInv => SaidIsCurrent
  BY DEF IInv, KnownOrRepeated, SaidIsCurrent, Current
<1> QED BY <1>1, Invariance, PTL
-----------------------------------------------------------------------------
(* Services and their host name.                                           *)

\* A tick is all that announces a service.
LEMMA OnlyTicksAnnounce ==
  ASSUME IInv, Next, NEW s \in Service, ~svc[s].ann, svc'[s].ann
  PROVE  \E hostDue \in BOOLEAN, due \in SUBSET Service : ProbeTick(hostDue, due)
<1>1. svc \in [Service -> Shape] /\ svc[s] \in Shape
  BY Types DEF IInv
<1>2. ASSUME NEW t \in Service, LoseProbe(t) \/ Conflict(t) PROVE FALSE
  <2>1. svc'[s] = svc[s] \/ svc'[s] = Probing(svc[s]) \/ svc'[s] = [Probing(svc[s]) EXCEPT !.suffix = @ + 1]
    BY <1>1, <1>2 DEF LoseProbe, Conflict, Contested
  <2>2. Probing(svc[s]) \in Shape /\ ~Probing(svc[s]).ann
    BY <1>1, ProbingGives
  <2> QED BY <2>1, <2>2 DEF Shape
<1>3. ASSUME NEW t \in Service, UpdateTxt(t) PROVE FALSE
  BY <1>1, <1>3 DEF UpdateTxt, Shape
<1>4. ASSUME NEW t \in Service, NEW b \in Base, AddService(t, b) PROVE FALSE
  BY <1>1, <1>4, AbsentShape DEF AddService, Shape
<1>5. ASSUME NEW b \in Base, RenameAll(b) PROVE FALSE
  <2> DEFINE x == Probing(svc[s])
  <2>1. x \in Shape /\ ~x.ann
    BY <1>1, ProbingGives
  <2>2. svc'[s] = [x EXCEPT !.base = b, !.suffix = 1] \/ svc'[s] = svc[s]
    BY <1>5 DEF RenameAll
  <2> HIDE DEF x
  <2>3. [x EXCEPT !.base = b, !.suffix = 1].ann = x.ann
    BY <2>1 DEF Shape
  <2> QED BY <2>1, <2>2, <2>3
<1>6. ~Shutdown
  BY AbsentShape DEF Shutdown
<1> QED BY <1>2, <1>3, <1>4, <1>5, <1>6
      DEF Next, Repeat, LoseHostProbe, HostConflict, HandleQuery, SendAnswer, RescanInterfaces

\* "A service only goes live once its SRV target (our host name) answers"
\* (MdnsResponder.cpp:362).
THEOREM LiveWithHost == Spec => GoesLiveWithHost
<1>1. IInv /\ [Next]_vars => [\A s \in Service : ~svc[s].ann /\ svc'[s].ann => host'.ann]_vars
  <2> SUFFICES ASSUME IInv, Next, NEW s \in Service, ~svc[s].ann, svc'[s].ann PROVE host'.ann
    OBVIOUS
  <2>1. PICK hostDue \in BOOLEAN, due \in SUBSET Service : ProbeTick(hostDue, due)
    BY OnlyTicksAnnounce
  <2> QED BY <2>1, TickGives
<1> QED BY <1>1, Invariance, PTL DEF Spec, GoesLiveWithHost

\* Whatever starts to probe starts the timer, and a tick only stops it when nothing
\* was left to probe for (probeTick(), MdnsResponder.cpp:375): the safety half of
\* AllGoLive.
THEOREM TimerRuns == Spec => []ProbesAreTimed
<1>1. Init => ProbesAreTimed
  BY DEF Init, ProbesAreTimed
<1>2. ASSUME IInv, ProbesAreTimed, Next PROVE ProbesAreTimed'
  <2>1. ASSUME NEW hostDue \in BOOLEAN, NEW due \in SUBSET Service, ProbeTick(hostDue, due)
        PROVE  ProbesAreTimed'
    <3>1. Unsaid' \subseteq Unsaid /\ (host.ann => host'.ann)
      BY <1>2, <2>1, TickGives DEF Unsaid, Held
    <3>2. timer' = (~host.ann \/ Unsaid # {})
      BY <2>1 DEF ProbeTick
    <3> QED BY <3>1, <3>2 DEF ProbesAreTimed
  <2>2. CASE timer' = TRUE
    BY <2>2 DEF ProbesAreTimed
  <2>3. CASE timer' = timer /\ host' = host /\ Unsaid' \subseteq Unsaid
    BY <1>2, <2>3 DEF ProbesAreTimed
  <2>4. ASSUME NEW s \in Service, UpdateTxt(s) PROVE Unsaid' \subseteq Unsaid
    <3>1. svc \in [Service -> Shape]
      BY <1>2, Types DEF IInv
    <3> QED BY <2>4, <3>1 DEF UpdateTxt, Unsaid, Held, Shape
  <2>5. ASSUME NEW b \in Base, RenameAll(b), ~\E s \in Service : Held(s) PROVE Unsaid' \subseteq Unsaid
    BY <2>5 DEF RenameAll, Unsaid, Held
  <2>6. Shutdown => Unsaid' = {}
    BY AbsentShape DEF Shutdown, Unsaid, Held
  <2>7. CASE svc' = svc /\ host' = host /\ timer' = timer
    BY <2>3, <2>7 DEF Unsaid, Held
  <2> QED BY <1>2, <2>1, <2>2, <2>3, <2>4, <2>5, <2>6, <2>7
        DEF Next, StartTimer, Repeat, LoseHostProbe, HostConflict, LoseProbe, Conflict, UpdateTxt,
            AddService, RenameAll, Shutdown, HandleQuery, SendAnswer, RescanInterfaces
<1>3. ProbesAreTimed /\ UNCHANGED vars => ProbesAreTimed'
  BY DEF vars, ProbesAreTimed, Unsaid, Held
<1> QED BY <1>1, <1>2, <1>3, Invariance, PTL DEF Spec

-----------------------------------------------------------------------------
(* parse(), for every set of packets of any size and content: what is read *)
(* lies in the packet, every name comes to an end, and the caller's        *)
(* position never goes back.                                               *)

CONSTANT Packet

VARIABLES packet, status, item, left, pos, end, p, jumped, jumps, total, read

\* parse(), which the responder calls with every packet that it receives.
Reader == INSTANCE DnsReader

USE DEF Reader!MaxJumps, Reader!MaxName

\* Two bytes make a number.
LEMMA TwoBytes == \A a, b \in Reader!Byte : a \in Nat /\ 256 * a + b \in Nat
  BY DEF Reader!Byte

\* A packet's bytes are bytes wherever the packet is.
LEMMA PacketBytes ==
  ASSUME Packet \subseteq Reader!AnyPacket, packet \in Packet
  PROVE  Reader!Size \in Nat /\ \A i \in 0 .. Reader!Size - 1 : Reader!At(i) \in Reader!Byte
<1>1. PICK n \in Nat : packet \in [size : {n}, byte : [0 .. n - 1 -> Reader!Byte]]
  BY DEF Reader!AnyPacket
<1>2. Reader!Size = n /\ packet.byte \in [0 .. n - 1 -> Reader!Byte]
  BY <1>1 DEF Reader!Size
<1>3. QED
  BY <1>2 DEF Reader!At

\* Two neighbouring bytes of the packet make a number.
LEMMA Be16Type ==
  ASSUME Packet \subseteq Reader!AnyPacket, packet \in Packet,
         NEW i \in Nat, i + 1 < Reader!Size
  PROVE  Reader!Be16(i) \in Nat
<1>1. i \in 0 .. Reader!Size - 1 /\ i + 1 \in 0 .. Reader!Size - 1
  BY PacketBytes
<1>2. Reader!At(i) \in Reader!Byte /\ Reader!At(i + 1) \in Reader!Byte
  BY <1>1, PacketBytes
<1>3. QED
  BY <1>2, TwoBytes DEF Reader!Be16

\* Before its first jump a name is read from the caller's position on.
ReaderIInv ==
  /\ Reader!TypeOK
  /\ status = "start" => pos = 0
  /\ Reader!ReadsInside
  /\ Reader!NameIsBounded
  /\ status = "name" /\ ~jumped => p >= pos

\* What the beginning of a name, if that is what comes next, leaves behind.
LEMMA BeginNameKeeps ==
  ASSUME NEW i \in {"question", "record", "target"}, NEW at \in Nat, Reader!BeginName(i, at)
  PROVE  /\ status' = "name" /\ item' = i /\ pos' = at
         /\ p' \in Nat /\ jumped' \in BOOLEAN /\ jumps' \in Nat /\ total' \in Nat
         /\ Reader!NameIsBounded'
         /\ p' >= pos'
<1>1. status' = "name" /\ item' = i /\ pos' = at /\ jumped' \in BOOLEAN
  BY DEF Reader!BeginName
<1>2. p' = at /\ pos' = at /\ jumps' = 0 /\ total' = 0
  BY DEF Reader!BeginName
<1>3. Reader!NameIsBounded'
  BY <1>2 DEF Reader!NameIsBounded
<1>4. p' >= pos' /\ p' \in Nat /\ jumps' \in Nat /\ total' \in Nat
  BY <1>2
<1>5. QED
  BY <1>1, <1>3, <1>4

\* What the choice of the next item, or the end, leaves behind.
LEMMA NextItemKeeps ==
  ASSUME ReaderIInv, NEW at \in Nat, NEW todo \in [Reader!Section -> Nat], Reader!NextItem(todo, at)
  PROVE  /\ status' \in {"name", "done"} /\ item' \in {"question", "record", "target"}
         /\ left' \in [Reader!Section -> Nat]
         /\ pos' = at
         /\ p' \in Nat /\ jumped' \in BOOLEAN /\ jumps' \in Nat /\ total' \in Nat
         /\ Reader!NameIsBounded'
         /\ status' = "name" => p' >= pos'
<1>1. CASE Reader!BeginName("question", at) \/ Reader!BeginName("record", at)
  BY <1>1, BeginNameKeeps DEF Reader!NextItem
<1>2. CASE status' = "done" /\ pos' = at /\ UNCHANGED <<item, Reader!name>>
  BY <1>2 DEF Reader!NextItem, ReaderIInv, Reader!TypeOK, Reader!NameIsBounded, Reader!name
<1>3. QED
  BY <1>1, <1>2 DEF Reader!NextItem

\* The same when the item that was read is counted.
LEMMA CountedKeeps ==
  ASSUME ReaderIInv, NEW at \in Nat, Reader!Counted(at)
  PROVE  /\ status' \in {"name", "done"} /\ item' \in {"question", "record", "target"}
         /\ left' \in [Reader!Section -> Nat]
         /\ pos' = at
         /\ p' \in Nat /\ jumped' \in BOOLEAN /\ jumps' \in Nat /\ total' \in Nat
         /\ Reader!NameIsBounded'
         /\ status' = "name" => p' >= pos'
<1>1. PICK s \in Reader!Section : left[s] > 0 /\ Reader!NextItem([left EXCEPT ![s] = @ - 1], at)
  BY DEF Reader!Counted
<1>2. [left EXCEPT ![s] = @ - 1] \in [Reader!Section -> Nat]
  BY <1>1 DEF ReaderIInv, Reader!TypeOK
<1>3. QED
  BY <1>1, <1>2, NextItemKeeps

\* A failure changes nothing but the status.
LEMMA FailKeeps ==
  ASSUME ReaderIInv, Reader!Fail, read' \subseteq 0 .. Reader!Size - 1
  PROVE  ReaderIInv' /\ pos' = pos /\ status' = "failed"
  BY DEF Reader!Fail, ReaderIInv, Reader!TypeOK, Reader!ReadsInside, Reader!NameIsBounded, Reader!name, Reader!Size

\* The state after a step that counted an item and read within the packet.
LEMMA ItemKeeps ==
  ASSUME ReaderIInv, NEW at \in Nat, at >= pos,
         \/ Reader!Counted(at)
         \/ \E todo \in [Reader!Section -> Nat] : Reader!NextItem(todo, at)
         \/ Reader!BeginName("target", at) /\ UNCHANGED left,
         packet' = packet, end' \in Nat, read' \subseteq 0 .. Reader!Size - 1, Reader!Size \in Nat
  PROVE  ReaderIInv' /\ pos' >= pos
<1>1. /\ status' \in {"name", "done"} /\ item' \in {"question", "record", "target"}
      /\ left' \in [Reader!Section -> Nat]
      /\ pos' = at
      /\ p' \in Nat /\ jumped' \in BOOLEAN /\ jumps' \in Nat /\ total' \in Nat
      /\ Reader!NameIsBounded'
      /\ status' = "name" => p' >= pos'
  BY CountedKeeps, NextItemKeeps, BeginNameKeeps DEF ReaderIInv, Reader!TypeOK
<1>2. Reader!Size' = Reader!Size /\ packet' \in Packet
  BY DEF Reader!Size, ReaderIInv, Reader!TypeOK
<1>3. read' \subseteq Nat
  OBVIOUS
<1>4. Reader!TypeOK'
  BY <1>1, <1>2, <1>3 DEF Reader!TypeOK
<1>5. Reader!ReadsInside'
  BY <1>2 DEF Reader!ReadsInside
<1>6. QED
  BY <1>1, <1>4, <1>5 DEF ReaderIInv

\* The state after a step within readName().
LEMMA NameKeeps ==
  ASSUME ReaderIInv, Reader!Size \in Nat, status' \in {"name", "fields"},
         UNCHANGED <<packet, item, left, end>>,
         pos' \in Nat, p' \in Nat, jumped' \in BOOLEAN, jumps' \in Nat, total' \in Nat,
         Reader!NameIsBounded', read' \subseteq 0 .. Reader!Size - 1,
         status' = "name" /\ ~jumped' => p' >= pos'
  PROVE  ReaderIInv'
<1>1. Reader!Size' = Reader!Size
  BY DEF Reader!Size
<1>2. read' \subseteq Nat
  OBVIOUS
<1>3. Reader!TypeOK'
  BY <1>2 DEF ReaderIInv, Reader!TypeOK
<1>4. Reader!ReadsInside'
  BY <1>1 DEF Reader!ReadsInside
<1>5. QED
  BY <1>3, <1>4 DEF ReaderIInv

\* Each step keeps the invariant and moves the position forward only.  The
\* header lies in a packet of 12 bytes.
LEMMA HeaderStep ==
  ASSUME Packet \subseteq Reader!AnyPacket, ReaderIInv, Reader!Header
  PROVE  ReaderIInv' /\ pos' >= pos
<1>1. Reader!Size \in Nat
  BY PacketBytes DEF ReaderIInv, Reader!TypeOK
<1>2. CASE Reader!Size < 12
  BY <1>1, <1>2, FailKeeps DEF Reader!Header, ReaderIInv, Reader!TypeOK
<1>3. CASE ~(Reader!Size < 12)
  <2>1. [s \in Reader!Section |-> Reader!Be16(2 + 2 * s)] \in [Reader!Section -> Nat]
    <3> SUFFICES ASSUME NEW s \in Reader!Section PROVE Reader!Be16(2 + 2 * s) \in Nat
      OBVIOUS
    <3>1. 2 + 2 * s \in Nat /\ 2 + 2 * s + 1 < Reader!Size
      BY <1>1, <1>3 DEF Reader!Section
    <3>2. QED
      BY <3>1, Be16Type DEF ReaderIInv, Reader!TypeOK
  <2>2. /\ Reader!NextItem([s \in Reader!Section |-> Reader!Be16(2 + 2 * s)], 12)
        /\ read' = 0 .. 11
        /\ UNCHANGED <<packet, end>>
    BY <1>3 DEF Reader!Header
  <2>3. 12 >= pos
    BY DEF Reader!Header, ReaderIInv
  <2>4. QED
    BY <1>1, <1>3, <2>1, <2>2, <2>3, ItemKeeps DEF ReaderIInv, Reader!TypeOK
<1>4. QED
  BY <1>2, <1>3

\* A pointer leads anywhere, also out of the packet, but is only read inside of it.
LEMMA PointerStep ==
  ASSUME Packet \subseteq Reader!AnyPacket, ReaderIInv, Reader!Pointer
  PROVE  ReaderIInv' /\ pos' >= pos
<1>1. Reader!Size \in Nat /\ p \in 0 .. Reader!Size - 1 /\ Reader!At(p) >= 192
  BY PacketBytes DEF ReaderIInv, Reader!TypeOK, Reader!Pointer
<1>2. CASE p + 1 >= Reader!Size \/ jumps + 1 > Reader!MaxJumps
  BY <1>1, <1>2, FailKeeps DEF Reader!Pointer, ReaderIInv, Reader!TypeOK
<1>3. CASE ~(p + 1 >= Reader!Size \/ jumps + 1 > Reader!MaxJumps)
  <2>1. /\ pos' = IF jumped THEN pos ELSE p + 2
        /\ jumped' = TRUE /\ jumps' = jumps + 1
        /\ p' = 256 * (Reader!At(p) - 192) + Reader!At(p + 1)
        /\ read' = {p, p + 1}
        /\ UNCHANGED <<packet, status, item, left, end, total>>
        /\ status = "name"
    BY <1>3 DEF Reader!Pointer
  <2>2. Reader!At(p) \in Reader!Byte /\ Reader!At(p + 1) \in Reader!Byte
    BY <1>1, <1>3, PacketBytes DEF ReaderIInv, Reader!TypeOK
  <2>3. p' \in Nat
    <3>1. Reader!At(p) - 192 \in Nat /\ Reader!At(p + 1) \in Nat
      BY <1>1, <2>2, TwoBytes
    <3>2. \A a, b \in Nat : 256 * a + b \in Nat
      OBVIOUS
    <3>3. QED
      BY <2>1, <3>1, <3>2
  <2>4. pos' \in Nat /\ pos' >= pos
    BY <2>1 DEF ReaderIInv, Reader!TypeOK
  <2>5. Reader!NameIsBounded' /\ jumps' \in Nat /\ total' \in Nat
    BY <1>3, <2>1 DEF ReaderIInv, Reader!TypeOK, Reader!NameIsBounded
  <2>6. read' \subseteq 0 .. Reader!Size - 1
    BY <1>1, <1>3, <2>1
  <2>7. QED
    BY <1>1, <2>1, <2>3, <2>4, <2>5, <2>6, NameKeeps
<1>4. QED
  BY <1>2, <1>3

\* A label is copied only if it lies in the packet and the name stays short.
LEMMA LabelStep ==
  ASSUME Packet \subseteq Reader!AnyPacket, ReaderIInv, Reader!Label
  PROVE  ReaderIInv' /\ pos' >= pos
<1>1. Reader!Size \in Nat /\ p \in 0 .. Reader!Size - 1 /\ Reader!At(p) > 0
  BY PacketBytes DEF ReaderIInv, Reader!TypeOK, Reader!Label
<1>2. Reader!At(p) \in Nat
  BY <1>1, PacketBytes, TwoBytes DEF ReaderIInv, Reader!TypeOK
<1>3. CASE p + 1 + Reader!At(p) > Reader!Size \/ total + Reader!At(p) + 1 > Reader!MaxName
  BY <1>1, <1>3, FailKeeps DEF Reader!Label, ReaderIInv, Reader!TypeOK
<1>4. CASE ~(p + 1 + Reader!At(p) > Reader!Size \/ total + Reader!At(p) + 1 > Reader!MaxName)
  <2>1. /\ total' = total + Reader!At(p) + 1
        /\ p' = p + 1 + Reader!At(p)
        /\ read' = p .. p + Reader!At(p)
        /\ UNCHANGED <<packet, status, item, left, pos, end, jumped, jumps>>
        /\ status = "name"
    BY <1>4 DEF Reader!Label
  <2>2. p' \in Nat /\ pos' \in Nat /\ jumped' \in BOOLEAN
    BY <1>1, <1>2, <2>1 DEF ReaderIInv, Reader!TypeOK
  <2>3. ~jumped' => p' >= pos'
    BY <1>1, <1>2, <2>1 DEF ReaderIInv, Reader!TypeOK
  <2>4. Reader!NameIsBounded' /\ jumps' \in Nat /\ total' \in Nat
    BY <1>2, <1>4, <2>1 DEF ReaderIInv, Reader!TypeOK, Reader!NameIsBounded
  <2>5. read' \subseteq 0 .. Reader!Size - 1
    BY <1>1, <1>2, <1>4, <2>1
  <2>6. ReaderIInv'
    BY <1>1, <2>1, <2>2, <2>3, <2>4, <2>5, NameKeeps
  <2>7. QED
    BY <2>1, <2>6 DEF ReaderIInv, Reader!TypeOK
<1>5. QED
  BY <1>3, <1>4

\* The caller goes on behind the name, or behind its first pointer.
LEMMA EndOfNameStep ==
  ASSUME Packet \subseteq Reader!AnyPacket, ReaderIInv, Reader!EndOfName
  PROVE  ReaderIInv' /\ pos' >= pos
<1>1. Reader!Size \in Nat /\ p \in 0 .. Reader!Size - 1
  BY PacketBytes DEF ReaderIInv, Reader!TypeOK, Reader!EndOfName
<1>2. /\ status = "name" /\ status' = "fields"
      /\ pos' = IF jumped THEN pos ELSE p + 1
      /\ read' = {p}
      /\ UNCHANGED <<packet, item, left, end>>
      /\ p' = p /\ jumped' = jumped /\ jumps' = jumps /\ total' = total
  BY DEF Reader!EndOfName, Reader!name
<1>3. pos' \in Nat /\ pos' >= pos
  BY <1>2 DEF ReaderIInv, Reader!TypeOK
<1>4. p' \in Nat /\ jumped' \in BOOLEAN /\ jumps' \in Nat /\ total' \in Nat /\ Reader!NameIsBounded'
  BY <1>2 DEF ReaderIInv, Reader!TypeOK, Reader!NameIsBounded
<1>5. read' \subseteq 0 .. Reader!Size - 1
  BY <1>1, <1>2
<1>6. QED
  BY <1>1, <1>2, <1>3, <1>4, <1>5, NameKeeps

\* A name that leaves the packet or has labels of another kind fails.
LEMMA BadNameStep ==
  ASSUME Packet \subseteq Reader!AnyPacket, ReaderIInv, Reader!BadName
  PROVE  ReaderIInv' /\ pos' >= pos
<1>1. Reader!Size \in Nat
  BY PacketBytes DEF ReaderIInv, Reader!TypeOK
<1>2. Reader!Fail /\ read' \subseteq 0 .. Reader!Size - 1
  BY <1>1 DEF Reader!BadName, ReaderIInv, Reader!TypeOK
<1>3. QED
  BY <1>2, FailKeeps DEF ReaderIInv, Reader!TypeOK

\* Type and class of a question lie in the packet.
LEMMA QuestionFieldsStep ==
  ASSUME Packet \subseteq Reader!AnyPacket, ReaderIInv, Reader!QuestionFields
  PROVE  ReaderIInv' /\ pos' >= pos
<1>1. Reader!Size \in Nat /\ pos \in Nat
  BY PacketBytes DEF ReaderIInv, Reader!TypeOK
<1>2. CASE pos + 4 > Reader!Size
  BY <1>1, <1>2, FailKeeps DEF Reader!QuestionFields
<1>3. CASE ~(pos + 4 > Reader!Size)
  <2>1. Reader!Counted(pos + 4) /\ read' = pos .. pos + 3 /\ UNCHANGED <<packet, end>>
    BY <1>3 DEF Reader!QuestionFields
  <2>2. read' \subseteq 0 .. Reader!Size - 1 /\ pos + 4 \in Nat /\ pos + 4 >= pos
    BY <1>1, <1>3, <2>1
  <2>3. QED
    BY <1>1, <2>1, <2>2, ItemKeeps DEF ReaderIInv, Reader!TypeOK
<1>4. QED
  BY <1>2, <1>3

\* After a target the caller goes on at the end of the record's data.
LEMMA TargetEndStep ==
  ASSUME Packet \subseteq Reader!AnyPacket, ReaderIInv, Reader!TargetEnd
  PROVE  ReaderIInv' /\ pos' >= pos
<1>1. Reader!Size \in Nat /\ pos \in Nat /\ end \in Nat /\ read' = {}
  BY PacketBytes DEF ReaderIInv, Reader!TypeOK, Reader!TargetEnd
<1>2. CASE pos > end
  BY <1>1, <1>2, FailKeeps DEF Reader!TargetEnd
<1>3. CASE ~(pos > end)
  <2>1. Reader!Counted(end) /\ UNCHANGED <<packet, end>> /\ end >= pos
    BY <1>1, <1>3 DEF Reader!TargetEnd
  <2>2. QED
    BY <1>1, <2>1, ItemKeeps
<1>4. QED
  BY <1>2, <1>3

\* The fixed fields and the data of a record lie in the packet.
LEMMA RecordFieldsStep ==
  ASSUME Packet \subseteq Reader!AnyPacket, ReaderIInv, Reader!RecordFields
  PROVE  ReaderIInv' /\ pos' >= pos
<1> DEFINE type  == Reader!Be16(pos)
           rdlen == Reader!Be16(pos + 8)
           data  == pos + 10
<1>1. Reader!Size \in Nat /\ pos \in Nat
  BY PacketBytes DEF ReaderIInv, Reader!TypeOK
<1>2. CASE pos + 10 > Reader!Size
  BY <1>1, <1>2, FailKeeps DEF Reader!RecordFields
<1>3. CASE ~(pos + 10 > Reader!Size)
  <2>1. rdlen \in Nat
    <3>1. pos + 8 \in Nat /\ pos + 8 + 1 < Reader!Size
      BY <1>1, <1>3
    <3>2. QED
      BY <3>1, Be16Type DEF ReaderIInv, Reader!TypeOK
  <2> HIDE DEF type, rdlen
  <2>2. CASE data + rdlen > Reader!Size \/ (type = Reader!kSrv /\ rdlen < 7)
    <3>1. Reader!Fail /\ read' = pos .. pos + 9
      BY <1>3, <2>2 DEF Reader!RecordFields, type, rdlen
    <3>2. read' \subseteq 0 .. Reader!Size - 1
      BY <1>1, <1>3, <3>1
    <3>3. QED
      BY <1>1, <3>1, <3>2, FailKeeps
  <2>3. CASE ~(data + rdlen > Reader!Size \/ (type = Reader!kSrv /\ rdlen < 7))
    <3>1. /\ packet' = packet
          /\ end' = data + rdlen
          /\ \/ /\ Reader!BeginName("target", data) /\ UNCHANGED left
                /\ read' = pos .. pos + 9
             \/ /\ type = Reader!kSrv
                /\ Reader!BeginName("target", data + 6) /\ UNCHANGED left
                /\ read' = pos .. pos + 15
             \/ /\ Reader!Counted(data + rdlen)
                /\ read' = pos .. data + rdlen - 1
      BY <1>3, <2>3 DEF Reader!RecordFields, type, rdlen
    <3>2. end' \in Nat
      BY <1>1, <2>1, <3>1
    <3>3. CASE Reader!BeginName("target", data) /\ UNCHANGED left /\ read' = pos .. pos + 9
      <4>1. data \in Nat /\ data >= pos /\ read' \subseteq 0 .. Reader!Size - 1
        BY <1>1, <1>3, <3>3
      <4>2. QED
        BY <1>1, <3>1, <3>2, <3>3, <4>1, ItemKeeps
    <3>4. CASE type = Reader!kSrv /\ Reader!BeginName("target", data + 6) /\ UNCHANGED left /\ read' = pos .. pos + 15
      <4>1. data + 6 \in Nat /\ data + 6 >= pos /\ read' \subseteq 0 .. Reader!Size - 1
        BY <1>1, <2>1, <2>3, <3>4
      <4>2. QED
        BY <1>1, <3>1, <3>2, <3>4, <4>1, ItemKeeps
    <3>5. CASE Reader!Counted(data + rdlen) /\ read' = pos .. data + rdlen - 1
      <4>1. data + rdlen \in Nat /\ data + rdlen >= pos /\ read' \subseteq 0 .. Reader!Size - 1
        BY <1>1, <2>1, <2>3, <3>5
      <4>2. QED
        BY <1>1, <3>1, <3>2, <3>5, <4>1, ItemKeeps
    <3>6. QED
      BY <3>1, <3>3, <3>4, <3>5
  <2>4. QED
    BY <2>2, <2>3
<1>4. QED
  BY <1>2, <1>3

\* Nothing is read in the beginning.
LEMMA ReaderInit == Reader!Init => ReaderIInv
<1> SUFFICES ASSUME Reader!Init PROVE ReaderIInv
  OBVIOUS
<1>1. Reader!TypeOK
  BY DEF Reader!Init, Reader!TypeOK
<1>2. QED
  BY <1>1 DEF Reader!Init, ReaderIInv, Reader!ReadsInside, Reader!NameIsBounded

\* Every step keeps the invariant and the order of positions.
LEMMA ReaderStep ==
  ASSUME Packet \subseteq Reader!AnyPacket, ReaderIInv, [Reader!Next]_(Reader!vars)
  PROVE  ReaderIInv' /\ pos' >= pos
<1>1. CASE Reader!Next
  BY <1>1, HeaderStep, PointerStep, LabelStep, EndOfNameStep, BadNameStep,
     QuestionFieldsStep, RecordFieldsStep, TargetEndStep DEF Reader!Next
<1>2. CASE UNCHANGED Reader!vars
  BY <1>2 DEF Reader!vars, Reader!name, ReaderIInv, Reader!TypeOK, Reader!ReadsInside, Reader!NameIsBounded, Reader!Size
<1>3. QED
  BY <1>1, <1>2

\* A turn that goes on raises the number of jumps or the length.
LEMMA TurnAdvances ==
  ASSUME Packet \subseteq Reader!AnyPacket, ReaderIInv, [Reader!Next]_(Reader!vars), status = "name", status' = "name",
         ~UNCHANGED Reader!vars
  PROVE  jumps' + total' > jumps + total
<1>1. Reader!Pointer \/ Reader!Label
  BY DEF Reader!Next, Reader!Header, Reader!EndOfName, Reader!BadName, Reader!Fail, Reader!QuestionFields, Reader!RecordFields, Reader!TargetEnd
<1>2. CASE Reader!Pointer
  BY <1>2 DEF Reader!Pointer, Reader!Fail, ReaderIInv, Reader!TypeOK
<1>3. CASE Reader!Label
  <2>1. p \in 0 .. Reader!Size - 1
    BY <1>3, PacketBytes DEF ReaderIInv, Reader!TypeOK, Reader!Label
  <2>2. Reader!At(p) \in Nat
    BY <2>1, PacketBytes, TwoBytes DEF ReaderIInv, Reader!TypeOK
  <2>3. QED
    BY <1>3, <2>2 DEF Reader!Label, Reader!Fail, ReaderIInv, Reader!TypeOK
<1>4. QED
  BY <1>1, <1>2, <1>3

\* Whatever a packet holds, parse() looks at no byte outside of it.
THEOREM ReadsHold ==
  ASSUME Packet \subseteq Reader!AnyPacket PROVE Reader!Spec => []Reader!ReadsInside
<1>1. ReaderIInv => Reader!ReadsInside
  BY DEF ReaderIInv
<1>2. ReaderIInv /\ [Reader!Next]_(Reader!vars) => ReaderIInv'
  BY ReaderStep
<1>3. QED
  BY ReaderInit, <1>1, <1>2, PTL DEF Reader!Spec

\* The state of DnsReader keeps its types for every packet: where the reader is and
\* what it still has to read are never negative, however counts and lengths disagree.
THEOREM ReaderTypeCorrect ==
  ASSUME Packet \subseteq Reader!AnyPacket PROVE Reader!Spec => []Reader!TypeOK
<1>1. ReaderIInv => Reader!TypeOK
  BY DEF ReaderIInv
<1>2. ReaderIInv /\ [Reader!Next]_(Reader!vars) => ReaderIInv'
  BY ReaderStep
<1>3. QED
  BY ReaderInit, <1>1, <1>2, PTL DEF Reader!Spec

\* readName() ends, also where pointers form a circle: every turn that goes on
\* raises jumps + total, and that stays below a bound.
THEOREM NamesEnd ==
  ASSUME Packet \subseteq Reader!AnyPacket PROVE Reader!Spec => []Reader!NameIsBounded /\ Reader!NameAdvances
<1>1. ReaderIInv => Reader!NameIsBounded
  BY DEF ReaderIInv
<1>2. ReaderIInv /\ [Reader!Next]_(Reader!vars) => ReaderIInv'
  BY ReaderStep
<1>3. ReaderIInv /\ [Reader!Next]_(Reader!vars) =>
        [status = "name" /\ status' = "name" => jumps' + total' > jumps + total]_(Reader!vars)
  BY TurnAdvances
<1>4. QED
  BY ReaderInit, <1>1, <1>2, <1>3, PTL DEF Reader!Spec, Reader!NameAdvances

\* No pointer takes parse() back: what follows a name is read once.
THEOREM PosHolds ==
  ASSUME Packet \subseteq Reader!AnyPacket PROVE Reader!Spec => Reader!PosNeverGoesBack
<1>1. ReaderIInv /\ [Reader!Next]_(Reader!vars) => ReaderIInv' /\ [pos' >= pos]_(Reader!vars)
  BY ReaderStep
<1>2. QED
  BY ReaderInit, <1>1, PTL DEF Reader!Spec, Reader!PosNeverGoesBack

-----------------------------------------------------------------------------
(* The advertisers, for any services, names, collisions and outages: what  *)
(* the system's daemon answers for at rest is what AirShow holds.          *)

ClientSignals == {"RUNNING", "REGISTERING", "FAILURE"}
Signals == ClientSignals \union {"ESTABLISHED", "COLLISION"}
StateOf(signal) ==
  CASE signal = "RUNNING" -> "running" [] signal = "REGISTERING" -> "registering" [] OTHER -> "failure"

AnyName   == [of : Nat, alternative : Nat, mac : BOOLEAN]
AnyRecord == [type : STRING, name : AnyName, key : BOOLEAN]
TypesOf(list) == {list[i].type : i \in DOMAIN list}

SystemTyped ==
  /\ backend \in {"avahi", "bonjour"}
  /\ services \in Seq(AnyRecord) /\ active \in AnyName
  /\ signals \in Seq(Signals)
  /\ happened \in [renames : Nat, taken : Nat, outages : Nat]

\* After the first n signals the callback will have seen the client in state s.
Seen(q, c, n, s) ==
  /\ (\A j \in 1 .. n : q[j] \notin ClientSignals) => c = s
  /\ \A j \in 1 .. n :
       q[j] \in ClientSignals /\ (\A k \in j + 1 .. n : q[k] \notin ClientSignals) => StateOf(q[j]) = s

\* The daemon's signals tell its state, it finds names taken only while it
\* runs, and its failure is the last it tells.
InOrder ==
  /\ backend = "avahi" /\ Connected =>
       daemon \in {"running", "registering"} /\ Seen(signals, client, Len(signals), daemon)
  /\ client # "freed" =>
       \A i \in 1 .. Len(signals) : signals[i] = "COLLISION" => Seen(signals, client, i - 1, "running")
  /\ client = "failure" => signals = <<>>
  /\ \A i \in 1 .. Len(signals) : signals[i] = "FAILURE" => i = Len(signals)

\* Avahi: an entry group on its way to the network has what AirShow holds.
GroupIsCurrent ==
  /\ services = <<>> => group = "none"
  /\ daemon = "down" => group \in {"none", "lost"}
  /\ client = "registering" => group \in {"none", "uncommitted", "lost"}
  /\ client = "running" /\ group \in {"registering", "established"} => published = ToSet(services)

\* Bonjour: as long as its connection is open, it has what AirShow holds.
RefsAreCurrent ==
  backend = "bonjour" =>
    /\ group = "none" /\ signals = <<>> /\ ~polling
    /\ connection = "open" /\ phase \in {"advertising", "running"} =>
         refs = TypesOf(services) /\ published = ToSet(services)

\* What stop() has ended so far stays ended.
Ended ==
  /\ phase \notin {"advertising", "running"} => ~polling
  /\ phase \in {"freeing", "joining", "stopped"} => published = {}
  /\ backend = "avahi" \/ phase = "stopped" => thread = "ended"
  /\ client = "freed" => phase = "stopped"

SystemIInv == SystemTyped /\ InOrder /\ GroupIsCurrent /\ RefsAreCurrent /\ Ended

-----------------------------------------------------------------------------
(* Signals.                                                                *)

\* A signal that is added decides what has been seen if it is the client's.
LEMMA SeenAppend ==
  ASSUME NEW q \in Seq(Signals), NEW x \in Signals, NEW c, NEW s, NEW i \in 0 .. Len(q)
  PROVE  /\ Seen(q, c, i, s) => Seen(Append(q, x), c, i, s)
         /\ x \in ClientSignals /\ StateOf(x) = s => Seen(Append(q, x), c, Len(q) + 1, s)
         /\ x \notin ClientSignals /\ Seen(q, c, Len(q), s) => Seen(Append(q, x), c, Len(q) + 1, s)
<1> DEFINE n == Len(q)
           r == Append(q, x)
<1>1. n \in Nat /\ r[n + 1] = x /\ \A j \in 1 .. n : r[j] = q[j]
  BY AppendProperties, LenProperties
<1> HIDE DEF n, r
<1>2. i \in 0 .. n
  BY DEF n
<1>3. Seen(q, c, i, s) => Seen(r, c, i, s)
  <2>1. \A j \in 1 .. i : r[j] = q[j] /\ \A k \in j + 1 .. i : r[k] = q[k]
    BY <1>1, <1>2
  <2> QED BY <2>1 DEF Seen
<1>4. ASSUME x \in ClientSignals, StateOf(x) = s PROVE Seen(r, c, n + 1, s)
  <2>1. n + 1 \in 1 .. n + 1 /\ \A j \in 1 .. n : n + 1 \in j + 1 .. n + 1
    BY <1>1
  <2>2. \A j \in 1 .. n + 1 : j = n + 1 \/ j \in 1 .. n
    BY <1>1
  <2> QED BY <1>1, <1>4, <2>1, <2>2 DEF Seen
<1>5. ASSUME x \notin ClientSignals, Seen(q, c, n, s) PROVE Seen(r, c, n + 1, s)
  <2>1. \A j \in 1 .. n + 1 : j = n + 1 \/ j \in 1 .. n
    BY <1>1
  <2>2. \A j \in 1 .. n : j \in 1 .. n + 1 /\ \A k \in j + 1 .. n : k \in j + 1 .. n + 1 /\ k \in 1 .. n
    BY <1>1
  <2>3. (\A j \in 1 .. n + 1 : r[j] \notin ClientSignals) => c = s
    BY <1>1, <1>5, <2>2 DEF Seen
  <2>4. ASSUME NEW j \in 1 .. n + 1, r[j] \in ClientSignals, \A k \in j + 1 .. n + 1 : r[k] \notin ClientSignals
        PROVE  StateOf(r[j]) = s
    <3>1. j \in 1 .. n /\ r[j] = q[j]
      BY <1>1, <1>5, <2>1, <2>4
    <3>2. \A k \in j + 1 .. n : q[k] \notin ClientSignals
      BY <1>1, <2>2, <2>4, <3>1
    <3> QED BY <1>5, <2>4, <3>1, <3>2 DEF Seen
  <2> QED BY <2>3, <2>4 DEF Seen
<1> QED BY <1>3, <1>4, <1>5 DEF n, r

\* A signal that is taken has been seen.
LEMMA SeenTail ==
  ASSUME NEW q \in Seq(Signals), q # <<>>, NEW c, NEW s, NEW i \in 1 .. Len(q), Seen(q, c, i, s)
  PROVE  Seen(Tail(q), IF Head(q) \in ClientSignals THEN StateOf(Head(q)) ELSE c, i - 1, s)
<1> DEFINE n == Len(q)
           r == Tail(q)
           h == Head(q)
           d == IF h \in ClientSignals THEN StateOf(h) ELSE c
<1>1. n \in Nat \ {0} /\ h = q[1] /\ \A j \in 1 .. n - 1 : r[j] = q[j + 1]
  <2>1. n \in Nat \ {0} /\ q[1] = h
    BY EmptySeq, LenProperties
  <2>2. Len(r) = n - 1 /\ \A j \in 1 .. Len(r) : r[j] = q[j + 1]
    BY HeadTailProperties
  <2> HIDE DEF n, r, h
  <2> QED BY <2>1, <2>2
<1>2. i \in 1 .. n
  BY DEF n
<1> HIDE DEF n, r, h
<1>3. \A j \in 1 .. i - 1 : j + 1 \in 1 .. i /\ r[j] = q[j + 1]
  BY <1>1, <1>2
<1>4. \A j \in 2 .. i : j - 1 \in 1 .. i - 1 /\ q[j] = r[j - 1]
  <2> SUFFICES ASSUME NEW j \in 2 .. i PROVE j - 1 \in 1 .. i - 1 /\ q[j] = r[j - 1]
    OBVIOUS
  <2>1. j - 1 \in 1 .. i - 1 /\ (j - 1) + 1 = j
    BY <1>1, <1>2
  <2> QED BY <2>1, <1>3
<1>5. ASSUME \A j \in 1 .. i - 1 : r[j] \notin ClientSignals PROVE d = s
  <2>1. \A j \in 1 + 1 .. i : q[j] \notin ClientSignals
    BY <1>4, <1>5
  <2>2. 1 \in 1 .. i /\ \A j \in 1 .. i : j = 1 \/ j \in 1 + 1 .. i
    BY <1>1, <1>2
  <2>3. CASE h \in ClientSignals
    BY <1>1, <2>1, <2>2, <2>3 DEF Seen
  <2>4. CASE h \notin ClientSignals
    BY <1>1, <2>1, <2>2, <2>4 DEF Seen
  <2> QED BY <2>3, <2>4
<1>6. ASSUME NEW j \in 1 .. i - 1, r[j] \in ClientSignals, \A k \in j + 1 .. i - 1 : r[k] \notin ClientSignals
      PROVE  StateOf(r[j]) = s
  <2>1. j + 1 \in 1 .. i /\ r[j] = q[j + 1]
    BY <1>3
  <2>2. ASSUME NEW k \in (j + 1) + 1 .. i PROVE q[k] \notin ClientSignals
    <3>1. k \in 2 .. i /\ k - 1 \in j + 1 .. i - 1
      BY <1>1, <1>2
    <3> QED BY <3>1, <1>4, <1>6
  <2> QED BY <1>6, <2>1, <2>2 DEF Seen
<1> HIDE DEF d
<1>7. Seen(r, d, i - 1, s)
  BY <1>5, <1>6 DEF Seen
<1> QED BY <1>7 DEF d, r, h

\* The signals stay in order when the daemon adds one.
LEMMA SignalKeeps ==
  ASSUME SystemTyped, InOrder, NEW x \in Signals, Signal(x), client' = client, backend' = backend,
         backend = "avahi" /\ Connected,
         x \in ClientSignals \ {"FAILURE"} => daemon' = StateOf(x) /\ daemon' \in {"running", "registering"},
         x \in {"ESTABLISHED", "COLLISION"} => daemon' = daemon,
         x = "COLLISION" => daemon = "running"
  PROVE  InOrder' /\ signals' \in Seq(Signals)
<1> DEFINE n == Len(signals)
<1>1. signals \in Seq(Signals) /\ n \in Nat /\ signals' = Append(signals, x)
  BY LenProperties DEF SystemTyped, Signal
<1>2. signals' \in Seq(Signals) /\ Len(signals') = n + 1 /\ signals'[n + 1] = x
      /\ \A j \in 1 .. n : signals'[j] = signals[j]
  BY <1>1, AppendProperties
<1>3. daemon \in {"running", "registering"} /\ Seen(signals, client, n, daemon)
  BY DEF InOrder
<1>c. client # "freed" /\ client' # "freed"
  BY DEF Connected
<1>4. /\ \A s : \A i \in 0 .. n : Seen(signals, client, i, s) => Seen(signals', client, i, s)
      /\ \A s : x \in ClientSignals /\ StateOf(x) = s => Seen(signals', client, n + 1, s)
      /\ \A s : x \notin ClientSignals /\ Seen(signals, client, n, s) => Seen(signals', client, n + 1, s)
  <2>1. ASSUME NEW s, NEW i \in 0 .. n
        PROVE  /\ Seen(signals, client, i, s) => Seen(signals', client, i, s)
               /\ x \in ClientSignals /\ StateOf(x) = s => Seen(signals', client, n + 1, s)
               /\ x \notin ClientSignals /\ Seen(signals, client, n, s) => Seen(signals', client, n + 1, s)
    BY <1>1, SeenAppend
  <2>2. 0 \in 0 .. n
    BY <1>1
  <2> HIDE DEF n
  <2> QED BY <2>1, <2>2
<1> HIDE DEF n
<1>5. ASSUME backend' = "avahi", Connected'
      PROVE  daemon' \in {"running", "registering"} /\ Seen(signals', client', Len(signals'), daemon')
  <2>1. x # "FAILURE"
    <3>1. n + 1 \in 1 .. Len(signals')
      BY <1>1, <1>2
    <3> QED BY <1>2, <1>5, <3>1 DEF Connected, Contains
  <2>2. CASE x \in ClientSignals
    BY <1>2, <1>4, <2>1, <2>2
  <2>3. CASE x \notin ClientSignals
    <3>1. daemon' = daemon
      BY <2>3 DEF Signals
    <3> QED BY <1>2, <1>3, <1>4, <2>3, <3>1
  <2> QED BY <2>2, <2>3
<1>6. ASSUME NEW i \in 1 .. Len(signals'), signals'[i] = "COLLISION"
      PROVE  Seen(signals', client', i - 1, "running")
  <2>1. CASE i \in 1 .. n
    <3>1. Seen(signals, client, i - 1, "running")
      BY <1>2, <1>6, <1>c, <2>1 DEF InOrder, n
    <3>2. i - 1 \in 0 .. n
      BY <1>1, <2>1
    <3> QED BY <1>4, <3>1, <3>2
  <2>2. CASE i \notin 1 .. n
    <3>1. i = n + 1 /\ i - 1 = n /\ n \in 0 .. n
      BY <1>1, <1>2, <2>2
    <3>2. daemon = "running"
      BY <1>2, <1>6, <3>1
    <3> QED BY <1>3, <1>4, <3>1, <3>2
  <2> QED BY <2>1, <2>2
<1>7. client' # "failure"
  BY DEF Connected
<1>8. ASSUME NEW i \in 1 .. Len(signals'), signals'[i] = "FAILURE" PROVE i = Len(signals')
  <2>1. \A j \in 1 .. n : signals[j] # "FAILURE"
    BY DEF Connected, Contains, n
  <2>2. i = n + 1 \/ i \in 1 .. n
    BY <1>1, <1>2
  <2> QED BY <1>2, <1>8, <2>1, <2>2
<1> QED BY <1>2, <1>5, <1>6, <1>7, <1>8 DEF InOrder

\* The signals stay in order when the callback takes one.
LEMMA TakeKeeps ==
  ASSUME SystemTyped, InOrder, signals # <<>>, signals' = Tail(signals), UNCHANGED <<backend, daemon>>,
         client # "freed", client' # "freed",
         client' = IF Head(signals) \in ClientSignals THEN StateOf(Head(signals)) ELSE client
  PROVE  InOrder' /\ signals' \in Seq(Signals)
<1> DEFINE n == Len(signals)
<1>1. signals \in Seq(Signals)
  BY DEF SystemTyped
<1>2. signals' \in Seq(Signals) /\ n \in Nat \ {0} /\ Len(signals') = n - 1 /\ Head(signals) \in Signals
      /\ signals[1] = Head(signals) /\ \A j \in 1 .. n - 1 : signals'[j] = signals[j + 1]
  <2>1. n \in Nat \ {0} /\ signals[1] = Head(signals)
    BY <1>1, EmptySeq, LenProperties
  <2>2. signals' \in Seq(Signals) /\ Len(signals') = n - 1 /\ Head(signals) \in Signals
        /\ \A j \in 1 .. Len(signals') : signals'[j] = signals[j + 1]
    BY <1>1, HeadTailProperties
  <2> HIDE DEF n
  <2> QED BY <2>1, <2>2
<1>3. ASSUME NEW s, NEW i \in 1 .. n, Seen(signals, client, i, s)
      PROVE  Seen(signals', client', i - 1, s)
  BY <1>1, <1>3, SeenTail
<1>n. n = Len(signals)
  OBVIOUS
<1> HIDE DEF n
<1>4. ASSUME backend' = "avahi", Connected'
      PROVE  daemon' \in {"running", "registering"} /\ Seen(signals', client', Len(signals'), daemon')
  <2>1. Head(signals) # "FAILURE" /\ client # "failure"
    BY <1>4 DEF Connected, StateOf, ClientSignals, InOrder
  <2>2. ASSUME NEW j \in 1 .. n PROVE signals[j] # "FAILURE"
    <3>1. j = 1 \/ (j - 1 \in 1 .. n - 1 /\ (j - 1) + 1 = j)
      BY <1>2
    <3>2. ASSUME NEW k \in 1 .. n - 1 PROVE signals[k + 1] # "FAILURE"
      BY <1>2, <1>4 DEF Connected, Contains
    <3> QED BY <1>2, <2>1, <3>1, <3>2
  <2>3. Connected /\ backend = "avahi"
    BY <1>4, <1>n, <2>1, <2>2 DEF Connected, Contains
  <2>4. daemon \in {"running", "registering"} /\ Seen(signals, client, n, daemon)
    BY <1>n, <2>3 DEF InOrder
  <2>5. n \in 1 .. n
    BY <1>2
  <2> QED BY <1>2, <1>3, <2>4, <2>5
<1>5. ASSUME NEW i \in 1 .. Len(signals'), signals'[i] = "COLLISION"
      PROVE  Seen(signals', client', i - 1, "running")
  <2>1. i + 1 \in 1 .. n /\ (i + 1) - 1 = i /\ i \in 1 .. n
    BY <1>2
  <2>2. signals[i + 1] = "COLLISION"
    BY <1>2, <1>5
  <2>3. Seen(signals, client, i, "running")
    BY <1>n, <2>1, <2>2 DEF InOrder
  <2> QED BY <1>3, <2>1, <2>3
<1>6. ASSUME NEW i \in 1 .. Len(signals'), signals'[i] = "FAILURE" PROVE i = Len(signals')
  <2>1. i + 1 \in 1 .. n
    BY <1>2
  <2>2. i + 1 = n
    BY <1>2, <1>6, <1>n, <2>1 DEF InOrder
  <2> QED BY <1>2, <2>2
<1>7. ASSUME client' = "failure" PROVE signals' = <<>>
  <2>1. client # "failure"
    BY DEF InOrder
  <2>2. Head(signals) = "FAILURE"
    BY <1>2, <1>7, <2>1 DEF StateOf, ClientSignals
  <2>3. 1 \in 1 .. n /\ 1 = n
    <3>1. 1 \in 1 .. n
      BY <1>2
    <3> QED BY <1>2, <1>n, <2>2, <3>1 DEF InOrder
  <2> QED BY <1>2, <2>3, EmptySeq
<1> QED BY <1>2, <1>4, <1>5, <1>6, <1>7 DEF InOrder

\* The signals stay in order when neither end touches them.
LEMMA QuietKeeps ==
  ASSUME InOrder, UNCHANGED <<backend, daemon, client, signals>>
  PROVE  InOrder'
<1>1. Connected' <=> Connected
  BY DEF Connected, Contains
<1> QED BY <1>1 DEF InOrder, Seen

-----------------------------------------------------------------------------
(* The list of services.                                                   *)

\* A change of names and keys changes no type.
LEMMA ListChanged ==
  ASSUME SystemTyped, NEW list, NEW R, R = [i \in DOMAIN services |-> list[i]], list = R,
         \A i \in DOMAIN services : list[i] \in AnyRecord /\ list[i].type = services[i].type
  PROVE  /\ list \in Seq(AnyRecord) /\ TypesOf(list) = TypesOf(services)
         /\ list = <<>> => services = <<>>
<1> DEFINE n == Len(services)
<1>1. n \in Nat /\ DOMAIN services = 1 .. n /\ services \in Seq(AnyRecord)
  BY LenProperties DEF SystemTyped
<1> HIDE DEF n
<1>2. list \in [1 .. n -> AnyRecord] /\ DOMAIN list = 1 .. n
  BY <1>1
<1>3. list \in Seq(AnyRecord)
  BY <1>1, <1>2, SeqDef
<1>4. TypesOf(list) = TypesOf(services)
  BY <1>1, <1>2 DEF TypesOf
<1>5. ASSUME list = <<>> PROVE services = <<>>
  <2>1. n = 0
    BY <1>1, <1>2, <1>3, <1>5, EmptySeq, LenProperties
  <2> QED BY <1>1, <2>1, EmptySeq DEF n
<1> QED BY <1>3, <1>4, <1>5

\* Another name for all services.
LEMMA RenamedList ==
  ASSUME SystemTyped, NEW name \in AnyName
  PROVE  /\ Renamed(name) \in Seq(AnyRecord) /\ TypesOf(Renamed(name)) = TypesOf(services)
         /\ Renamed(name) = <<>> => services = <<>>
<1> DEFINE list == Renamed(name)
<1>1. ASSUME NEW i \in DOMAIN services
      PROVE  list[i] \in AnyRecord /\ list[i].type = services[i].type
  <2>1. services[i] \in AnyRecord
    BY LenProperties, ElementOfSeq DEF SystemTyped
  <2>2. list[i] = [services[i] EXCEPT !.name = name]
    BY DEF Renamed
  <2> HIDE DEF list
  <2> QED BY <2>1, <2>2 DEF AnyRecord
<1>2. list = [i \in DOMAIN services |-> list[i]]
  BY DEF Renamed
<1> HIDE DEF list
<1>3. list \in Seq(AnyRecord) /\ TypesOf(list) = TypesOf(services) /\ (list = <<>> => services = <<>>)
  BY <1>1, <1>2, ListChanged
<1> QED BY <1>3 DEF list

\* One more service.
LEMMA LongerList ==
  ASSUME SystemTyped, NEW r \in AnyRecord
  PROVE  /\ Append(services, r) \in Seq(AnyRecord) /\ Append(services, r) # <<>>
         /\ TypesOf(Append(services, r)) = TypesOf(services) \union {r.type}
<1> DEFINE n == Len(services)
           list == Append(services, r)
<1>1. n \in Nat /\ DOMAIN services = 1 .. n /\ services \in Seq(AnyRecord)
  BY LenProperties DEF SystemTyped
<1>2. list \in Seq(AnyRecord) /\ Len(list) = n + 1 /\ list[n + 1] = r /\ \A j \in 1 .. n : list[j] = services[j]
  BY <1>1, AppendProperties
<1>3. DOMAIN list = 1 .. n + 1
  BY <1>2, LenProperties
<1> HIDE DEF n, list
<1>4. list # <<>>
  BY <1>1, <1>2, EmptySeq
<1>5. \A j : j \in 1 .. n + 1 <=> j = n + 1 \/ j \in 1 .. n
  BY <1>1
<1>6. TypesOf(list) = TypesOf(services) \union {r.type}
  BY <1>1, <1>2, <1>3, <1>5 DEF TypesOf
<1> QED BY <1>2, <1>4, <1>6 DEF list

-----------------------------------------------------------------------------
(* What the back ends are told.                                            *)

\* Avahi's group is made anew, reset, or left to the RUNNING callback.
LEMMA GroupKeeps ==
  ASSUME GroupIsCurrent, daemon' = daemon, services' = <<>> => services = <<>>,
         \/ client' = "running" /\ CreateServices(services')
         \/ client' # "running" /\ Reset
         \/ client' \notin {"running", "registering"} /\ UNCHANGED <<group, published>>
         \/ client' = client /\ client # "running" /\ UNCHANGED <<group, published>>
  PROVE  GroupIsCurrent'
<1>1. CASE client' = "running" /\ CreateServices(services')
  BY <1>1 DEF GroupIsCurrent, CreateServices
<1>2. CASE client' # "running" /\ Reset
  BY <1>2 DEF GroupIsCurrent, Reset
<1>3. CASE client' # "running" /\ UNCHANGED <<group, published>>
           /\ (client' = "registering" => client = "registering")
  BY <1>3 DEF GroupIsCurrent
<1> QED BY <1>1, <1>2, <1>3

\* advertise(), rename() and updateTxtRecord() at either back end.
LEMMA SystemTellKeeps ==
  ASSUME SystemIInv, phase \in {"advertising", "running"}, phase' \in {"advertising", "running"},
         UNCHANGED <<backend, daemon, client, signals, polling, connection, running, thread>>,
         services' \in Seq(AnyRecord), services' = <<>> => services = <<>>,
         \/ /\ backend = "avahi" /\ UNCHANGED refs
            /\ \E reset \in BOOLEAN : Republish(services', reset)
         \/ /\ backend = "bonjour" /\ UNCHANGED group
            /\ connection = "open" => refs' = TypesOf(services') /\ published' = ToSet(services'),
         active' \in AnyName, happened' \in [renames : Nat, taken : Nat, outages : Nat]
  PROVE  SystemIInv'
<1>1. SystemTyped' /\ InOrder'
  BY QuietKeeps DEF SystemIInv, SystemTyped
<1>2. GroupIsCurrent'
  <2>1. CASE backend = "avahi"
    <3>1. PICK reset \in BOOLEAN : Republish(services', reset)
      BY <2>1
    <3> QED BY <3>1, GroupKeeps DEF SystemIInv, Republish
  <2>2. CASE backend = "bonjour"
    BY <2>2 DEF SystemIInv, GroupIsCurrent, RefsAreCurrent
  <2> QED BY <2>1, <2>2 DEF SystemIInv, SystemTyped
<1>3. RefsAreCurrent'
  BY DEF SystemIInv, RefsAreCurrent
<1>4. Ended'
  BY DEF SystemIInv, Ended
<1> QED BY <1>1, <1>2, <1>3, <1>4 DEF SystemIInv

\* The shared connection has the whole list once the types it lacked are registered.
LEMMA RegisterKeeps ==
  ASSUME NEW list, NEW types, Register(list, types), connection = "open",
         TypesOf(list) = refs \union types
  PROVE  refs' = TypesOf(list) /\ published' = ToSet(list)
BY DEF Register, ToSet, TypesOf

-----------------------------------------------------------------------------
(* One lemma for each action, or for those that are alike.                 *)

LEMMA AdvertiseStep ==
  ASSUME SystemIInv, Advertise PROVE SystemIInv'
<1> DEFINE t == ServiceTypes[Len(services) + 1]
           r == [type |-> t, key |-> FALSE, name |-> [of |-> 0, alternative |-> 0, mac |-> t = Prefixed]]
<1>1. r \in AnyRecord
  <2>1. Len(services) \in Nat /\ Len(ServiceTypes) \in Nat /\ ServiceTypes \in Seq(STRING)
    BY AdvertisersAssumption, LenProperties DEF SystemIInv, SystemTyped
  <2>2. Len(services) + 1 \in 1 .. Len(ServiceTypes)
    BY <2>1 DEF Advertise
  <2>3. t \in STRING
    BY <2>1, <2>2, ElementOfSeq
  <2> HIDE DEF t
  <2> QED BY <2>3 DEF AnyRecord, AnyName
<1>2. services' = Append(services, r) /\ Tell(services', FALSE, {t}) /\ r.type = t
  BY DEF Advertise
<1>a. phase = "advertising" /\ phase' \in {"advertising", "running"} /\ UNCHANGED <<backend, active, daemon, happened>>
  BY DEF Advertise
<1> HIDE DEF r, t
<1>3. services' \in Seq(AnyRecord) /\ services' # <<>> /\ TypesOf(services') = TypesOf(services) \union {t}
  BY <1>1, <1>2, LongerList DEF SystemIInv
<1>4. CASE backend = "avahi"
  <2>1. Republish(services', FALSE) /\ UNCHANGED <<client, signals, polling, refs, connection, running, thread>>
    BY <1>2, <1>4 DEF Tell, bonjour
  <2> QED BY <1>3, <1>4, <1>a, <2>1, SystemTellKeeps DEF SystemIInv, SystemTyped
<1>5. CASE backend = "bonjour"
  <2>1. Register(services', {t}) /\ UNCHANGED <<client, signals, polling, group, connection, running, thread>>
    BY <1>2, <1>5 DEF Tell, avahi
  <2>2. connection = "open" => refs' = TypesOf(services') /\ published' = ToSet(services')
    BY <1>3, <1>5, <1>a, <2>1, RegisterKeeps DEF SystemIInv, RefsAreCurrent
  <2> QED BY <1>3, <1>5, <1>a, <2>1, <2>2, SystemTellKeeps DEF SystemIInv, SystemTyped
<1> QED BY <1>4, <1>5 DEF SystemIInv, SystemTyped

LEMMA RenameStep == SystemIInv /\ Rename => SystemIInv'
<1> SUFFICES ASSUME SystemIInv, Rename PROVE SystemIInv'
  OBVIOUS
<1>1. happened' \in [renames : Nat, taken : Nat, outages : Nat] /\ active' \in AnyName
  BY DEF SystemIInv, SystemTyped, Rename, Happens, AnyName
<1>2. /\ services' = Renamed(active') /\ Tell(services', TRUE, TypesOf(services))
      /\ phase = "running" /\ UNCHANGED <<backend, phase, daemon>>
  BY DEF Rename, TypesOf
<1>3. services' \in Seq(AnyRecord) /\ TypesOf(services') = TypesOf(services) /\ (services' = <<>> => services = <<>>)
  BY <1>1, <1>2, RenamedList DEF SystemIInv
<1>4. CASE backend = "avahi"
  <2>1. Republish(services', TRUE) /\ UNCHANGED <<client, signals, polling, refs, connection, running, thread>>
    BY <1>2, <1>4 DEF Tell, bonjour
  <2> QED BY <1>1, <1>2, <1>3, <1>4, <2>1, SystemTellKeeps
<1>5. CASE backend = "bonjour"
  <2>1. /\ Register(services', TypesOf(services))
        /\ UNCHANGED <<client, signals, polling, group, connection, running, thread>>
    BY <1>2, <1>5 DEF Tell, avahi
  <2>2. connection = "open" => refs' = TypesOf(services') /\ published' = ToSet(services')
    BY <1>2, <1>3, <1>5, <2>1, RegisterKeeps DEF SystemIInv, RefsAreCurrent
  <2> QED BY <1>1, <1>2, <1>3, <1>5, <2>1, <2>2, SystemTellKeeps
<1> QED BY <1>4, <1>5 DEF SystemIInv, SystemTyped

LEMMA UpdateStep == ASSUME NEW t \in Keyed, SystemIInv, UpdateTxtRecord(t) PROVE SystemIInv'
<1>1. services' = [i \in DOMAIN services |->
        IF services[i].type = t THEN [services[i] EXCEPT !.key = TRUE] ELSE services[i]]
      /\ services' # services /\ phase = "running" /\ UNCHANGED <<backend, phase, active, daemon, happened>>
  BY DEF UpdateTxtRecord
<1>2. ASSUME NEW i \in DOMAIN services
      PROVE  services[i] \in AnyRecord /\ services'[i] \in AnyRecord /\ services'[i].type = services[i].type
  <2>1. services[i] \in AnyRecord
    BY LenProperties, ElementOfSeq DEF SystemIInv, SystemTyped
  <2> QED BY <1>1, <2>1 DEF AnyRecord
<1>3. services' \in Seq(AnyRecord) /\ TypesOf(services') = TypesOf(services) /\ (services' = <<>> => services = <<>>)
  <2> DEFINE list == services'
  <2>1. list = [i \in DOMAIN services |-> list[i]]
    BY <1>1
  <2> HIDE DEF list
  <2>2. \A i \in DOMAIN services : list[i] \in AnyRecord /\ list[i].type = services[i].type
    BY <1>2 DEF list
  <2>3. list \in Seq(AnyRecord) /\ TypesOf(list) = TypesOf(services) /\ (list = <<>> => services = <<>>)
    BY <2>1, <2>2, ListChanged DEF SystemIInv
  <2> QED BY <2>3 DEF list
<1>4. t \in TypesOf(services)
  <2>1. services = [i \in DOMAIN services |-> services[i]]
    BY LenProperties DEF SystemIInv, SystemTyped
  <2>2. PICK i \in DOMAIN services : services[i].type = t
    BY <1>1, <2>1
  <2> QED BY <2>2 DEF TypesOf
<1>5. CASE backend = "avahi"
  <2>1. Republish(services', TRUE) /\ UNCHANGED <<client, signals, polling, refs, connection, running, thread>>
    BY <1>5 DEF UpdateTxtRecord, bonjour
  <2> QED BY <1>1, <1>3, <1>5, <2>1, SystemTellKeeps DEF SystemIInv, SystemTyped
<1>6. CASE backend = "bonjour"
  <2>1. Update(services', t) /\ UNCHANGED <<client, signals, polling, group, connection, running, thread>>
    BY <1>6 DEF UpdateTxtRecord, avahi
  <2>2. ASSUME connection = "open" PROVE refs' = TypesOf(services') /\ published' = ToSet(services')
    <3>1. t \in refs /\ TypesOf(services') = refs \union {t}
      BY <1>1, <1>3, <1>4, <1>6, <2>2 DEF SystemIInv, RefsAreCurrent
    <3>2. Register(services', {t})
      BY <2>1, <3>1 DEF Update
    <3> QED BY <2>2, <3>1, <3>2, RegisterKeeps
  <2> QED BY <1>1, <1>3, <1>6, <2>1, <2>2, SystemTellKeeps DEF SystemIInv, SystemTyped
<1> QED BY <1>5, <1>6 DEF SystemIInv, SystemTyped

LEMMA DispatchStep == SystemIInv /\ Dispatch => SystemIInv'
<1> SUFFICES ASSUME SystemIInv, Dispatch PROVE SystemIInv'
  OBVIOUS
<1> DEFINE h == Head(signals)
<1>1. /\ polling /\ signals # <<>> /\ signals' = Tail(signals) /\ (ClientCallback(h) \/ GroupCallback(h))
      /\ UNCHANGED <<backend, phase, daemon, happened, polling, refs, connection, running, thread>>
  BY DEF Dispatch, bonjour
<1>2. backend = "avahi" /\ phase \in {"advertising", "running"} /\ client # "freed"
  BY <1>1 DEF SystemIInv, SystemTyped, RefsAreCurrent, Ended
<1>3. h = "COLLISION" => client = "running"
  <2>1. signals \in Seq(Signals)
    BY DEF SystemIInv, SystemTyped
  <2>2. Len(signals) \in Nat \ {0} /\ signals[1] = h
    BY <1>1, <2>1, EmptySeq
  <2>3. 1 \in 1 .. Len(signals) /\ 1 - 1 = 0 /\ 1 .. 0 = {}
    BY <2>2
  <2> QED BY <1>2, <2>2, <2>3 DEF SystemIInv, InOrder, Seen
<1> HIDE DEF h
<1>4. client' = IF h \in ClientSignals THEN StateOf(h) ELSE client
  BY <1>1 DEF ClientCallback, GroupCallback, ClientSignals, StateOf
<1>5. client' # "freed"
  BY <1>2, <1>4 DEF StateOf
<1>6. InOrder' /\ signals' \in Seq(Signals)
  BY <1>1, <1>2, <1>4, <1>5, TakeKeeps DEF h, SystemIInv
<1>7. services' \in Seq(AnyRecord) /\ active' \in AnyName /\ (services' = <<>> => services = <<>>)
  <2>1. CASE UNCHANGED <<services, active>>
    BY <2>1 DEF SystemIInv, SystemTyped
  <2>2. CASE active' = [active EXCEPT !.alternative = @ + 1] /\ services' = Renamed(active')
    <3>1. active' \in AnyName
      BY <2>2, SMTT(20) DEF SystemIInv, SystemTyped, AnyName
    <3> QED BY <2>2, <3>1, RenamedList DEF SystemIInv
  <2> QED BY <1>1, <2>1, <2>2 DEF ClientCallback, GroupCallback
<1>8. GroupIsCurrent'
  <2>1. CASE ClientCallback(h) /\ h = "RUNNING"
    BY <1>1, <1>7, <2>1, GroupKeeps DEF ClientCallback, SystemIInv
  <2>2. CASE ClientCallback(h) /\ h = "REGISTERING"
    BY <1>1, <1>7, <2>2, GroupKeeps DEF ClientCallback, SystemIInv
  <2>3. CASE ClientCallback(h) /\ h = "FAILURE"
    BY <1>1, <1>7, <2>3, GroupKeeps DEF ClientCallback, SystemIInv
  <2>4. CASE GroupCallback(h) /\ h = "ESTABLISHED"
    BY <1>1, <2>4 DEF GroupCallback, SystemIInv, GroupIsCurrent
  <2>5. CASE GroupCallback(h) /\ h = "COLLISION"
    BY <1>1, <1>3, <1>7, <2>5, GroupKeeps DEF GroupCallback, SystemIInv
  <2> QED BY <1>1, <2>1, <2>2, <2>3, <2>4, <2>5 DEF ClientCallback, GroupCallback
<1>9. RefsAreCurrent' /\ Ended'
  BY <1>1, <1>2, <1>5 DEF SystemIInv, RefsAreCurrent, Ended
<1> QED BY <1>1, <1>6, <1>7, <1>8, <1>9 DEF SystemIInv, SystemTyped

\* Bonjour's thread changes nothing that is published.
LEMMA ThreadStep == SystemIInv /\ (Loop \/ Select \/ ProcessResult) => SystemIInv'
<1> SUFFICES ASSUME SystemIInv, Loop \/ Select \/ ProcessResult PROVE SystemIInv'
  OBVIOUS
<1>1. /\ UNCHANGED <<backend, phase, services, active, daemon, published, happened, client, group, signals,
                    polling, refs, connection, running>>
      /\ thread # "ended"
  BY DEF Loop, Select, ProcessResult, manager, avahi
<1>2. SystemTyped' /\ InOrder' /\ GroupIsCurrent' /\ RefsAreCurrent'
  BY <1>1, QuietKeeps DEF SystemIInv, SystemTyped, GroupIsCurrent, RefsAreCurrent
<1> QED BY <1>1, <1>2 DEF SystemIInv, Ended

\* stop(), part by part.
LEMMA StopStep == SystemIInv /\ (Stop \/ Free \/ Deallocate \/ Join) => SystemIInv'
<1> SUFFICES ASSUME SystemIInv, Stop \/ Free \/ Deallocate \/ Join PROVE SystemIInv'
  OBVIOUS
<1>1. CASE Stop
  <2>1. /\ phase = "running" /\ phase' = "stopping" /\ ~polling'
        /\ UNCHANGED <<backend, services, active, daemon, published, happened, client, group, signals,
                       refs, connection, thread>>
    BY <1>1 DEF Stop
  <2>2. InOrder'
    BY <2>1, QuietKeeps DEF SystemIInv
  <2> QED BY <2>1, <2>2 DEF SystemIInv, SystemTyped, GroupIsCurrent, RefsAreCurrent, Ended
<1>2. CASE Free
  <2>1. /\ phase = "stopping" /\ published' = {}
        /\ UNCHANGED <<backend, active, daemon, happened, signals, polling, connection, running, thread>>
    BY <1>2 DEF Free
  <2>2. CASE backend = "avahi"
    <3>1. phase' = "stopped" /\ group' = "none" /\ client' = "freed" /\ UNCHANGED <<services, refs>>
      BY <1>2, <2>2 DEF Free
    <3>2. InOrder'
      BY <2>1, <3>1 DEF SystemIInv, InOrder, Connected
    <3> QED BY <2>1, <2>2, <3>1, <3>2 DEF SystemIInv, SystemTyped, GroupIsCurrent, RefsAreCurrent, Ended
  <2>3. CASE backend = "bonjour"
    <3>1. phase' = "freeing" /\ refs' = {} /\ services' = <<>> /\ UNCHANGED <<group, client>>
      BY <1>2, <2>3 DEF Free
    <3>2. InOrder' /\ services' \in Seq(AnyRecord)
      BY <2>1, <3>1, QuietKeeps, EmptySeq DEF SystemIInv
    <3> QED BY <2>1, <2>3, <3>1, <3>2 DEF SystemIInv, SystemTyped, GroupIsCurrent, RefsAreCurrent, Ended
  <2> QED BY <2>2, <2>3 DEF SystemIInv, SystemTyped
<1>3. CASE Deallocate \/ Join
  <2>1. /\ phase \in {"freeing", "joining"} /\ phase' \in {"joining", "stopped"}
        /\ phase' = "stopped" => thread = "ended"
        /\ UNCHANGED <<backend, services, active, daemon, published, happened, client, group, signals,
                       polling, refs, running, thread>>
    BY <1>3 DEF Deallocate, Join, avahi, bonjour
  <2>2. InOrder'
    BY <2>1, QuietKeeps DEF SystemIInv
  <2> QED BY <2>1, <2>2 DEF SystemIInv, SystemTyped, GroupIsCurrent, RefsAreCurrent, Ended
<1> QED BY <1>1, <1>2, <1>3

\* What the daemon tells of its group and its host name.
LEMMA DaemonStep == SystemIInv /\ (Establish \/ Collide \/ HostNameTaken \/ HostNameRegistered) => SystemIInv'
<1> SUFFICES ASSUME SystemIInv, Establish \/ Collide \/ HostNameTaken \/ HostNameRegistered PROVE SystemIInv'
  OBVIOUS
<1>1. /\ backend = "avahi" /\ Connected
      /\ UNCHANGED <<backend, phase, services, active, client, polling, refs, connection, running, thread>>
  BY DEF Establish, Collide, HostNameTaken, HostNameRegistered, Daemon, manager, bonjour
<1>2. PICK x \in Signals :
        /\ Signal(x)
        /\ x \in ClientSignals \ {"FAILURE"} => daemon' = StateOf(x) /\ daemon' \in {"running", "registering"}
        /\ x \in {"ESTABLISHED", "COLLISION"} => daemon' = daemon
        /\ x = "COLLISION" => daemon = "running"
  BY DEF Establish, Collide, HostNameTaken, HostNameRegistered, Signals, ClientSignals, StateOf
<1>3. InOrder' /\ signals' \in Seq(Signals)
  BY <1>1, <1>2, SignalKeeps DEF SystemIInv
<1>4. happened' \in [renames : Nat, taken : Nat, outages : Nat]
  BY DEF Establish, Collide, HostNameTaken, HostNameRegistered, Happens, SystemIInv, SystemTyped
<1>5. daemon' # "down" /\ published' \in {published, {}}
      /\ \/ UNCHANGED <<group, published>>
         \/ group = "registering" /\ group' = "established" /\ UNCHANGED published
         \/ group \in {"registering", "established"} /\ group' = "collision"
  BY DEF Establish, Collide, HostNameTaken, HostNameRegistered
<1>6. GroupIsCurrent'
  BY <1>1, <1>5 DEF SystemIInv, GroupIsCurrent
<1>7. RefsAreCurrent' /\ Ended'
  BY <1>1, <1>5 DEF SystemIInv, RefsAreCurrent, Ended
<1> QED BY <1>1, <1>3, <1>4, <1>6, <1>7 DEF SystemIInv, SystemTyped

\* The daemon stops, and starts again.
LEMMA OutageStep == SystemIInv /\ (Outage \/ DaemonStarts) => SystemIInv'
<1> SUFFICES ASSUME SystemIInv, Outage \/ DaemonStarts PROVE SystemIInv'
  OBVIOUS
<1>1. CASE Outage
  <2>1. /\ daemon' = "down" /\ published' = {} /\ phase # "stopped"
        /\ UNCHANGED <<backend, phase, services, active, client, polling, refs, running, thread>>
    BY <1>1 DEF Outage, manager
  <2>2. happened' \in [renames : Nat, taken : Nat, outages : Nat]
    BY <1>1 DEF Outage, Happens, SystemIInv, SystemTyped
  <2>3. CASE backend = "avahi"
    <3>1. /\ IF Connected THEN Signal("FAILURE") ELSE UNCHANGED signals
          /\ group' = IF group = "none" THEN group ELSE "lost"
      BY <1>1, <2>3 DEF Outage
    <3>2. InOrder' /\ signals' \in Seq(Signals)
      <4>1. CASE Connected
        BY <2>1, <2>3, <3>1, <4>1, SignalKeeps DEF SystemIInv, Signals, ClientSignals
      <4>2. CASE ~Connected
        BY <2>1, <3>1, <4>2 DEF SystemIInv, SystemTyped, InOrder, Connected, Contains, Seen
      <4> QED BY <4>1, <4>2
    <3> QED BY <2>1, <2>2, <2>3, <3>1, <3>2 DEF SystemIInv, SystemTyped, GroupIsCurrent, RefsAreCurrent, Ended
  <2>4. CASE backend = "bonjour"
    <3>1. UNCHANGED <<signals, group>> /\ connection' # "open"
      BY <1>1, <2>4 DEF Outage
    <3> QED BY <2>1, <2>2, <2>4, <3>1
            DEF SystemIInv, SystemTyped, InOrder, Seen, GroupIsCurrent, RefsAreCurrent, Ended
  <2> QED BY <2>3, <2>4 DEF SystemIInv, SystemTyped
<1>2. CASE DaemonStarts
  <2>1. /\ daemon = "down" /\ daemon' = "running"
        /\ UNCHANGED <<backend, phase, services, active, published, happened, client, group, signals,
                       polling, refs, connection, running, thread>>
    BY <1>2 DEF DaemonStarts, manager, avahi, bonjour
  <2>2. InOrder'
    BY <2>1 DEF SystemIInv, InOrder, Connected, Contains, Seen
  <2> QED BY <2>1, <2>2 DEF SystemIInv, SystemTyped, GroupIsCurrent, RefsAreCurrent, Ended
<1> QED BY <1>1, <1>2

-----------------------------------------------------------------------------
(* Theorems.                                                               *)

LEMMA SystemStarts == SystemInit => SystemIInv
<1> SUFFICES ASSUME SystemInit PROVE SystemIInv
  OBVIOUS
<1>1. signals = <<>> /\ services = <<>> /\ Len(signals) = 0 /\ DOMAIN services = {}
      /\ services \in Seq(AnyRecord) /\ signals \in Seq(Signals)
  BY EmptySeq, LenProperties DEF SystemInit
<1>2. SystemTyped
  BY <1>1 DEF SystemInit, SystemTyped, AnyName
<1>3. InOrder
  BY <1>1 DEF SystemInit, InOrder, Seen
<1>4. TypesOf(services) = {} /\ ToSet(services) = {}
  BY <1>1 DEF TypesOf, ToSet
<1>5. GroupIsCurrent /\ RefsAreCurrent /\ Ended
  BY <1>1, <1>4 DEF SystemInit, GroupIsCurrent, RefsAreCurrent, Ended
<1> QED BY <1>2, <1>3, <1>5 DEF SystemIInv

\* The invariant holds throughout, with any services, names and outages.
THEOREM SystemInvariance == SystemSpec => []SystemIInv
<1>1. ASSUME SystemIInv, [SystemNext]_systemVars PROVE SystemIInv'
  <2>1. CASE UNCHANGED systemVars
    <3>1. UNCHANGED <<backend, phase, services, active, daemon, published, happened, client, group, signals,
                     polling, refs, connection, running, thread>>
      BY <2>1 DEF systemVars, manager, avahi, bonjour
    <3> QED BY <1>1, <3>1, QuietKeeps DEF SystemIInv, SystemTyped, GroupIsCurrent, RefsAreCurrent, Ended
  <2>2. CASE SystemNext
    BY <1>1, <2>2, AdvertiseStep, RenameStep, UpdateStep, DispatchStep, ThreadStep, StopStep, DaemonStep,
       OutageStep DEF SystemNext
  <2> QED BY <1>1, <2>1, <2>2
<1> QED BY <1>1, SystemStarts, PTL DEF SystemSpec

\* PublishedIsCurrent: once all is heard and nothing is under way, the daemon answers
\* for the names and keys that AirShow holds, and for no stale one.
THEOREM AnswersForWhatIsHeld == SystemSpec => []PublishedIsCurrent
<1>1. SystemIInv => PublishedIsCurrent
  <2> SUFFICES ASSUME SystemIInv, phase \in {"advertising", "running"}, Served,
                      backend = "avahi" => group = "established" /\ signals = <<>>
               PROVE  published = ToSet(services)
    BY DEF PublishedIsCurrent
  <2>1. CASE backend = "bonjour"
    BY <2>1 DEF SystemIInv, RefsAreCurrent, Served
  <2>2. CASE backend = "avahi"
    <3>1. signals = <<>> /\ Len(signals) = 0 /\ 1 .. 0 = {} /\ DOMAIN signals = {}
      BY <2>2, EmptySeq, LenProperties DEF SystemIInv, SystemTyped
    <3>2. Connected
      BY <2>2, <3>1 DEF SystemIInv, Ended, Served, Connected, Contains
    <3>3. client = daemon /\ daemon \in {"running", "registering"}
      BY <2>2, <3>1, <3>2 DEF SystemIInv, InOrder, Seen
    <3> QED BY <2>2, <3>3 DEF SystemIInv, GroupIsCurrent
  <2> QED BY <2>1, <2>2 DEF SystemIInv, SystemTyped
<1> QED BY <1>1, SystemInvariance, PTL

\* StopCompletes, its safety half: when stop() has returned, no thread of the advertiser
\* runs and the daemon publishes nothing.
THEOREM NothingAfterStop == SystemSpec => [](phase = "stopped" => published = {} /\ ~polling /\ thread = "ended")
<1>1. SystemIInv => (phase = "stopped" => published = {} /\ ~polling /\ thread = "ended")
  BY DEF SystemIInv, Ended
<1> QED BY <1>1, SystemInvariance, PTL

-----------------------------------------------------------------------------
(* The safety half of StaysVisible: no state at rest is a dead end.        *)

\* A client that Avahi told it runs has its services on their way to the network, or
\* is about to hear that a name of them is taken.
GroupOnItsWay ==
  /\ backend = "avahi" /\ client = "running" /\ Connected /\ services # <<>> /\ group # "lost"
  /\ phase \in {"advertising", "running"}
  => \/ group \in {"registering", "established"}
     \/ group = "collision" /\ Contains(signals, "COLLISION")

\* start() has advertised something, and Avahi's thread runs until stop().
Started ==
  /\ phase = "running" => services # <<>>
  /\ phase \in {"advertising", "running"} /\ backend = "avahi" => polling

WayIInv == GroupOnItsWay /\ Started

\* What is visible, or will be: a signal waits for the callback, the daemon registers
\* its host name, or it probes the names of the group or has published them.
OnItsWay ==
  phase = "running" /\ Served =>
    /\ services # <<>>
    /\ backend = "bonjour" => published = ToSet(services)
    /\ backend = "avahi" =>
         /\ polling
         /\ signals = <<>> => /\ Connected
                              /\ daemon = "registering" \/ group \in {"registering", "established"}

\* A signal is in the queue until it is taken.
LEMMA SignalStays ==
  ASSUME NEW q \in Seq(Signals), NEW x, Contains(q, x)
  PROVE  /\ \A y \in Signals : Contains(Append(q, y), x)
         /\ q # <<>> /\ Head(q) # x => Contains(Tail(q), x)
<1>1. PICK i \in 1 .. Len(q) : q[i] = x
  BY DEF Contains
<1>2. ASSUME NEW y \in Signals PROVE Contains(Append(q, y), x)
  <2>1. Len(Append(q, y)) = Len(q) + 1 /\ Append(q, y)[i] = q[i] /\ Len(q) \in Nat
    BY AppendProperties, LenProperties
  <2>2. i \in 1 .. Len(Append(q, y))
    BY <2>1
  <2> QED BY <1>1, <2>1, <2>2 DEF Contains
<1>3. ASSUME q # <<>>, Head(q) # x PROVE Contains(Tail(q), x)
  <2>1. /\ Len(q) \in Nat \ {0} /\ q[1] = Head(q) /\ Len(Tail(q)) = Len(q) - 1
        /\ \A j \in 1 .. Len(Tail(q)) : Tail(q)[j] = q[j + 1]
    BY <1>3, EmptySeq, LenProperties, HeadTailProperties
  <2>2. i # 1
    BY <1>1, <1>3, <2>1
  <2>3. i - 1 \in 1 .. Len(Tail(q)) /\ (i - 1) + 1 = i
    BY <2>1, <2>2
  <2>4. Tail(q)[i - 1] = x
    BY <1>1, <2>1, <2>3
  <2> QED BY <2>3, <2>4 DEF Contains
<1> QED BY <1>2, <1>3

\* Whoever takes a signal or adds one leaves a failure in the queue.
LEMMA ConnectedBefore ==
  ASSUME SystemTyped, client # "failure", client # "freed", Connected',
         \/ signals' = signals
         \/ \E x \in Signals : signals' = Append(signals, x)
         \/ signals # <<>> /\ Head(signals) # "FAILURE" /\ signals' = Tail(signals)
  PROVE  Connected
<1>1. signals \in Seq(Signals)
  BY DEF SystemTyped
<1>2. Contains(signals, "FAILURE") => Contains(signals', "FAILURE")
  BY <1>1, SignalStays
<1> QED BY <1>2 DEF Connected

\* A connected client's daemon is there, so that createServices() gets through.
LEMMA CreateGetsThrough ==
  ASSUME InOrder, backend = "avahi", Connected, NEW list, list # <<>>, CreateServices(list), group' # "lost"
  PROVE  group' = "registering"
BY DEF InOrder, CreateServices

\* The main thread tells Avahi, or leaves it to the callback.
LEMMA TellOnItsWay ==
  ASSUME SystemIInv, WayIInv, phase \in {"advertising", "running"}, UNCHANGED <<backend, daemon>>,
         services' # <<>>, NEW reset, NEW types, Tell(services', reset, types) \/ backend = "bonjour"
                                               \/ (Republish(services', reset) /\ UNCHANGED <<client, signals, polling>>)
  PROVE  GroupOnItsWay' /\ (backend = "avahi" => polling' = polling)
<1> SUFFICES ASSUME backend = "avahi" PROVE GroupOnItsWay' /\ polling' = polling
  BY DEF GroupOnItsWay
<1>1. Republish(services', reset) /\ UNCHANGED <<client, signals, polling>>
  BY DEF Tell
<1>2. ASSUME client = "running", Connected, group' # "lost" PROVE group' = "registering"
  BY <1>1, <1>2, CreateGetsThrough DEF Republish, SystemIInv
<1>3. Connected' => Connected
  BY <1>1 DEF Connected, Contains
<1> QED BY <1>1, <1>2, <1>3 DEF GroupOnItsWay

\* The calls of the main thread.
LEMMA CallsOnItsWay ==
  ASSUME SystemIInv, WayIInv, Advertise \/ Rename \/ \E t \in Keyed : UpdateTxtRecord(t)
  PROVE  WayIInv'
<1>1. phase \in {"advertising", "running"} /\ UNCHANGED <<backend, daemon>>
  BY DEF Advertise, Rename, UpdateTxtRecord
<1>2. services' # <<>>
  <2>1. CASE Advertise
    <3>1. PICK r : services' = Append(services, r) /\ r \in AnyRecord
      <4> DEFINE t == ServiceTypes[Len(services) + 1]
                 r == [type |-> t, key |-> FALSE, name |-> [of |-> 0, alternative |-> 0, mac |-> t = Prefixed]]
      <4>1. Len(services) \in Nat /\ Len(ServiceTypes) \in Nat /\ ServiceTypes \in Seq(STRING)
        BY AdvertisersAssumption, LenProperties DEF SystemIInv, SystemTyped
      <4>2. Len(services) + 1 \in 1 .. Len(ServiceTypes)
        BY <2>1, <4>1 DEF Advertise
      <4>3. t \in STRING
        BY <4>1, <4>2, ElementOfSeq
      <4>4. services' = Append(services, r)
        BY <2>1 DEF Advertise
      <4> HIDE DEF t
      <4>5. r \in AnyRecord
        BY <4>3 DEF AnyRecord, AnyName
      <4> QED BY <4>4, <4>5
    <3> QED BY <3>1, LongerList DEF SystemIInv
  <2>2. CASE Rename
    <3>1. active' \in AnyName /\ services' = Renamed(active') /\ phase = "running"
      BY <2>2 DEF SystemIInv, SystemTyped, Rename, Happens, AnyName
    <3> QED BY <3>1, RenamedList DEF SystemIInv, WayIInv, Started
  <2>3. ASSUME NEW t \in Keyed, UpdateTxtRecord(t) PROVE services' # <<>>
    <3>1. services # <<>> /\ services \in Seq(AnyRecord) /\ DOMAIN services' = DOMAIN services
      BY <2>3 DEF UpdateTxtRecord, WayIInv, Started, SystemIInv, SystemTyped
    <3>2. Len(services) \in Nat /\ Len(services) # 0 /\ DOMAIN services = 1 .. Len(services)
      BY <3>1, EmptySeq, LenProperties
    <3>3. 1 \in DOMAIN services
      BY <3>2
    <3>4. DOMAIN <<>> = {}
      OBVIOUS
    <3> QED BY <3>1, <3>3, <3>4
  <2> QED BY <2>1, <2>2, <2>3
<1>3. \/ \E reset, types : Tell(services', reset, types)
      \/ backend = "bonjour"
      \/ \E reset : Republish(services', reset) /\ UNCHANGED <<client, signals, polling>>
  BY DEF Advertise, Rename, UpdateTxtRecord
<1>4. GroupOnItsWay' /\ (backend = "avahi" => polling' = polling)
  BY <1>1, <1>2, <1>3, TellOnItsWay
<1> QED BY <1>1, <1>2, <1>4 DEF WayIInv, Started

\* Avahi's thread hears a signal.
LEMMA DispatchOnItsWay ==
  ASSUME SystemIInv, WayIInv, Dispatch PROVE WayIInv'
<1> DEFINE h == Head(signals)
<1>1. /\ polling /\ signals # <<>> /\ signals' = Tail(signals) /\ (ClientCallback(h) \/ GroupCallback(h))
      /\ UNCHANGED <<backend, phase, daemon, happened, polling>>
  BY DEF Dispatch
<1>2. signals \in Seq(Signals) /\ SystemTyped /\ InOrder
  BY DEF SystemIInv, SystemTyped
<1>3. client # "failure" /\ client # "freed" /\ phase \in {"advertising", "running"} /\ backend = "avahi"
  BY <1>1 DEF SystemIInv, InOrder, Ended, SystemTyped, RefsAreCurrent
<1> HIDE DEF h
<1>4. (services' = <<>> => services = <<>>) /\ (services = <<>> => services' = <<>> \/ h = "COLLISION")
  <2>1. CASE UNCHANGED services
    BY <2>1
  <2>2. CASE h = "COLLISION" /\ active' = [active EXCEPT !.alternative = @ + 1] /\ services' = Renamed(active')
    <3>1. active' \in AnyName
      BY <2>2 DEF SystemIInv, SystemTyped, AnyName
    <3> QED BY <2>2, <3>1, RenamedList DEF SystemIInv
  <2> QED BY <1>1, <2>1, <2>2 DEF ClientCallback, GroupCallback
<1>5. Started'
  BY <1>1, <1>4 DEF WayIInv, Started
<1>6. GroupOnItsWay'
  <2> SUFFICES ASSUME client' = "running", Connected', services' # <<>>, group' # "lost"
               PROVE  \/ group' \in {"registering", "established"}
                      \/ group' = "collision" /\ Contains(signals', "COLLISION")
    BY DEF GroupOnItsWay
  <2>1. h # "FAILURE" /\ h # "REGISTERING"
    BY <1>1 DEF ClientCallback, GroupCallback
  <2>2. Connected
    BY <1>1, <1>2, <1>3, <2>1, ConnectedBefore DEF h
  <2>3. CASE h = "RUNNING"
    <3>1. CreateServices(services) /\ services' = services
      BY <1>1, <2>3 DEF ClientCallback, GroupCallback
    <3> QED BY <1>2, <1>3, <2>2, <3>1, CreateGetsThrough
  <2>4. CASE h = "COLLISION"
    <3>1. CreateServices(services')
      BY <1>1, <2>4 DEF ClientCallback, GroupCallback
    <3> QED BY <1>2, <1>3, <2>2, <3>1, CreateGetsThrough
  <2>5. CASE h = "ESTABLISHED"
    <3>1. UNCHANGED <<client, services, group>>
      BY <1>1, <2>5 DEF ClientCallback, GroupCallback
    <3>2. Contains(signals, "COLLISION") => Contains(signals', "COLLISION")
      BY <1>1, <1>2, <2>5, SignalStays DEF h
    <3> QED BY <1>3, <2>2, <3>1, <3>2 DEF WayIInv, GroupOnItsWay
  <2> QED BY <1>1, <2>1, <2>3, <2>4, <2>5 DEF ClientCallback, GroupCallback
<1> QED BY <1>5, <1>6 DEF WayIInv

\* The daemon tells, and what it tells waits in the queue.
LEMMA DaemonOnItsWay ==
  ASSUME SystemIInv, WayIInv, Establish \/ Collide \/ HostNameTaken \/ HostNameRegistered PROVE WayIInv'
<1>1. /\ backend = "avahi" /\ Connected /\ UNCHANGED <<backend, phase, services, client, polling>>
  BY DEF Establish, Collide, HostNameTaken, HostNameRegistered, Daemon, manager
<1>2. PICK x \in Signals :
        /\ signals' = Append(signals, x)
        /\ \/ UNCHANGED group
           \/ group' = "established"
           \/ x = "COLLISION" /\ group' = "collision"
  BY DEF Establish, Collide, HostNameTaken, HostNameRegistered, Signal, Signals, ClientSignals
<1>3. signals \in Seq(Signals)
  BY DEF SystemIInv, SystemTyped
<1>4. Contains(signals, "COLLISION") \/ x = "COLLISION" => Contains(signals', "COLLISION")
  <2>1. x = "COLLISION" => Contains(signals', "COLLISION")
    <3>1. Len(signals') = Len(signals) + 1 /\ signals'[Len(signals) + 1] = x /\ Len(signals) \in Nat
      BY <1>2, <1>3, AppendProperties, LenProperties
    <3>2. Len(signals) + 1 \in 1 .. Len(signals')
      BY <3>1
    <3> QED BY <3>1, <3>2 DEF Contains
  <2> QED BY <1>2, <1>3, <2>1, SignalStays
<1>5. GroupOnItsWay'
  BY <1>1, <1>2, <1>4 DEF WayIInv, GroupOnItsWay
<1> QED BY <1>1, <1>5 DEF WayIInv, Started

\* An outage is told by the last signal there is.
LEMMA OutageOnItsWay == ASSUME SystemIInv, WayIInv, Outage PROVE WayIInv'
<1>1. UNCHANGED <<backend, phase, services, client, polling>>
  BY DEF Outage, manager
<1>2. backend = "avahi" => ~Connected'
  <2> SUFFICES ASSUME backend = "avahi" PROVE ~Connected'
    OBVIOUS
  <2>1. CASE Connected
    <3>1. signals \in Seq(Signals) /\ signals' = Append(signals, "FAILURE") /\ "FAILURE" \in Signals
      BY <2>1 DEF Outage, Signal, SystemIInv, SystemTyped, Signals, ClientSignals
    <3>2. Len(signals') = Len(signals) + 1 /\ signals'[Len(signals) + 1] = "FAILURE" /\ Len(signals) \in Nat
      BY <3>1, AppendProperties, LenProperties
    <3>3. Len(signals) + 1 \in 1 .. Len(signals')
      BY <3>2
    <3> QED BY <3>2, <3>3 DEF Connected, Contains
  <2>2. CASE ~Connected
    BY <1>1, <2>2 DEF Outage, Connected, Contains
  <2> QED BY <2>1, <2>2
<1> QED BY <1>1, <1>2 DEF WayIInv, GroupOnItsWay, Started

\* The safety half of StaysVisible: while the system's daemon never stopped, the
\* receiver is visible or something is under way that makes it so, namely a signal
\* that Avahi's thread will hear, or the daemon's own work; no order of renames,
\* collisions, new host names and callbacks leaves a group reset and forgotten.
THEOREM NeverForgotten == SystemSpec => []OnItsWay
<1>1. SystemInit => WayIInv
  BY DEF SystemInit, WayIInv, GroupOnItsWay, Started
<1>2. ASSUME SystemIInv, WayIInv, [SystemNext]_systemVars PROVE WayIInv'
  <2>1. CASE UNCHANGED <<backend, phase, services, client, group, signals, polling>>
    BY <1>2, <2>1 DEF WayIInv, GroupOnItsWay, Started, Connected, Contains
  <2>2. CASE Stop \/ Free \/ Deallocate \/ Join
    BY <1>2, <2>2 DEF Stop, Free, Deallocate, Join, WayIInv, GroupOnItsWay, Started
  <2>3. Loop \/ Select \/ ProcessResult \/ DaemonStarts \/ UNCHANGED systemVars
        => UNCHANGED <<backend, phase, services, client, group, signals, polling>>
    BY DEF Loop, Select, ProcessResult, DaemonStarts, systemVars, manager, avahi
  <2> QED BY <1>2, <2>1, <2>2, <2>3, CallsOnItsWay, DispatchOnItsWay, DaemonOnItsWay, OutageOnItsWay
          DEF SystemNext
<1>3. SystemIInv /\ WayIInv => OnItsWay
  <2> SUFFICES ASSUME SystemIInv, WayIInv, phase = "running", Served
               PROVE  /\ services # <<>>
                      /\ backend = "bonjour" => published = ToSet(services)
                      /\ backend = "avahi" =>
                           /\ polling
                           /\ signals = <<>> =>
                                Connected /\ (daemon = "registering" \/ group \in {"registering", "established"})
    BY DEF OnItsWay
  <2>1. services # <<>> /\ (backend = "avahi" => polling)
    BY DEF WayIInv, Started
  <2>2. backend = "bonjour" => published = ToSet(services)
    BY DEF SystemIInv, RefsAreCurrent, Served
  <2>3. ASSUME backend = "avahi", signals = <<>>
        PROVE  Connected /\ (daemon = "registering" \/ group \in {"registering", "established"})
    <3>1. Len(signals) = 0 /\ 1 .. 0 = {}
      BY <2>3, EmptySeq
    <3>2. Connected
      BY <2>3, <3>1 DEF SystemIInv, Ended, Served, Connected, Contains
    <3>3. client = daemon /\ daemon \in {"running", "registering"}
      BY <2>3, <3>1, <3>2 DEF SystemIInv, InOrder, Seen
    <3>4. ~Contains(signals, "COLLISION")
      BY <3>1 DEF Contains
    <3> QED BY <2>1, <2>3, <3>2, <3>3, <3>4 DEF WayIInv, GroupOnItsWay, Served
  <2> QED BY <2>1, <2>2, <2>3
<1> QED BY <1>1, <1>2, <1>3, SystemInvariance, PTL DEF SystemSpec

-----------------------------------------------------------------------------
(* The types of the advertisers, with the bounds they name: no alternative *)
(* name is taken for which no collision is counted.                        *)

Collisions(q) == {i \in 1 .. Len(q) : q[i] = "COLLISION"}
Queued(q) == Cardinality(Collisions(q))

\* Each collision is heard once, and then it takes one alternative name.
AlternativesInv == active.alternative + Queued(signals) <= happened.taken

\* A queue has a number of collisions; one more signal may be one more.
LEMMA QueuedAppend ==
  ASSUME NEW q \in Seq(Signals), NEW x \in Signals
  PROVE  /\ IsFiniteSet(Collisions(q)) /\ Queued(q) \in Nat /\ Queued(<<>>) = 0
         /\ Queued(Append(q, x)) = IF x = "COLLISION" THEN Queued(q) + 1 ELSE Queued(q)
<1> DEFINE n == Len(q)
           r == Append(q, x)
<1>1. n \in Nat /\ Len(r) = n + 1 /\ r[n + 1] = x /\ \A i \in 1 .. n : r[i] = q[i]
  BY AppendProperties, LenProperties
<1>2. IsFiniteSet(Collisions(q)) /\ Queued(q) \in Nat
  <2>1. n \in Int /\ 1 \in Int /\ Collisions(q) \in SUBSET (1 .. n)
    BY <1>1 DEF Collisions
  <2>2. IsFiniteSet(1 .. n)
    BY ONLY <2>1, FS_Interval
  <2> QED BY <2>1, <2>2, FS_Subset, FS_CardinalityType DEF Queued
<1>3. Queued(<<>>) = 0
  <2>1. Collisions(<<>>) = {}
    BY DEF Collisions
  <2> QED BY <2>1, FS_EmptySet DEF Queued
<1> HIDE DEF n, r
<1>4. \A i : i \in 1 .. n + 1 <=> i = n + 1 \/ i \in 1 .. n
  BY <1>1
<1>5. n + 1 \notin 1 .. n
  BY <1>1
<1>6. Collisions(q) = {i \in 1 .. n : q[i] = "COLLISION"}
  BY DEF Collisions, n
<1>7. CASE x = "COLLISION"
  <2>1. Collisions(r) = Collisions(q) \union {n + 1} /\ n + 1 \notin Collisions(q)
    BY <1>1, <1>4, <1>5, <1>6, <1>7 DEF Collisions
  <2> QED BY <1>2, <1>3, <1>7, <2>1, FS_AddElement DEF Queued, r
<1>8. CASE x # "COLLISION"
  <2>1. Collisions(r) = Collisions(q)
    BY <1>1, <1>4, <1>5, <1>6, <1>8 DEF Collisions
  <2> QED BY <1>2, <1>3, <1>8, <2>1 DEF Queued, r
<1> QED BY <1>7, <1>8

\* A signal that is taken may be one collision less.
LEMMA QueuedTail ==
  ASSUME NEW q \in Seq(Signals), q # <<>>
  PROVE  Queued(Tail(q)) <= IF Head(q) = "COLLISION" THEN Queued(q) - 1 ELSE Queued(q)
<1> DEFINE n == Len(q)
           r == Tail(q)
           S == Collisions(q) \ {1}
<1>1. n \in Nat \ {0} /\ q[1] = Head(q)
  BY EmptySeq, LenProperties
<1>2. Len(r) = n - 1 /\ \A j \in 1 .. Len(r) : r[j] = q[j + 1]
  BY HeadTailProperties
<1>3. IsFiniteSet(Collisions(q)) /\ Queued(q) \in Nat
  <2>1. "COLLISION" \in Signals
    BY DEF Signals
  <2> QED BY <2>1, QueuedAppend
<1>4. /\ IsFiniteSet(S)
      /\ Cardinality(S) = IF 1 \in Collisions(q) THEN Queued(q) - 1 ELSE Queued(q)
  BY <1>3, FS_RemoveElement DEF Queued
<1>5. 1 \in Collisions(q) <=> Head(q) = "COLLISION"
  BY <1>1 DEF Collisions
<1>6. Collisions(r) = {i - 1 : i \in S}
  <2>1. ASSUME NEW j \in Collisions(r) PROVE j \in {i - 1 : i \in S}
    <3>1. j \in 1 .. n - 1 /\ r[j] = "COLLISION"
      BY <1>2 DEF Collisions
    <3>2. j + 1 \in 1 .. n /\ j + 1 # 1 /\ (j + 1) - 1 = j /\ q[j + 1] = "COLLISION"
      BY <1>1, <1>2, <3>1
    <3>3. j + 1 \in S
      BY <3>2 DEF Collisions
    <3> QED BY <3>2, <3>3
  <2>2. ASSUME NEW i \in S PROVE i - 1 \in Collisions(r)
    <3>1. i \in 1 .. n /\ i # 1 /\ q[i] = "COLLISION"
      BY DEF Collisions
    <3>2. i - 1 \in 1 .. Len(r) /\ (i - 1) + 1 = i
      BY <1>1, <1>2, <3>1
    <3> QED BY <1>2, <3>1, <3>2 DEF Collisions
  <2> QED BY <2>1, <2>2
<1> HIDE DEF S
<1>7. Cardinality(Collisions(r)) <= Cardinality(S)
  <2> DEFINE T == Collisions(r)
             f == [i \in S |-> i - 1]
  <2>1. f \in Surjection(S, T)
    <3>1. T = {i - 1 : i \in S}
      BY <1>6
    <3> HIDE DEF T
    <3> QED BY <3>1 DEF Surjection
  <2> HIDE DEF f, T
  <2>2. Cardinality(T) <= Cardinality(S)
    BY <1>4, <2>1, FS_Surjection
  <2> QED BY <2>2 DEF T
<1>8. Queued(r) = Cardinality(Collisions(r)) /\ Queued(r) \in Nat
  <2>1. r \in Seq(Signals)
    BY HeadTailProperties
  <2>2. "COLLISION" \in Signals
    BY DEF Signals
  <2> QED BY <2>1, <2>2, QueuedAppend DEF Queued
<1> QED BY <1>3, <1>4, <1>5, <1>7, <1>8

\* The type of each service, and the states that createServices() and Reset leave.
AllTypes == {ServiceTypes[i] : i \in DOMAIN ServiceTypes}
Groups   == {"none", "lost", "uncommitted", "registering", "established", "collision"}

\* What is published of a list is what it holds.
LEMMA ToldTyped ==
  ASSUME SystemTypeOK, NEW list \in Seq(ServiceRecord)
  PROVE  /\ CreateServices(list) \/ Reset => published' \subseteq ServiceRecord /\ group' \in Groups
         /\ \A types \in SUBSET AllTypes :
              Register(list, types) => published' \subseteq ServiceRecord /\ refs' \subseteq AllTypes
<1>1. ToSet(list) \subseteq ServiceRecord
  BY LenProperties, ElementOfSeq DEF ToSet
<1>2. CreateServices(list) \/ Reset => published' \subseteq ServiceRecord /\ group' \in Groups
  BY <1>1 DEF CreateServices, Reset, SystemTypeOK, Groups
<1>3. ASSUME NEW types \in SUBSET AllTypes, Register(list, types)
      PROVE  published' \subseteq ServiceRecord /\ refs' \subseteq AllTypes
  BY <1>1, <1>3 DEF Register, SystemTypeOK, AllTypes
<1> QED BY <1>2, <1>3

\* Advertising, renaming and updating at either back end.
LEMMA TellTyped ==
  ASSUME SystemTypeOK, services' \in Seq(ServiceRecord), NEW reset \in BOOLEAN,
         \/ \E types \in SUBSET AllTypes : Tell(services', reset, types)
         \/ Republish(services', reset) /\ UNCHANGED <<client, signals, polling, bonjour>>
         \/ \E t \in AllTypes : Update(services', t) /\ UNCHANGED <<avahi, connection, running, thread, misused>>
  PROVE  /\ published' \subseteq ServiceRecord /\ group' \in Groups /\ refs' \subseteq AllTypes
         /\ UNCHANGED <<client, signals, polling, connection, running, thread, misused>>
<1>1. CASE Republish(services', reset) /\ UNCHANGED <<client, signals, polling, bonjour>>
  BY <1>1, ToldTyped DEF Republish, bonjour, SystemTypeOK, Groups, AllTypes
<1>2. ASSUME NEW types \in SUBSET AllTypes, Register(services', types),
             UNCHANGED <<avahi, connection, running, thread, misused>>
      PROVE  /\ published' \subseteq ServiceRecord /\ group' \in Groups /\ refs' \subseteq AllTypes
             /\ UNCHANGED <<client, signals, polling, connection, running, thread, misused>>
  BY <1>2, ToldTyped DEF avahi, SystemTypeOK, Groups
<1>3. ASSUME NEW t \in AllTypes, Update(services', t), UNCHANGED <<avahi, connection, running, thread, misused>>
      PROVE  /\ published' \subseteq ServiceRecord /\ group' \in Groups /\ refs' \subseteq AllTypes
             /\ UNCHANGED <<client, signals, polling, connection, running, thread, misused>>
  <2>1. CASE Register(services', {t})
    BY <1>2, <1>3, <2>1
  <2>2. CASE UNCHANGED <<refs, published>>
    BY <1>3, <2>2 DEF avahi, SystemTypeOK, Groups, AllTypes
  <2> QED BY <1>3, <2>1, <2>2 DEF Update
<1> QED BY <1>1, <1>2, <1>3 DEF Tell

\* Another name, or the key, leaves the list as long as it was.
LEMMA ChangedTyped ==
  ASSUME SystemTypeOK, NEW list, DOMAIN list = DOMAIN services, list = [i \in DOMAIN services |-> list[i]],
         \A i \in DOMAIN services : services[i] \in ServiceRecord => list[i] \in ServiceRecord
  PROVE  list \in Seq(ServiceRecord) /\ Len(list) <= Len(ServiceTypes)
<1> DEFINE n == Len(services)
<1>1. n \in Nat /\ DOMAIN services = 1 .. n /\ services \in Seq(ServiceRecord)
  BY LenProperties DEF SystemTypeOK
<1>2. n <= Len(ServiceTypes)
  BY DEF SystemTypeOK
<1> HIDE DEF n
<1>3. \A i \in 1 .. n : services[i] \in ServiceRecord
  BY <1>1, LenProperties, ElementOfSeq
<1>4. list \in [1 .. n -> ServiceRecord]
  BY <1>1, <1>3
<1>5. list \in Seq(ServiceRecord)
  BY <1>1, <1>4, SeqDef
<1>6. Len(list) = n
  BY <1>1, <1>4, <1>5, LenProperties
<1> QED BY <1>2, <1>5, <1>6

LEMMA RenamedTyped ==
  ASSUME SystemTypeOK, NEW name \in ServiceName
  PROVE  Renamed(name) \in Seq(ServiceRecord) /\ Len(Renamed(name)) <= Len(ServiceTypes)
<1> DEFINE list == Renamed(name)
<1>1. list = [i \in DOMAIN services |-> [services[i] EXCEPT !.name = name]]
  BY DEF Renamed
<1> HIDE DEF list
<1>2. \A i \in DOMAIN services : services[i] \in ServiceRecord => list[i] \in ServiceRecord
  BY <1>1 DEF ServiceRecord
<1>3. list = [i \in DOMAIN services |-> list[i]] /\ DOMAIN list = DOMAIN services
  BY <1>1
<1>4. list \in Seq(ServiceRecord) /\ Len(list) <= Len(ServiceTypes)
  BY <1>2, <1>3, ChangedTyped
<1> QED BY <1>4 DEF list

-----------------------------------------------------------------------------
(* One lemma for each action, or for those that are alike.                 *)

TypedIInv == SystemTypeOK /\ AlternativesInv

\* A step that leaves names and signals alone leaves the alternatives counted.
LEMMA AlternativesStay ==
  ASSUME AlternativesInv, signals' = signals, active'.alternative = active.alternative,
         happened'.taken = happened.taken
  PROVE  AlternativesInv'
BY DEF AlternativesInv

LEMMA AdvertiseTyped == ASSUME SystemIInv, TypedIInv, Advertise PROVE TypedIInv'
<1> DEFINE t == ServiceTypes[Len(services) + 1]
           r == [type |-> t, key |-> FALSE, name |-> [of |-> 0, alternative |-> 0, mac |-> t = Prefixed]]
           n == Len(services)
<1>1. n \in Nat /\ services \in Seq(ServiceRecord) /\ Len(ServiceTypes) \in Nat
      /\ DOMAIN ServiceTypes = 1 .. Len(ServiceTypes) /\ n < Len(ServiceTypes)
  BY AdvertisersAssumption, LenProperties DEF TypedIInv, SystemTypeOK, Advertise
<1>2. t \in AllTypes
  <2>1. n + 1 \in DOMAIN ServiceTypes
    BY <1>1
  <2> QED BY <2>1 DEF AllTypes
<1>3. /\ services' = Append(services, r) /\ Tell(services', FALSE, {t})
      /\ phase' \in {"advertising", "running"}
      /\ UNCHANGED <<backend, active, daemon, happened>>
  BY DEF Advertise, TypedIInv, SystemTypeOK
<1> HIDE DEF t, n
<1>4. r \in ServiceRecord
  <2>1. MaxRenames \in Nat /\ MaxTaken \in Nat
    BY AdvertisersAssumption
  <2> QED BY <1>2, <2>1 DEF ServiceRecord, ServiceName, AllTypes
<1> HIDE DEF r
<1>5. services' \in Seq(ServiceRecord) /\ Len(services') = n + 1
  BY <1>1, <1>3, <1>4, AppendProperties DEF n
<1>6. /\ published' \subseteq ServiceRecord /\ group' \in Groups /\ refs' \subseteq AllTypes
      /\ UNCHANGED <<client, signals, polling, connection, running, thread, misused>>
  BY <1>2, <1>3, <1>5, TellTyped DEF TypedIInv
<1>7. Len(services') <= Len(ServiceTypes)
  BY <1>1, <1>5
<1>8. AlternativesInv'
  BY <1>3, <1>6, AlternativesStay DEF TypedIInv
<1> QED BY <1>3, <1>5, <1>6, <1>7, <1>8 DEF TypedIInv, SystemTypeOK, Groups, AllTypes

LEMMA RenameTyped == ASSUME SystemIInv, TypedIInv, Rename PROVE TypedIInv'
<1>1. /\ happened' \in [renames : 0 .. MaxRenames, taken : 0 .. MaxTaken, outages : 0 .. MaxOutages]
      /\ happened'.taken = happened.taken /\ active' \in ServiceName /\ active'.alternative = 0
  <2>1. MaxRenames \in Nat /\ MaxTaken \in Nat
    BY AdvertisersAssumption
  <2>2. /\ happened' \in [renames : 0 .. MaxRenames, taken : 0 .. MaxTaken, outages : 0 .. MaxOutages]
        /\ happened'.taken = happened.taken
    BY <2>1, SMTT(20) DEF Rename, Happens, TypedIInv, SystemTypeOK
  <2> QED BY <2>1, <2>2 DEF Rename, ServiceName
<1>2. /\ services' = Renamed(active') /\ Tell(services', TRUE, TypesOf(services))
      /\ UNCHANGED <<backend, phase, daemon>>
  BY DEF Rename, TypesOf
<1>3. services' \in Seq(ServiceRecord) /\ Len(services') <= Len(ServiceTypes)
  BY <1>1, <1>2, RenamedTyped DEF TypedIInv
<1>4. TypesOf(services) \subseteq AllTypes
  <2>1. \A i \in DOMAIN services : services[i] \in ServiceRecord
    BY LenProperties, ElementOfSeq DEF TypedIInv, SystemTypeOK
  <2> QED BY <2>1 DEF TypesOf, AllTypes, ServiceRecord
<1>5. /\ published' \subseteq ServiceRecord /\ group' \in Groups /\ refs' \subseteq AllTypes
      /\ UNCHANGED <<client, signals, polling, connection, running, thread, misused>>
  BY <1>2, <1>3, <1>4, TellTyped DEF TypedIInv
<1>6. AlternativesInv'
  <2>1. active.alternative \in Nat
    BY DEF TypedIInv, SystemTypeOK, ServiceName
  <2>2. Queued(signals) \in Nat /\ happened.taken \in Nat
    <3>1. signals \in Seq(Signals) /\ "COLLISION" \in Signals
      BY DEF SystemIInv, SystemTyped, Signals
    <3>2. happened.taken \in Nat
      BY DEF SystemIInv, SystemTyped
    <3> QED BY <3>1, <3>2, QueuedAppend
  <2>3. Queued(signals') = Queued(signals)
    BY <1>5
  <2> QED BY <1>1, <2>1, <2>2, <2>3 DEF TypedIInv, AlternativesInv
<1> QED BY <1>1, <1>2, <1>3, <1>5, <1>6 DEF TypedIInv, SystemTypeOK, Groups, AllTypes

LEMMA UpdateTyped == ASSUME SystemIInv, TypedIInv, NEW t \in Keyed, UpdateTxtRecord(t) PROVE TypedIInv'
<1> DEFINE list == services'
<1>1. /\ list = [i \in DOMAIN services |->
           IF services[i].type = t THEN [services[i] EXCEPT !.key = TRUE] ELSE services[i]]
      /\ UNCHANGED <<backend, phase, active, daemon, happened>>
  BY DEF UpdateTxtRecord
<1>2. list \in Seq(ServiceRecord) /\ Len(list) <= Len(ServiceTypes)
  <2> HIDE DEF list
  <2>1. \A i \in DOMAIN services : services[i] \in ServiceRecord => list[i] \in ServiceRecord
    BY <1>1 DEF ServiceRecord
  <2>2. list = [i \in DOMAIN services |-> list[i]] /\ DOMAIN list = DOMAIN services
    BY <1>1
  <2> QED BY <2>1, <2>2, ChangedTyped DEF TypedIInv
<1>3. t \in AllTypes
  BY AdvertisersAssumption DEF AllTypes
<1>4. /\ published' \subseteq ServiceRecord /\ group' \in Groups /\ refs' \subseteq AllTypes
      /\ UNCHANGED <<client, signals, polling, connection, running, thread, misused>>
  <2>1. \/ Republish(services', TRUE) /\ UNCHANGED <<client, signals, polling, bonjour>>
        \/ Update(services', t) /\ UNCHANGED <<avahi, connection, running, thread, misused>>
    BY DEF UpdateTxtRecord
  <2> QED BY <1>2, <1>3, <2>1, TellTyped DEF TypedIInv
<1>5. AlternativesInv'
  BY <1>1, <1>4, AlternativesStay DEF TypedIInv
<1> QED BY <1>1, <1>2, <1>4, <1>5 DEF TypedIInv, SystemTypeOK, Groups, AllTypes

\* A collision that is heard moves from the queue into the name.
LEMMA DispatchTyped == ASSUME SystemIInv, SystemIInv', TypedIInv, Dispatch PROVE TypedIInv'
<1> DEFINE h == Head(signals)
<1>1. /\ signals # <<>> /\ signals' = Tail(signals) /\ (ClientCallback(h) \/ GroupCallback(h))
      /\ UNCHANGED <<backend, phase, daemon, happened, polling, refs, connection, running, thread, misused>>
  BY DEF Dispatch, bonjour
<1>2. signals \in Seq(Signals) /\ signals' \in Seq(Signals) /\ "COLLISION" \in Signals
  BY DEF SystemIInv, SystemTyped, Signals
<1>3. /\ Queued(signals) \in Nat /\ Queued(signals') \in Nat
      /\ Queued(signals') <= IF h = "COLLISION" THEN Queued(signals) - 1 ELSE Queued(signals)
  BY <1>1, <1>2, QueuedAppend, QueuedTail
<1>4. /\ active.alternative \in Nat /\ happened.taken \in 0 .. MaxTaken /\ MaxTaken \in Nat
      /\ active.alternative + Queued(signals) <= happened.taken
  BY AdvertisersAssumption DEF TypedIInv, SystemTypeOK, ServiceName, AlternativesInv
<1> HIDE DEF h
<1>5. CASE ClientCallback(h) \/ (GroupCallback(h) /\ h = "ESTABLISHED")
  <2>1. UNCHANGED <<services, active>> /\ client' \in {"running", "registering", "failure", client}
    BY <1>5 DEF ClientCallback, GroupCallback
  <2>2. services \in Seq(ServiceRecord)
    BY DEF TypedIInv, SystemTypeOK
  <2>3. published' \subseteq ServiceRecord /\ group' \in Groups
    <3>1. CreateServices(services) \/ Reset \/ UNCHANGED <<group, published>>
      BY <1>5 DEF ClientCallback, GroupCallback
    <3> QED BY <2>2, <3>1, ToldTyped DEF TypedIInv, SystemTypeOK, Groups
  <2>4. AlternativesInv'
    BY <1>1, <1>3, <1>4, <2>1 DEF AlternativesInv
  <2> QED BY <1>1, <1>2, <2>1, <2>3, <2>4 DEF TypedIInv, SystemTypeOK, Groups, Signals, ClientSignals
<1>6. CASE GroupCallback(h) /\ h = "COLLISION"
  <2>1. /\ active' = [active EXCEPT !.alternative = @ + 1]
        /\ services' = Renamed(active') /\ CreateServices(services') /\ UNCHANGED client
    BY <1>6 DEF GroupCallback
  <2>2. active'.alternative = active.alternative + 1
    BY <2>1 DEF TypedIInv, SystemTypeOK, ServiceName
  <2>3. AlternativesInv' /\ active'.alternative \in 0 .. MaxTaken
    <3>1. happened' = happened /\ Queued(signals') <= Queued(signals) - 1
      BY <1>1, <1>3, <1>6
    <3>2. ASSUME NEW q \in Nat, NEW n \in Nat, q <= n - 1
          PROVE  /\ active.alternative + 1 + q <= active.alternative + n
                 /\ active.alternative + 1 \in 0 .. active.alternative + n
      BY <1>4, <3>2
    <3>3. /\ active.alternative + 1 + Queued(signals') <= active.alternative + Queued(signals)
          /\ active.alternative + 1 \in 0 .. active.alternative + Queued(signals)
      BY <1>3, <3>1, <3>2
    <3>4. AlternativesInv'
      BY <1>3, <1>4, <2>2, <3>1, <3>3 DEF AlternativesInv
    <3> QED BY <1>3, <1>4, <2>2, <3>3, <3>4
  <2>4. active' \in ServiceName
    BY <2>1, <2>2, <2>3 DEF TypedIInv, SystemTypeOK, ServiceName
  <2>5. services' \in Seq(ServiceRecord) /\ Len(services') <= Len(ServiceTypes)
    BY <2>1, <2>4, RenamedTyped DEF TypedIInv
  <2>6. published' \subseteq ServiceRecord /\ group' \in Groups
    BY <2>1, <2>5, ToldTyped DEF TypedIInv
  <2> QED BY <1>1, <1>2, <2>1, <2>3, <2>4, <2>5, <2>6 DEF TypedIInv, SystemTypeOK, Groups, Signals, ClientSignals
<1> QED BY <1>1, <1>5, <1>6 DEF GroupCallback

\* Bonjour's thread, and stop() part by part.
LEMMA ThreadTyped ==
  ASSUME TypedIInv, Loop \/ Select \/ ProcessResult \/ Stop \/ Free \/ Deallocate \/ Join
  PROVE  TypedIInv'
<1>1. SystemTypeOK'
  <2>1. CASE Loop \/ Select \/ ProcessResult
    <3>1. UNCHANGED <<backend, phase, services, active, daemon, published, happened, client, group, signals,
                      polling, refs, connection, running>>
      BY <2>1 DEF Loop, Select, ProcessResult, manager, avahi
    <3>2. thread' \in {"loop", "select", "process", "ended"} /\ misused' \in BOOLEAN
      BY <2>1 DEF Loop, Select, ProcessResult, TypedIInv, SystemTypeOK
    <3> QED BY <3>1, <3>2 DEF TypedIInv, SystemTypeOK
  <2>2. CASE Stop \/ Deallocate \/ Join
    <3>1. UNCHANGED <<backend, services, active, daemon, published, happened, client, group, signals,
                      refs, thread, misused>>
      BY <2>2 DEF Stop, Deallocate, Join, avahi, bonjour
    <3>2. phase' \in {"stopping", "joining", "stopped"} /\ connection' \in {connection, "freed"}
      BY <2>2 DEF Stop, Deallocate, Join, bonjour
    <3>3. polling' \in BOOLEAN /\ running' \in BOOLEAN
      <4>1. polling \in BOOLEAN /\ running \in BOOLEAN
        BY DEF TypedIInv, SystemTypeOK
      <4> QED BY <2>2, <4>1 DEF Stop, Deallocate, Join, avahi, bonjour
    <3> QED BY <3>1, <3>2, <3>3 DEF TypedIInv, SystemTypeOK
  <2>3. CASE Free
    <3>1. services' \in Seq(ServiceRecord) /\ Len(services') <= Len(ServiceTypes)
      <4>1. <<>> \in Seq(ServiceRecord) /\ Len(<<>>) = 0 /\ Len(ServiceTypes) \in Nat
        BY AdvertisersAssumption, EmptySeq, LenProperties
      <4>2. services' = services \/ services' = <<>>
        BY <2>3 DEF Free
      <4>3. CASE services' = <<>>
        BY <4>1, <4>3
      <4>4. CASE services' = services
        BY <4>4 DEF TypedIInv, SystemTypeOK
      <4> QED BY <4>2, <4>3, <4>4
    <3> QED BY <2>3, <3>1 DEF Free, TypedIInv, SystemTypeOK
  <2> QED BY <2>1, <2>2, <2>3
<1>2. signals' = signals /\ active' = active /\ happened' = happened
  BY DEF Loop, Select, ProcessResult, Stop, Free, Deallocate, Join, manager, avahi
<1> QED BY <1>1, <1>2, AlternativesStay DEF TypedIInv

\* The daemons: each collision is counted and told.
LEMMA DaemonTyped ==
  ASSUME SystemIInv, SystemIInv', TypedIInv,
         Establish \/ Collide \/ HostNameTaken \/ HostNameRegistered \/ Outage \/ DaemonStarts
  PROVE  TypedIInv'
<1>1. /\ UNCHANGED <<backend, phase, services, active, client, polling, refs, running, thread, misused>>
      /\ published' \in {published, {}} /\ group' \in Groups /\ daemon' \in {"down", "running", "registering"}
      /\ connection' \in {connection, "broken"}
  BY DEF Establish, Collide, HostNameTaken, HostNameRegistered, Outage, DaemonStarts, Daemon, manager, avahi, bonjour,
         Groups, TypedIInv, SystemTypeOK
<1>2. happened' \in [renames : 0 .. MaxRenames, taken : 0 .. MaxTaken, outages : 0 .. MaxOutages]
  <2>1. {MaxRenames, MaxTaken, MaxOutages} \subseteq Nat
    BY AdvertisersAssumption
  <2>2. UNCHANGED happened \/ Happens("taken", MaxTaken) \/ Happens("outages", MaxOutages)
    BY DEF Establish, Collide, HostNameTaken, HostNameRegistered, Outage, DaemonStarts
  <2>3. happened \in [renames : 0 .. MaxRenames, taken : 0 .. MaxTaken, outages : 0 .. MaxOutages]
    BY DEF TypedIInv, SystemTypeOK
  <2>4. CASE Happens("taken", MaxTaken)
    BY <2>1, <2>3, <2>4 DEF Happens
  <2>5. CASE Happens("outages", MaxOutages)
    BY <2>1, <2>3, <2>5 DEF Happens
  <2> QED BY <2>2, <2>3, <2>4, <2>5
<1>3. signals \in Seq(Signals) /\ signals' \in Seq(Signals)
  BY DEF SystemIInv, SystemTyped
<1>4. AlternativesInv'
  <2>1. /\ active.alternative \in Nat /\ happened.taken \in Nat
        /\ active.alternative + Queued(signals) <= happened.taken
    BY DEF TypedIInv, SystemTypeOK, ServiceName, AlternativesInv
  <2>2. CASE Collide
    <3>1. signals' = Append(signals, "COLLISION") /\ "COLLISION" \in Signals
      BY <2>2 DEF Collide, Signal, Signals
    <3>2. happened'.taken = happened.taken + 1
      BY <2>2 DEF Collide, Happens, TypedIInv, SystemTypeOK
    <3>3. Queued(signals') = Queued(signals) + 1 /\ Queued(signals) \in Nat
      BY <1>3, <3>1, QueuedAppend
    <3> QED BY <1>1, <2>1, <3>2, <3>3 DEF AlternativesInv
  <2>3. CASE Establish \/ HostNameTaken \/ HostNameRegistered \/ Outage \/ DaemonStarts
    <3>1. happened'.taken = happened.taken
      BY <2>3 DEF Establish, HostNameTaken, HostNameRegistered, Outage, DaemonStarts, Happens, TypedIInv, SystemTypeOK
    <3>2. Queued(signals') = Queued(signals)
      <4>1. signals' = signals \/ \E x \in Signals \ {"COLLISION"} : signals' = Append(signals, x)
        BY <2>3 DEF Establish, HostNameTaken, HostNameRegistered, Outage, DaemonStarts, Signal, Signals,
                    ClientSignals, avahi
      <4> QED BY <1>3, <4>1, QueuedAppend
    <3> QED BY <1>1, <2>1, <3>1, <3>2 DEF AlternativesInv
  <2> QED BY <2>2, <2>3
<1> QED BY <1>1, <1>2, <1>3, <1>4 DEF TypedIInv, SystemTypeOK, Groups, Signals, ClientSignals

\* Every variable of Advertisers keeps its type, for any services and bounds: the
\* list never outgrows the services there are, no alternative name is taken without
\* a collision of its own, and what the daemon holds is always a service of AirShow.
THEOREM SystemTypeCorrect == SystemSpec => []SystemTypeOK
<1>1. SystemInit => TypedIInv
  <2> SUFFICES ASSUME SystemInit PROVE TypedIInv
    OBVIOUS
  <2>1. <<>> \in Seq(ServiceRecord) /\ Len(<<>>) = 0 /\ Len(ServiceTypes) \in Nat
    BY AdvertisersAssumption, EmptySeq, LenProperties
  <2>2. Queued(<<>>) = 0
    <3>1. <<>> \in Seq(Signals) /\ "COLLISION" \in Signals
      BY EmptySeq DEF Signals
    <3> QED BY <3>1, QueuedAppend
  <2>3. {MaxRenames, MaxTaken, MaxOutages} \subseteq Nat
    BY AdvertisersAssumption
  <2>4. SystemTypeOK
    <3>1. active \in ServiceName /\ happened \in [renames : 0 .. MaxRenames, taken : 0 .. MaxTaken, outages : 0 .. MaxOutages]
      BY <2>3 DEF SystemInit, ServiceName
    <3>2. services \in Seq(ServiceRecord) /\ Len(services) <= Len(ServiceTypes)
      BY <2>1 DEF SystemInit
    <3>3. signals \in Seq({"RUNNING", "REGISTERING", "FAILURE", "ESTABLISHED", "COLLISION"})
      BY EmptySeq DEF SystemInit
    <3>4. {polling, running, misused} \subseteq BOOLEAN
      BY DEF SystemInit
    <3> QED BY <3>1, <3>2, <3>3, <3>4 DEF SystemInit, SystemTypeOK
  <2>5. AlternativesInv
    BY <2>2 DEF SystemInit, AlternativesInv
  <2> QED BY <2>4, <2>5 DEF TypedIInv
<1>2. ASSUME SystemIInv, SystemIInv', TypedIInv, [SystemNext]_systemVars PROVE TypedIInv'
  <2>1. CASE UNCHANGED systemVars
    <3>1. UNCHANGED <<backend, phase, services, active, daemon, published, happened, client, group, signals,
                      polling, refs, connection, running, thread, misused>>
      BY <2>1 DEF systemVars, manager, avahi, bonjour
    <3>2. SystemTypeOK'
      BY <1>2, <3>1 DEF TypedIInv, SystemTypeOK
    <3> QED BY <1>2, <3>1, <3>2, AlternativesStay DEF TypedIInv
  <2> QED BY <1>2, <2>1, AdvertiseTyped, RenameTyped, UpdateTyped, DispatchTyped, ThreadTyped, DaemonTyped
          DEF SystemNext
<1>3. TypedIInv => SystemTypeOK
  BY DEF TypedIInv
<1> QED BY <1>1, <1>2, <1>3, SystemInvariance, PTL DEF SystemSpec
=============================================================================
