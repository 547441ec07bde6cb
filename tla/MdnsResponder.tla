---------------------------- MODULE MdnsResponder ----------------------------
(***************************************************************************)
(* MdnsResponderCore: probing, announcing, renaming, answering and saying  *)
(* goodbye, on its own thread.  What the network has been told is "said":  *)
(* for each instance name, whether the last record sent for it was live    *)
(* (with which TXT and which host name) or a goodbye.  The network itself  *)
(* is the environment: it probes for our names, or answers for them.       *)
(*                                                                         *)
(* A group's generation only serves to silence the repeats scheduled for   *)
(* an older one; here a bump removes them.  Time is left open, but for two *)
(* facts: a repeat comes a second or more after the first copy, when every *)
(* answer that waited then (20 to 500 ms) has gone, and a probe of a group *)
(* may be due at any tick.                                                 *)
(***************************************************************************)
EXTENDS Naturals, FiniteSets

CONSTANTS
  Service,     \* services the application advertises
  Base,        \* instance names it asks for
  MaxSuffix,   \* bound: conflicts over one name
  MaxTxt,      \* bound: TXT updates
  MaxAnswers,  \* bound: answers that wait at once
  MaxEvents    \* bound: conflicts, probes, renames and rescans in a behaviour

ASSUME MdnsAssumption ==
  {MaxSuffix, MaxTxt, MaxAnswers, MaxEvents} \subseteq Nat /\ Base # {}

kProbeCount == 3
Name  == [service : Service, base : Base, suffix : 1 .. MaxSuffix + 1]
Nothing == [live |-> FALSE, txt |-> 0, host |-> 0]
Record == [live : BOOLEAN, txt : 0 .. MaxTxt, host : 0 .. MaxSuffix + 1]

VARIABLES
  host,      \* m_host and m_hostSuffix
  svc,       \* m_services; is: "held" while the service is in the list
  timer,     \* m_probeTimer runs
  repeats,   \* scheduled copies of announcements
  answers,   \* scheduled answers: the records they were made from
  said,      \* what the network was last told about each name
  probed,    \* history: probes sent for a name since it was taken or contested
  verified,  \* history: names that were announced after three of them
  lost,      \* history: names given up without a goodbye
  events     \* history: events counted against MaxEvents

vars == <<host, svc, timer, repeats, answers, said, probed, verified, lost, events>>

Group   == [probes : 0 .. kProbeCount, ann : BOOLEAN, suffix : 1 .. MaxSuffix + 1]
Fresh   == [probes |-> 0, ann |-> FALSE, suffix |-> 1]
Absent  == [is |-> "unborn", probes |-> 0, ann |-> FALSE, suffix |-> 1,
            base |-> CHOOSE b \in Base : TRUE, txt |-> 0]

Held(s)   == svc[s].is = "held"
Announced == {s \in Service : Held(s) /\ svc[s].ann}
Unsaid    == {s \in Service : Held(s) /\ ~svc[s].ann}

NameOf(s) == [service |-> s, base |-> svc[s].base, suffix |-> svc[s].suffix]
Snapshot == {[name |-> NameOf(s), txt |-> svc[s].txt, host |-> host.suffix] :
               s \in Announced}

TypeOK ==
  /\ host \in Group
  /\ svc \in [Service -> [is : {"unborn", "held", "gone"}, probes : 0 .. kProbeCount, ann : BOOLEAN,
                          suffix : 1 .. MaxSuffix + 1, base : Base, txt : 0 .. MaxTxt]]
  /\ timer \in BOOLEAN
  /\ \A r \in repeats : r.service \in Service /\ r.copy \in 1 .. 2
  /\ \A a \in answers : \A r \in a : r.name \in Name
  /\ said \in [Name -> Record]
  /\ probed \in [Service -> 0 .. kProbeCount]
  /\ verified \subseteq Name /\ lost \subseteq Name
  /\ events \in 0 .. MaxEvents

Init ==
  /\ host = Fresh
  /\ svc = [s \in Service |-> Absent]
  /\ timer = TRUE
  /\ repeats = {} /\ answers = {}
  /\ said = [n \in Name |-> Nothing]
  /\ probed = [s \in Service |-> 0]
  /\ verified = {} /\ lost = {} /\ events = 0

Count == events < MaxEvents /\ events' = events + 1

-----------------------------------------------------------------------------
(* Announcements.                                                          *)

Silenced(S) == {r \in repeats : r.service \notin S}

\* announceService(): the first copy goes out now, two are scheduled.
Copies(S) == {[service |-> s, copy |-> c, after |-> answers] : s \in S, c \in 1 .. 2}

\* With services v and host h, the records of the services S are sent.
SaidBy(S, v, h) ==
  [n \in Name |->
    IF \E s \in S : n = [service |-> s, base |-> v[s].base, suffix |-> v[s].suffix]
    THEN [live |-> TRUE, txt |-> v[n.service].txt, host |-> h.suffix]
    ELSE said[n]]

Repeat(r) ==
  /\ r \in repeats
  /\ r.after \intersect answers = {}
  /\ repeats' = repeats \ {r}
  /\ said' = SaidBy({r.service}, svc, host)
  /\ UNCHANGED <<host, svc, timer, answers, probed, verified, lost, events>>

-----------------------------------------------------------------------------
(* Probing.                                                                *)

\* Mutant: the timer, stopped once all is announced, is not started again.
StartTimerIdle == UNCHANGED timer

StartTimer == timer' = TRUE

\* Mutant: the probes of the old name count for the new one.
ProbingOn(g) == [g EXCEPT !.ann = FALSE]

Probing(g) == [g EXCEPT !.probes = 0, !.ann = FALSE]

Forgotten(S) == probed' = [s \in Service |-> IF s \in S THEN 0 ELSE probed[s]]

ProbesLeft(g) == g.probes < kProbeCount

\* One group at one tick: nothing, a probe, or the announcement.
Stepped(g, due, canAnnounce) ==
  IF g.ann \/ ~due THEN g
  ELSE IF ProbesLeft(g) THEN [g EXCEPT !.probes = @ + 1]
  ELSE IF canAnnounce THEN [g EXCEPT !.ann = TRUE] ELSE g

\* Mutant: a service does not wait for the host name.
CanAnnounceAlways(h) == TRUE

CanAnnounce(h) == h.ann

\* probeTick(): the host first, so a service may go live in the same tick.
ProbeTick(hostDue, due) ==
  /\ timer
  /\ LET h    == Stepped(host, hostDue, TRUE)
         v    == [s \in Service |->
                   IF Held(s) THEN Stepped(svc[s], s \in due, CanAnnounce(h)) ELSE svc[s]]
         new  == {s \in Service : v[s].ann /\ ~svc[s].ann}
         told == new \union
                 IF h.ann /\ ~host.ann THEN {s \in Service : svc[s].ann} ELSE {}
     IN  /\ host' = h /\ svc' = v
         /\ said' = SaidBy(told, v, h)
         /\ repeats' = repeats \union Copies(told)
         /\ probed' = [s \in Service |->
                        IF svc[s].probes < v[s].probes THEN probed[s] + 1 ELSE probed[s]]
         /\ verified' = verified \union {NameOf(s) : s \in {t \in new : probed[t] = kProbeCount}}
  /\ timer' = (~host.ann \/ Unsaid # {})
  /\ UNCHANGED <<answers, lost, events>>

\* resolveSimultaneousProbe(): another device's probe data wins.
LoseHostProbe ==
  /\ Count /\ ~host.ann
  /\ host' = Probing(host) /\ StartTimer
  /\ UNCHANGED <<svc, repeats, answers, said, probed, verified, lost>>

LoseProbe(s) ==
  /\ Count /\ s \in Unsaid
  /\ svc' = [svc EXCEPT ![s] = Probing(@)] /\ StartTimer /\ Forgotten({s})
  /\ UNCHANGED <<host, repeats, answers, said, verified, lost>>

\* handleResponse() / onConflict(): an announced name is probed for again, one that
\* is being probed for is given up.
Contested(g) == IF g.ann THEN Probing(g) ELSE [Probing(g) EXCEPT !.suffix = @ + 1]

HostConflict ==
  /\ Count /\ host.suffix <= MaxSuffix
  /\ host' = Contested(host) /\ StartTimer
  /\ UNCHANGED <<svc, repeats, answers, said, probed, verified, lost>>

Conflict(s) ==
  /\ Count /\ Held(s) /\ svc[s].suffix <= MaxSuffix
  /\ svc' = [svc EXCEPT ![s] = Contested(@)] /\ StartTimer /\ Forgotten({s})
  /\ repeats' = Silenced({s})
  /\ lost' = IF svc[s].ann THEN lost ELSE lost \union {NameOf(s)}
  /\ UNCHANGED <<host, answers, said, verified>>

-----------------------------------------------------------------------------
(* Calls of the application.                                               *)

AddService(s, b) ==
  /\ svc[s] = Absent
  /\ svc' = [svc EXCEPT ![s] = [@ EXCEPT !.is = "held", !.base = b]] /\ StartTimer
  /\ UNCHANGED <<host, repeats, answers, said, probed, verified, lost, events>>

SaidGoodbye(S) == [n \in Name |-> IF \E s \in S : n = NameOf(s) THEN Nothing ELSE said[n]]

\* Mutant: the new name is set before the goodbye is sent.
GoodbyeOnRenameLate(b) ==
  [n \in Name |-> IF \E s \in Announced : n = [NameOf(s) EXCEPT !.base = b, !.suffix = 1]
                  THEN Nothing ELSE said[n]]

GoodbyeOnRename(b) == SaidGoodbye(Announced)

RenameAll(b) ==
  /\ Count
  /\ said' = GoodbyeOnRename(b)
  /\ lost' = lost \union {NameOf(s) : s \in Unsaid}
  /\ svc' = [s \in Service |->
              IF Held(s) THEN [Probing(svc[s]) EXCEPT !.base = b, !.suffix = 1] ELSE svc[s]]
  /\ repeats' = {}
  /\ Forgotten({s \in Service : Held(s)})
  /\ IF \E s \in Service : Held(s) THEN StartTimer ELSE UNCHANGED timer
  /\ UNCHANGED <<host, answers, verified>>

\* Mutant: the change is not announced.
UpdatedSilent(s) == {}

Updated(s) == {s}

UpdateTxt(s) ==
  /\ Held(s) /\ svc[s].txt < MaxTxt
  /\ svc' = [svc EXCEPT ![s].txt = @ + 1]
  /\ IF svc[s].ann
     THEN /\ said' = SaidBy(Updated(s), svc', host)
          /\ repeats' = Silenced({s}) \union Copies(Updated(s))
     ELSE UNCHANGED <<said, repeats>>
  /\ UNCHANGED <<host, timer, answers, probed, verified, lost, events>>

\* shutdown(); the application does not advertise again.
Shutdown ==
  /\ \E s \in Service : Held(s)
  /\ said' = SaidGoodbye(Announced)
  /\ lost' = lost \union {NameOf(s) : s \in Unsaid}
  /\ svc' = [s \in Service |-> [Absent EXCEPT !.is = "gone"]]
  /\ repeats' = {}
  /\ UNCHANGED <<host, timer, answers, probed, verified, events>>

-----------------------------------------------------------------------------
(* Queries and interfaces.                                                 *)

\* handleQuery(): the answer is composed now and sent later.
HandleQuery ==
  /\ Snapshot # {}
  /\ Cardinality(answers \union {Snapshot}) <= MaxAnswers
  /\ answers' = answers \union {Snapshot}
  /\ UNCHANGED <<host, svc, timer, repeats, said, probed, verified, lost, events>>

SendAnswer(a) ==
  /\ a \in answers
  /\ answers' = answers \ {a}
  /\ said' = [n \in Name |->
               IF \E r \in a : r.name = n
               THEN LET r == CHOOSE x \in a : x.name = n
                    IN  [live |-> TRUE, txt |-> r.txt, host |-> r.host]
               ELSE said[n]]
  /\ lost' = lost \union {r.name : r \in {x \in a : ~said[x.name].live}}
  /\ UNCHANGED <<host, svc, timer, repeats, probed, verified, events>>

\* rescanInterfaces() finds a change.
RescanInterfaces ==
  /\ Count /\ host.ann /\ Announced # {}
  /\ said' = SaidBy(Announced, svc, host)
  /\ repeats' = repeats \union Copies(Announced)
  /\ UNCHANGED <<host, svc, timer, answers, probed, verified, lost>>

Next ==
  \/ \E r \in repeats : Repeat(r)
  \/ \E hostDue \in BOOLEAN, due \in SUBSET Service : ProbeTick(hostDue, due)
  \/ LoseHostProbe \/ HostConflict
  \/ \E s \in Service : LoseProbe(s) \/ Conflict(s) \/ UpdateTxt(s)
  \/ \E s \in Service, b \in Base : AddService(s, b)
  \/ \E b \in Base : RenameAll(b)
  \/ Shutdown
  \/ HandleQuery
  \/ \E a \in answers : SendAnswer(a)
  \/ RescanInterfaces

Spec == Init /\ [][Next]_vars

\* The timer fires, what is due is due in the end, and what is scheduled is sent.
LiveSpec ==
  /\ Spec
  /\ WF_vars(ProbeTick(TRUE, Service))
  /\ WF_vars(\E r \in repeats : Repeat(r))
  /\ WF_vars(\E a \in answers : SendAnswer(a))

-----------------------------------------------------------------------------
(* Properties.                                                             *)

\* No name is ever announced, repeated or served in an answer before it was probed
\* for three times without contest, whatever is scheduled across renames.
OnlyVerifiedSaid == \A n \in Name : said[n].live => n \in verified

\* A live name is one a service still holds, unless it was lost: contested while
\* being probed for again, renamed or shut down meanwhile, or revived by an answer
\* that waited.  A rename and a shutdown leave no other name behind.
LiveNamesAreHeld ==
  \A n \in Name : said[n].live =>
    n \in lost \/ \E s \in Service : Held(s) /\ NameOf(s) = n

\* A group that has to probe keeps the timer running: none is forgotten.
ProbesAreTimed == (~host.ann \/ Unsaid # {}) => timer

\* When nothing is scheduled any more, the network knows the present TXT and host
\* name of each announced service: answers that waited across an update are healed.
SaidIsCurrent ==
  answers = {} /\ repeats = {} /\ host.ann =>
    \A s \in Announced : said[NameOf(s)] =
      [live |-> TRUE, txt |-> svc[s].txt, host |-> host.suffix]

\* "A service only goes live once its SRV target (our host name) answers"
\* (MdnsResponder.cpp:362).
GoesLiveWithHost == [][\A s \in Service : ~svc[s].ann /\ svc'[s].ann => host'.ann]_vars

\* Once the network leaves the names alone, every service goes live for good.
AllGoLive == <>[](\A s \in Service : Held(s) => svc[s].ann)

-----------------------------------------------------------------------------
(* Statements of the repository that the code does not keep.               *)

\* "Goodbyes for every service, then forget them" (MdnsResponder.cpp:186): after a
\* shutdown no service that was in the list is left live.
GoodbyeForEvery ==
  [][Shutdown => \A s \in Service : Held(s) => ~said'[NameOf(s)].live]_vars

\* "Announces new and changed records and sends goodbyes when stopping"
\* (MdnsResponder.h:17): nothing live is sent after the goodbye.
NothingAfterGoodbye ==
  [][(\A s \in Service : svc[s].is = "gone")
       => \A n \in Name : said'[n].live => said[n].live]_vars
=============================================================================
