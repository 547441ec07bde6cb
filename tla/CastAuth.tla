------------------------------- MODULE CastAuth -------------------------------
(***************************************************************************)
(* Device authentication of Cast.  A sender accepts the receiver only if   *)
(* the signature it gets for a challenge is the one of the TLS certificate *)
(* of its connection.  The signatures are a table made in advance, one for *)
(* each window of two days, and a certificate is valid for one window.     *)
(* The clock runs, and may be set, between any two steps: CastHandler      *)
(* replaces its certificate before a handshake, a CastSession answers a    *)
(* challenge much later.  All of it runs on the Qt thread.                 *)
(*                                                                         *)
(* QSslServer is external: it gives a connection the configuration that    *)
(* the server has when it comes in.  A signature is its index in the       *)
(* table; a certificate is its notBefore, the rest of it is fixed or       *)
(* follows from that.                                                      *)
(***************************************************************************)
EXTENDS Integers

CONSTANTS Connection  \* TLS connections, each used once

VARIABLES
  clock,              \* currentSecsSinceEpoch()
  server,             \* m_server: not started, listens, deleted
  certWindowIndex,    \* m_certWindowIndex
  certificate,        \* the server's certificate, or None
  peer,               \* the certificate each connection was handshaked with
  answer              \* the signature each connection was answered, or None

vars == <<clock, server, certWindowIndex, certificate, peer, answer>>

kCastAuthSignatureCount == 795
kCastAuthStartEpoch     == 1692057600
kCastAuthWindowSeconds  == 172800
kCastAuthEndEpoch == kCastAuthStartEpoch + kCastAuthSignatureCount * kCastAuthWindowSeconds

None   == -1
Window == 0 .. kCastAuthSignatureCount - 1

WindowIndex(t) ==
  IF t < kCastAuthStartEpoch \/ t >= kCastAuthEndEpoch THEN None
  ELSE (t - kCastAuthStartEpoch) \div kCastAuthWindowSeconds

WindowStart(w) == kCastAuthStartEpoch + w * kCastAuthWindowSeconds

\* Key, serial number and names are the ones the signatures were made for; only
\* the validity, from the start of the window to that of the next, depends on w.
GenerateSelfSignedCert(w) == WindowStart(w)

Certificate == {GenerateSelfSignedCert(w) : w \in Window}

TypeOK ==
  /\ clock \in Nat
  /\ server \in {"new", "up", "down"}
  /\ certWindowIndex \in Window \union {None}
  /\ certificate \in Certificate \union {None}
  /\ peer \in [Connection -> Certificate \union {None}]
  /\ answer \in [Connection -> Window \union {None}]

Init ==
  /\ clock \in Nat
  /\ server = "new"
  /\ certWindowIndex = None /\ certificate = None
  /\ peer = [c \in Connection |-> None]
  /\ answer = [c \in Connection |-> None]

Tick == clock' \in Nat /\ UNCHANGED <<server, certWindowIndex, certificate, peer, answer>>

\* refreshCertificate(): of no use, not needed, failed or done.
Refresh ==
  \/ /\ WindowIndex(clock) \notin {None, certWindowIndex}
     /\ certificate' = GenerateSelfSignedCert(WindowIndex(clock))
     /\ certWindowIndex' = WindowIndex(clock)
  \/ UNCHANGED <<certificate, certWindowIndex>>

\* start(), called once: it fails without a certificate for the present window,
\* or when the port is taken; then the new server is deleted, but not the index.
Start ==
  /\ server = "new"
  /\ \/ /\ WindowIndex(clock) # None
        /\ Refresh /\ certWindowIndex' = WindowIndex(clock)
        /\ server' = "up"
     \/ /\ server' = "down"
        /\ certWindowIndex' \in {certWindowIndex, WindowIndex(clock)}
        /\ UNCHANGED certificate
  /\ UNCHANGED <<clock, peer, answer>>

\* stop(): the server is deleted, its sessions are destroyed.
Stop ==
  /\ server = "up" /\ server' = "down"
  /\ certificate' = None /\ certWindowIndex' = None
  /\ peer' = [c \in Connection |-> None]
  /\ UNCHANGED <<clock, answer>>

\* incomingConnection(): the hook's result is not looked at.
IncomingConnection(c) ==
  /\ server = "up" /\ peer[c] = None /\ answer[c] = None
  /\ Refresh
  /\ peer' = [peer EXCEPT ![c] = certificate']
  /\ UNCHANGED <<clock, server, answer>>

\* getSignatureForTime() of the notBefore of the connection's certificate.
GetSignature(c) ==
  WindowIndex(IF peer[c] = None THEN clock ELSE peer[c])

OnDeviceAuth(c) ==
  /\ peer[c] # None
  /\ answer' = [answer EXCEPT ![c] = GetSignature(c)]
  /\ UNCHANGED <<clock, server, certWindowIndex, certificate, peer>>

Next ==
  \/ Tick \/ Start \/ Stop
  \/ \E c \in Connection : IncomingConnection(c) \/ OnDeviceAuth(c)

Spec == Init /\ [][Next]_vars

-----------------------------------------------------------------------------
(* Properties.                                                             *)

\* Whatever the clock does between the start, a handshake and a challenge, and
\* whether or not a certificate could be made: a connection that is up has one,
\* and its challenges are answered with the signature of that certificate
\* ("must match the TLS certificate this socket was handshaked with",
\* CastSession.cpp:235).
SignatureIsOfCertificate ==
  \A c \in Connection : peer[c] # None =>
    /\ GetSignature(c) \in Window /\ peer[c] = GenerateSelfSignedCert(GetSignature(c))
    /\ answer[c] \in {None, GetSignature(c)}

\* While it listens the server has a certificate of the table, the one of the
\* window it recorded, also when the table has run out since.
ListensWithCertificate ==
  server = "up" =>
    certWindowIndex \in Window /\ certificate = GenerateSelfSignedCert(certWindowIndex)
=============================================================================
