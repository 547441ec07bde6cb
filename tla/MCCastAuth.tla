------------------------------ MODULE MCCastAuth ------------------------------
(* Instance of CastAuth for TLC: times at both ends of the table and around  *)
(* its first window boundaries stand for all times.                          *)
EXTENDS CastAuth
MCNat == {kCastAuthStartEpoch - 1, kCastAuthEndEpoch - 1, kCastAuthEndEpoch}
           \union {WindowStart(w) + d : w \in 0 .. 1, d \in {0, kCastAuthWindowSeconds - 1}}
=============================================================================
