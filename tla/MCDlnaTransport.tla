-------------------------- MODULE MCDlnaTransport --------------------------
(* Instances of DlnaTransport for TLC.                                     *)
EXTENDS DlnaTransport, TLC
CONSTANTS w1, w2, w3, u1, u2
MCSymmetry == Permutations(Worker) \union Permutations(Uri)
=============================================================================
