----------------------------- MODULE MCMiracast -----------------------------
(* Instances of Miracast for TLC.                                          *)
EXTENDS Miracast, TLC
CONSTANTS a, b, c
MCSymmetry == Permutations(Source)
=============================================================================
