--------------------------- MODULE MCMdnsResponder ---------------------------
(* Instances of MdnsResponder for TLC.                                       *)
EXTENDS MdnsResponder, TLC
CONSTANTS s1, s2, A, B
MCSymmetry == Permutations(Service)
=============================================================================
