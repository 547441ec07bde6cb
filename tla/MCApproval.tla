----------------------------- MODULE MCApproval -----------------------------
(* Instances of Approval for TLC.                                          *)
EXTENDS Approval
CONSTANTS s1, s2, s3, a1, d1, d2

\* Two protocol threads and a Cast session of one device, and a thread whose
\* sender gave no identifier.
MCDeviceOf == [r \in Request |-> IF r = s3 THEN NoDevice ELSE d1]

=============================================================================
