---------------------------- MODULE ApprovalGate ----------------------------
(***************************************************************************)
(* What connection approval promises, without threads, tables, semaphores  *)
(* or dialogs: a request is settled once, it is let in only with a cause,  *)
(* and a device is remembered only with the user's consent.  README.md:146 *)
(* is the informal statement.  Approval implements this specification.     *)
(***************************************************************************)
CONSTANTS Request, Device, DeviceOf

VARIABLES
  open,         \* approval is not required
  remembered,   \* devices that need no new consent
  consent,      \* what the user answered to each request
  outcome       \* what became of each request

gateVars == <<open, remembered, consent, outcome>>

Init ==
  /\ open \in BOOLEAN
  /\ remembered \in SUBSET Device
  /\ consent = [r \in Request |-> "none"]
  /\ outcome = [r \in Request |-> "pending"]

Settle(r, o) == outcome[r] = "pending" /\ outcome' = [outcome EXCEPT ![r] = o]

\* The user answers; the request may be settled by the same step, or later.
Consent(r, v) ==
  /\ consent[r] = "none"
  /\ v \in {"allow", "deny"}
  /\ consent' = [consent EXCEPT ![r] = v]
  /\ \/ UNCHANGED outcome
     \/ v = "allow" /\ Settle(r, "admitted")
     \/ v = "deny"  /\ Settle(r, "denied")
  /\ UNCHANGED <<open, remembered>>

Admit(r) ==
  /\ open \/ DeviceOf[r] \in remembered \/ consent[r] = "allow"
  /\ Settle(r, "admitted")
  /\ UNCHANGED <<open, remembered, consent>>

\* Denied by the user, or given up waiting.
Refuse(r) == Settle(r, "denied") /\ UNCHANGED <<open, remembered, consent>>

Remember(r) ==
  /\ consent[r] = "allow"
  /\ DeviceOf[r] \in Device
  /\ remembered' = remembered \union {DeviceOf[r]}
  /\ UNCHANGED <<open, consent, outcome>>

ForgetAll == remembered' = {} /\ UNCHANGED <<open, consent, outcome>>

Switch == open' = ~open /\ UNCHANGED <<remembered, consent, outcome>>

Next ==
  \/ \E r \in Request : \/ \E v \in {"allow", "deny"} : Consent(r, v)
                        \/ Admit(r)
                        \/ Refuse(r)
                        \/ Remember(r)
  \/ ForgetAll
  \/ Switch

Spec == Init /\ [][Next]_gateVars
=============================================================================
