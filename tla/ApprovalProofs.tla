--------------------------- MODULE ApprovalProofs ---------------------------
(***************************************************************************)
(* Proofs about Approval for any number of callers and devices.  The       *)
(* inductive invariant says where a request can be (not yet posted, in the *)
(* event queue, in a table, being resolved, resolved) and what its         *)
(* semaphore and flag hold there; every property follows from it.          *)
(***************************************************************************)
EXTENDS Approval, TLAPS

USE RequestAssumption

\* A request the user has not reached yet.
Untouched(r) == verdict[r] = "none" /\ approved[r] = FALSE /\ semaphore[r] = 0

\* The lambda of a request is queued once, before the request is registered.
PostedOnce ==
  \A i \in 1..Len(posted) :
    /\ Untouched(posted[i])
    /\ posted[i] \notin pendingRequests
    /\ pc[posted[i]] \in {"waiting", "denied"}
    /\ \A j \in 1..Len(posted) : posted[i] = posted[j] => i = j

\* A registered request has not been answered; its caller waits or gave up.
RegisteredUnanswered ==
  \A r \in pendingRequests : Untouched(r) /\ pc[r] \in {"waiting", "denied"}

\* A stored callback has not been answered and its caller waits.
StoredUnanswered ==
  \A r \in asyncCallbacks : verdict[r] = "none" /\ pc[r] = "waiting"

\* Nothing is known of a call that has not passed the fast paths.
FreshUnanswered ==
  /\ \A r \in Sync : pc[r] \in {"idle", "checking"} => Untouched(r)
  /\ \A r \in Async : pc[r] \in {"idle", "checking"} => verdict[r] = "none"

\* The request resolveApproval() is working on, between its writes.
ResolvingInv ==
  qt \in {"trust", "release"} =>
    /\ resolving \in Sync
    /\ verdict[resolving] # "none"
    /\ approved[resolving] = (verdict[resolving] = "allow")
    /\ semaphore[resolving] = 0
    /\ qt = "trust" => verdict[resolving] = "allow" /\ DeviceOf[resolving] \in Device
    /\ qt = "release" /\ approved[resolving] /\ DeviceOf[resolving] # NoDevice
         => DeviceOf[resolving] \in trusted

\* The flag is only ever set by Allow.
FlagInv == \A r \in Sync : approved[r] => verdict[r] = "allow"

\* The dialog that is being closed shows an answered request, or none.
ClosingAnswered == qt # "loop" /\ dialog # NoRequest => verdict[dialog] # "none"

IInv ==
  /\ TypeOK
  /\ PostedOnce
  /\ RegisteredUnanswered
  /\ StoredUnanswered
  /\ FreshUnanswered
  /\ ResolvingInv
  /\ FlagInv
  /\ WokenWithVerdict
  /\ ClosingAnswered
  /\ AdmittedWithCause
  /\ DialogIsAnswerable
-----------------------------------------------------------------------------
(* One lemma per action: each preserves the inductive invariant.           *)

\* The setting is read: nothing else is touched but the caller.
LEMMA KeepCheckRequireApproval ==
  ASSUME NEW r \in Sync, IInv, CheckRequireApproval(r)  PROVE IInv'
<1> USE DEF CheckRequireApproval, Return, IInv, TypeOK, Untouched, Request, settings, tables, shared, history
<1>1. TypeOK'  OBVIOUS
<1>2. PostedOnce'  BY DEF PostedOnce
<1>3. RegisteredUnanswered'  BY DEF RegisteredUnanswered
<1>4. StoredUnanswered'  BY DEF StoredUnanswered
<1>5. FreshUnanswered'  BY DEF FreshUnanswered
<1>6. AdmittedWithCause'  BY DEF AdmittedWithCause
<1>7. ResolvingInv' /\ FlagInv' /\ WokenWithVerdict' /\ ClosingAnswered' /\ DialogIsAnswerable'
  BY DEF ResolvingInv, FlagInv, WokenWithVerdict, ClosingAnswered, DialogIsAnswerable
<1> QED BY <1>1, <1>2, <1>3, <1>4, <1>5, <1>6, <1>7

\* The lambda is posted behind those of other requests: r was not among
\* them, because their callers are past the fast paths.
LEMMA KeepCheckTrustedOrPost ==
  ASSUME NEW r \in Sync, IInv, CheckTrustedOrPost(r)  PROVE IInv'
<1> USE DEF CheckTrustedOrPost, Return, IsTrusted, IInv, TypeOK, Untouched, Request, settings, tables, shared, history
<1>1. TypeOK'
  <2>1. posted' \in Seq(Sync)
    <3>1. CASE posted' = posted  BY <3>1
    <3>2. CASE posted' = Append(posted, r)  BY <3>2
    <3> QED BY <3>1, <3>2
  <2>2. pc' \in [Request -> {"idle", "checking", "waiting", "admitted", "denied"}]
    OBVIOUS
  <2> QED BY <2>1, <2>2
<1>2. PostedOnce'
  <2>1. CASE posted' = posted
    BY <2>1, SMTT(20) DEF PostedOnce
  <2>2. CASE posted' = Append(posted, r) /\ pc' = [pc EXCEPT ![r] = "waiting"]
    <3>1. /\ Len(posted') = Len(posted) + 1
          /\ \A i \in 1..Len(posted) : posted'[i] = posted[i] /\ posted[i] \in Sync
          /\ posted'[Len(posted) + 1] = r
      BY <2>2
    <3>2. Untouched(r) /\ r \notin pendingRequests /\ pc'[r] = "waiting"
      BY <2>2 DEF FreshUnanswered, RegisteredUnanswered
    <3>3. \A i \in 1..Len(posted) : posted[i] # r
      BY DEF PostedOnce
    <3> QED BY <2>2, <3>1, <3>2, <3>3 DEF PostedOnce
  <2> QED BY <2>1, <2>2
<1>3. RegisteredUnanswered'  BY DEF RegisteredUnanswered
<1>4. StoredUnanswered'  BY DEF StoredUnanswered
<1>5. FreshUnanswered'  BY DEF FreshUnanswered
<1>6. AdmittedWithCause'  BY DEF AdmittedWithCause
<1>7. ResolvingInv' /\ FlagInv' /\ WokenWithVerdict' /\ ClosingAnswered' /\ DialogIsAnswerable'
  BY DEF ResolvingInv, FlagInv, WokenWithVerdict, ClosingAnswered, DialogIsAnswerable
<1> QED BY <1>1, <1>2, <1>3, <1>4, <1>5, <1>6, <1>7

\* The caller of r reads the flag: WokenWithVerdict says it is the button.
LEMMA KeepAcquire ==
  ASSUME NEW r \in Sync, IInv, Acquire(r)  PROVE IInv'
<1> USE DEF Acquire, Acquired, Return, IInv, TypeOK, Untouched, Request, settings, tables, shared, history
<1>1. TypeOK'  OBVIOUS
<1>2. PostedOnce'  BY DEF PostedOnce
<1>3. RegisteredUnanswered'  BY DEF RegisteredUnanswered
<1>4. StoredUnanswered'  BY DEF StoredUnanswered
<1>5. FreshUnanswered'  BY DEF FreshUnanswered
<1>6. ResolvingInv'  BY DEF ResolvingInv
<1>7. WokenWithVerdict'  BY DEF WokenWithVerdict
<1>8. AdmittedWithCause'  BY DEF WokenWithVerdict, AdmittedWithCause
<1>9. FlagInv' /\ ClosingAnswered' /\ DialogIsAnswerable'
  BY DEF FlagInv, ClosingAnswered, DialogIsAnswerable
<1> QED BY <1>1, <1>2, <1>3, <1>4, <1>5, <1>6, <1>7, <1>8, <1>9

\* The caller gives up; its lambda, entry and prompt stay as they were.
LEMMA KeepTimeout ==
  ASSUME NEW r \in Sync, IInv, Timeout(r)  PROVE IInv'
<1> USE DEF Timeout, TimedOut, Return, IInv, TypeOK, Untouched, Request, settings, tables, shared, history
<1>1. TypeOK'  OBVIOUS
<1>2. PostedOnce'  BY DEF PostedOnce
<1>3. RegisteredUnanswered'  BY DEF RegisteredUnanswered
<1>4. StoredUnanswered'  BY DEF StoredUnanswered
<1>5. FreshUnanswered'  BY DEF FreshUnanswered
<1>6. AdmittedWithCause'  BY DEF AdmittedWithCause
<1>7. ResolvingInv' /\ FlagInv' /\ WokenWithVerdict' /\ ClosingAnswered' /\ DialogIsAnswerable'
  BY DEF ResolvingInv, FlagInv, WokenWithVerdict, ClosingAnswered, DialogIsAnswerable
<1> QED BY <1>1, <1>2, <1>3, <1>4, <1>5, <1>6, <1>7

\* A callback is stored for a call the user has not seen.
LEMMA KeepCheckConnectionAsync ==
  ASSUME NEW r \in Async, IInv, CheckConnectionAsync(r)  PROVE IInv'
<1> USE DEF CheckConnectionAsync, Return, IsTrusted, IInv, TypeOK, Untouched, Request, settings, tables, shared, history
<1>1. TypeOK'  OBVIOUS
<1>2. PostedOnce'  BY DEF PostedOnce
<1>3. RegisteredUnanswered'  BY DEF RegisteredUnanswered
<1>4. StoredUnanswered'  BY DEF StoredUnanswered, FreshUnanswered
<1>5. FreshUnanswered'  BY DEF FreshUnanswered
<1>6. ClosingAnswered'  BY DEF ClosingAnswered
<1>7. AdmittedWithCause'  BY DEF AdmittedWithCause
<1>8. DialogIsAnswerable'  BY DEF DialogIsAnswerable
<1>9. ResolvingInv' /\ FlagInv' /\ WokenWithVerdict'
  BY DEF ResolvingInv, FlagInv, WokenWithVerdict
<1> QED BY <1>1, <1>2, <1>3, <1>4, <1>5, <1>6, <1>7, <1>8, <1>9

\* The oldest lambda runs: its request moves from the queue to the table.
LEMMA KeepRegisterAndShow ==
  ASSUME IInv, RegisterAndShow  PROVE IInv'
<1> USE DEF RegisterAndShow, IInv, TypeOK, Untouched, Request, settings, tables, shared, history
<1>1. TypeOK'  OBVIOUS
<1>2. PostedOnce'  BY DEF PostedOnce
<1>3. RegisteredUnanswered'  BY DEF PostedOnce, RegisteredUnanswered
<1>4. ClosingAnswered'  BY DEF ClosingAnswered
<1>5. DialogIsAnswerable'  BY DEF DialogIsAnswerable
<1>6. StoredUnanswered' /\ FreshUnanswered' /\ ResolvingInv' /\ FlagInv' /\ WokenWithVerdict' /\ AdmittedWithCause'
  BY DEF StoredUnanswered, FreshUnanswered, ResolvingInv, FlagInv, WokenWithVerdict, AdmittedWithCause
<1> QED BY <1>1, <1>2, <1>3, <1>4, <1>5, <1>6

\* The device is stored between the write of the flag and the release.
LEMMA KeepAddTrustedDevice ==
  ASSUME IInv, AddTrustedDevice  PROVE IInv'
<1> USE DEF AddTrustedDevice, IInv, TypeOK, Untouched, Request, settings, tables, shared, history
<1>1. TypeOK'  BY DEF ResolvingInv
<1>2. ResolvingInv'  BY DEF ResolvingInv
<1>3. ClosingAnswered'  BY DEF ClosingAnswered
<1>4. DialogIsAnswerable'  BY DEF DialogIsAnswerable
<1>5. PostedOnce' /\ RegisteredUnanswered' /\ StoredUnanswered' /\ FreshUnanswered' /\ FlagInv' /\ WokenWithVerdict' /\ AdmittedWithCause'
  BY DEF PostedOnce, RegisteredUnanswered, StoredUnanswered, FreshUnanswered, FlagInv, WokenWithVerdict, AdmittedWithCause
<1> QED BY <1>1, <1>2, <1>3, <1>4, <1>5

\* The semaphore is released once, for a request that left the table.
LEMMA KeepRelease ==
  ASSUME IInv, Release  PROVE IInv'
<1> USE DEF Release, IInv, TypeOK, Untouched, Request, settings, tables, shared, history
<1>1. TypeOK'  BY DEF ResolvingInv
<1>2. PostedOnce'  BY DEF PostedOnce, ResolvingInv
<1>3. RegisteredUnanswered'  BY DEF RegisteredUnanswered, ResolvingInv
<1>4. FreshUnanswered'  BY DEF FreshUnanswered, ResolvingInv
<1>5. ResolvingInv'  BY DEF ResolvingInv
<1>6. WokenWithVerdict'  BY DEF ResolvingInv, WokenWithVerdict
<1>7. ClosingAnswered'  BY DEF ClosingAnswered
<1>8. DialogIsAnswerable'  BY DEF DialogIsAnswerable
<1>9. StoredUnanswered' /\ FlagInv' /\ AdmittedWithCause'
  BY DEF StoredUnanswered, FlagInv, AdmittedWithCause
<1> QED BY <1>1, <1>2, <1>3, <1>4, <1>5, <1>6, <1>7, <1>8, <1>9

\* The dialog is taken down.
LEMMA KeepClearApprovalRequest ==
  ASSUME IInv, ClearApprovalRequest  PROVE IInv'
<1> USE DEF ClearApprovalRequest, IInv, TypeOK, Untouched, Request, settings, tables, shared, history
<1>1. TypeOK'  OBVIOUS
<1>2. ResolvingInv'  BY DEF ResolvingInv
<1>3. ClosingAnswered'  BY DEF ClosingAnswered
<1>4. DialogIsAnswerable'  BY DEF DialogIsAnswerable
<1>5. PostedOnce' /\ RegisteredUnanswered' /\ StoredUnanswered' /\ FreshUnanswered' /\ FlagInv' /\ WokenWithVerdict' /\ AdmittedWithCause'
  BY DEF PostedOnce, RegisteredUnanswered, StoredUnanswered, FreshUnanswered, FlagInv, WokenWithVerdict, AdmittedWithCause
<1> QED BY <1>1, <1>2, <1>3, <1>4, <1>5

\* A sync request is answered: it was registered, so never answered before.
LEMMA KeepResolveSync ==
  ASSUME NEW allow \in BOOLEAN, IInv, ResolveSync(allow)  PROVE IInv'
<1> USE DEF ResolveSync, Resolving, AfterWrite, Answer, IInv, TypeOK, Untouched, Request, settings, tables, shared, history
<1>1. TypeOK'  OBVIOUS
<1>2. PostedOnce'  BY DEF PostedOnce
<1>3. RegisteredUnanswered'  BY DEF RegisteredUnanswered
<1>4. StoredUnanswered'  BY DEF StoredUnanswered
<1>5. FreshUnanswered'  BY DEF RegisteredUnanswered, FreshUnanswered
<1>6. ResolvingInv'  BY DEF RegisteredUnanswered, ResolvingInv
<1>7. FlagInv'  BY DEF FlagInv
<1>8. WokenWithVerdict'  BY DEF WokenWithVerdict
<1>9. ClosingAnswered'  BY DEF ClosingAnswered
<1>10. AdmittedWithCause'  BY DEF RegisteredUnanswered, AdmittedWithCause
<1>11. DialogIsAnswerable'  BY DEF DialogIsAnswerable
<1> QED BY <1>1, <1>2, <1>3, <1>4, <1>5, <1>6, <1>7, <1>8, <1>9, <1>10, <1>11

\* An async request is answered and its callback runs in the same step.
LEMMA KeepResolveAsync ==
  ASSUME NEW allow \in BOOLEAN, IInv, ResolveAsync(allow)  PROVE IInv'
<1> USE DEF ResolveAsync, Return, Answer, IInv, TypeOK, Untouched, Request, settings, tables, shared, history
<1>1. TypeOK'  OBVIOUS
<1>2. PostedOnce'  BY DEF PostedOnce
<1>3. RegisteredUnanswered'  BY DEF RegisteredUnanswered
<1>4. StoredUnanswered'  BY DEF StoredUnanswered
<1>5. FreshUnanswered'  BY DEF FreshUnanswered
<1>6. ResolvingInv'  BY DEF ResolvingInv
<1>7. FlagInv'  BY DEF FlagInv
<1>8. WokenWithVerdict'  BY DEF WokenWithVerdict
<1>9. ClosingAnswered'  BY DEF ClosingAnswered
<1>10. AdmittedWithCause'  BY DEF AdmittedWithCause
<1>11. DialogIsAnswerable'  BY DEF DialogIsAnswerable
<1> QED BY <1>1, <1>2, <1>3, <1>4, <1>5, <1>6, <1>7, <1>8, <1>9, <1>10, <1>11

\* A click that resolves nothing: the dialog shows no request.
LEMMA KeepResolveUnknown ==
  ASSUME IInv, ResolveUnknown  PROVE IInv'
<1> USE DEF ResolveUnknown, IInv, TypeOK, Untouched, Request, settings, tables, shared, history
<1>1. TypeOK'  OBVIOUS
<1>2. ResolvingInv'  BY DEF ResolvingInv
<1>3. ClosingAnswered'  BY DEF ClosingAnswered, DialogIsAnswerable
<1>4. DialogIsAnswerable'  BY DEF DialogIsAnswerable
<1>5. PostedOnce' /\ RegisteredUnanswered' /\ StoredUnanswered' /\ FreshUnanswered' /\ FlagInv' /\ WokenWithVerdict' /\ AdmittedWithCause'
  BY DEF PostedOnce, RegisteredUnanswered, StoredUnanswered, FreshUnanswered, FlagInv, WokenWithVerdict, AdmittedWithCause
<1> QED BY <1>1, <1>2, <1>3, <1>4, <1>5

\* The setting is changed between two events.
LEMMA KeepSetRequireApproval ==
  ASSUME NEW v \in BOOLEAN, IInv, SetRequireApproval(v)  PROVE IInv'
<1> USE DEF SetRequireApproval, IInv, TypeOK, Untouched, Request, settings, tables, shared, history
<1>1. TypeOK'  OBVIOUS
<1>2. PostedOnce' /\ RegisteredUnanswered' /\ StoredUnanswered' /\ FreshUnanswered' /\ ResolvingInv' /\ FlagInv' /\ WokenWithVerdict' /\ ClosingAnswered' /\ AdmittedWithCause' /\ DialogIsAnswerable'
  BY DEF PostedOnce, RegisteredUnanswered, StoredUnanswered, FreshUnanswered, ResolvingInv, FlagInv, WokenWithVerdict, ClosingAnswered, AdmittedWithCause, DialogIsAnswerable
<1> QED BY <1>1, <1>2

\* The list is cleared between two events, never inside resolveApproval().
LEMMA KeepClearTrustedDevices ==
  ASSUME IInv, ClearTrustedDevices  PROVE IInv'
<1> USE DEF ClearTrustedDevices, IInv, TypeOK, Untouched, Request, settings, tables, shared, history
<1>1. TypeOK'  OBVIOUS
<1>2. ResolvingInv'  BY DEF ResolvingInv
<1>3. PostedOnce' /\ RegisteredUnanswered' /\ StoredUnanswered' /\ FreshUnanswered' /\ FlagInv' /\ WokenWithVerdict' /\ ClosingAnswered' /\ AdmittedWithCause' /\ DialogIsAnswerable'
  BY DEF PostedOnce, RegisteredUnanswered, StoredUnanswered, FreshUnanswered, FlagInv, WokenWithVerdict, ClosingAnswered, AdmittedWithCause, DialogIsAnswerable
<1> QED BY <1>1, <1>2, <1>3

-----------------------------------------------------------------------------
\* Nobody calls and nothing is trusted: the invariant holds.
LEMMA InitEstablishesIInv == Init => IInv
<1> SUFFICES ASSUME Init PROVE IInv
  OBVIOUS
<1> USE DEF Init, Request, Untouched
<1>1. TypeOK  BY DEF TypeOK
<1>2. PostedOnce /\ RegisteredUnanswered /\ StoredUnanswered /\ FreshUnanswered
  BY DEF PostedOnce, RegisteredUnanswered, StoredUnanswered, FreshUnanswered
<1>3. ResolvingInv /\ FlagInv /\ ClosingAnswered
  BY DEF ResolvingInv, FlagInv, ClosingAnswered
<1>4. WokenWithVerdict /\ AdmittedWithCause /\ DialogIsAnswerable
  BY DEF WokenWithVerdict, AdmittedWithCause, DialogIsAnswerable
<1> QED BY <1>1, <1>2, <1>3, <1>4 DEF IInv

\* Every step keeps the invariant: one lemma for each action.
LEMMA StepPreservesIInv == IInv /\ [Next]_vars => IInv'
<1> SUFFICES ASSUME IInv, [Next]_vars PROVE IInv'
  OBVIOUS
<1>1. ASSUME NEW r \in Sync, Caller(r) PROVE IInv'
  BY <1>1, KeepCheckRequireApproval, KeepCheckTrustedOrPost, KeepAcquire, KeepTimeout
  DEF Caller
<1>2. ASSUME NEW r \in Async, CheckConnectionAsync(r) PROVE IInv'
  BY <1>2, KeepCheckConnectionAsync
<1>3. CASE RegisterAndShow
  BY <1>3, KeepRegisterAndShow
<1>4. CASE QtStep
  BY <1>4, KeepAddTrustedDevice, KeepRelease, KeepClearApprovalRequest DEF QtStep
<1>5. CASE User
  BY <1>5, KeepResolveSync, KeepResolveAsync, KeepResolveUnknown,
     KeepSetRequireApproval, KeepClearTrustedDevices DEF User
<1>6. CASE UNCHANGED vars
  BY <1>6 DEF vars, IInv, TypeOK, Untouched, PostedOnce, RegisteredUnanswered,
     StoredUnanswered, FreshUnanswered, ResolvingInv, FlagInv, WokenWithVerdict,
     ClosingAnswered, AdmittedWithCause, DialogIsAnswerable
<1> QED BY <1>1, <1>2, <1>3, <1>4, <1>5, <1>6 DEF Next

\* The inductive invariant holds in every reachable state, for every finite or
\* infinite set of callers and every assignment of devices to them.
THEOREM Invariance == Spec => []IInv
BY InitEstablishesIInv, StepPreservesIInv, PTL DEF Spec

\* Type correctness.
THEOREM TypeCorrect == Spec => []TypeOK
<1>1. IInv => TypeOK  BY DEF IInv
<1> QED BY <1>1, Invariance, PTL

\* Nobody is let in without a cause: checkConnection() and its async variant
\* return true only by the settings or by the user's Allow on that request.
THEOREM NoEntryWithoutCause == Spec => []AdmittedWithCause
<1>1. IInv => AdmittedWithCause  BY DEF IInv
<1> QED BY <1>1, Invariance, PTL

\* The unlocked hand-over of req->approved through the semaphore is safe.
THEOREM HandOverIsSafe == Spec => []WokenWithVerdict
<1>1. IInv => WokenWithVerdict  BY DEF IInv
<1> QED BY <1>1, Invariance, PTL

\* A click on the dialog always finds its request.
THEOREM ClicksAreNotLost == Spec => []DialogIsAnswerable
<1>1. IInv => DialogIsAnswerable  BY DEF IInv
<1> QED BY <1>1, Invariance, PTL

-----------------------------------------------------------------------------
(* Action properties.                                                      *)

\* A device enters the trusted list only with the user's Allow for it.
THEOREM TrustIsConsented == Spec => TrustedByUser
<1>1. ASSUME IInv, [Next]_vars, NEW d \in trusted' \ trusted
      PROVE  \E r \in Sync : DeviceOf[r] = d /\ verdict[r] = "allow"
  <2>1. CASE AddTrustedDevice
    BY <1>1, <2>1 DEF AddTrustedDevice, IInv, ResolvingInv
  <2>2. CASE ~AddTrustedDevice
    <3>1. trusted' \subseteq trusted
      BY <1>1, <2>2 DEF Next, Caller, QtStep, User, vars, settings,
         CheckRequireApproval, CheckTrustedOrPost, Acquire, Acquired, Timeout, TimedOut,
         CheckConnectionAsync, RegisterAndShow, Release, ClearApprovalRequest,
         ResolveSync, Resolving, ResolveAsync, ResolveUnknown, SetRequireApproval,
         ClearTrustedDevices
    <3> QED BY <3>1, <1>1
  <2> QED BY <2>1, <2>2
<1>2. IInv /\ [Next]_vars => TrustedByUserStep
  BY <1>1 DEF TrustedByUserStep
<1> QED BY <1>2, Invariance, PTL DEF TrustedByUser, Spec

\* When an allowed caller is woken its device is already trusted.
THEOREM WokenAfterRemembered == Spec => RememberedBeforeWoken
<1>1. ASSUME IInv, [Next]_vars, NEW r \in Sync, semaphore'[r] > semaphore[r],
             approved[r], DeviceOf[r] # NoDevice
      PROVE  DeviceOf[r] \in trusted'
  <2>1. CASE Release
    BY <1>1, <2>1 DEF Release, settings, IInv, TypeOK, ResolvingInv
  <2>2. CASE ~Release
    <3>1. semaphore' = semaphore \/ \E s \in Sync : Acquire(s)
      BY <1>1, <2>2 DEF Next, Caller, QtStep, User, vars, shared,
         CheckRequireApproval, CheckTrustedOrPost, Timeout, TimedOut,
         CheckConnectionAsync, RegisterAndShow, AddTrustedDevice, ClearApprovalRequest,
         ResolveSync, Resolving, ResolveAsync, ResolveUnknown, SetRequireApproval,
         ClearTrustedDevices
    <3>2. semaphore'[r] = semaphore[r] \/ semaphore'[r] = semaphore[r] - 1
      BY <3>1, <1>1 DEF Acquire, Acquired, IInv, TypeOK
    <3>3. semaphore[r] \in {0, 1}
      BY <1>1 DEF IInv, TypeOK
    <3> QED BY <3>2, <3>3, <1>1
  <2> QED BY <2>1, <2>2
<1>2. IInv /\ [Next]_vars => RememberedBeforeWokenStep
  BY <1>1 DEF RememberedBeforeWokenStep
<1> QED BY <1>2, Invariance, PTL DEF RememberedBeforeWoken, Spec

\* A prompt is taken down only after its request was answered.
THEOREM PromptsAreNotWiped == Spec => PromptOnlyReplacedOrAnswered
<1>1. ASSUME IInv, [Next]_vars, dialog # NoRequest, dialog' = NoRequest
      PROVE  verdict[dialog] # "none"
  <2>1. CASE ClearApprovalRequest
    BY <1>1, <2>1 DEF ClearApprovalRequest, IInv, ClosingAnswered
  <2>2. CASE RegisterAndShow
    BY <1>1, <2>2 DEF RegisterAndShow, IInv, TypeOK, Request
  <2>3. CASE \E r \in Async : CheckConnectionAsync(r)
    BY <1>1, <2>3 DEF CheckConnectionAsync, Request
  <2>4. ASSUME ~ClearApprovalRequest, ~RegisterAndShow,
               ~ \E r \in Async : CheckConnectionAsync(r)
        PROVE  dialog' = dialog
    BY <1>1, <2>4 DEF Next, Caller, QtStep, User, vars,
       CheckRequireApproval, CheckTrustedOrPost, Acquire, Acquired, Timeout, TimedOut,
       AddTrustedDevice, Release, ResolveSync, Resolving, ResolveAsync,
       ResolveUnknown, SetRequireApproval, ClearTrustedDevices
  <2> QED BY <1>1, <2>1, <2>2, <2>3, <2>4
<1>2. IInv /\ [Next]_vars => PromptStep
  BY <1>1 DEF PromptStep
<1> QED BY <1>2, Invariance, PTL DEF PromptOnlyReplacedOrAnswered, Spec

-----------------------------------------------------------------------------
(* Approval implements ApprovalGate.                                       *)

\* No caller is decided at first, as the gate wants it.
LEMMA InitRefines == Init => Gate!Init
<1> SUFFICES ASSUME Init PROVE Gate!Init
  OBVIOUS
<1> QED BY DEF Init, Gate!Init, Outcome, Request

\* The state of the gate is a function of these four variables.
LEMMA GateStutters ==
  ASSUME UNCHANGED <<requireApproval, trusted, verdict, Outcome>>
  PROVE  UNCHANGED Gate!gateVars
BY DEF Gate!gateVars

\* A step that decides one caller that was open decides that caller of the gate.
LEMMA SettleRefines ==
  ASSUME IInv, NEW r \in Request, NEW o \in {"admitted", "denied"},
         pc[r] \notin {"admitted", "denied"}, pc' = [pc EXCEPT ![r] = o]
  PROVE  Gate!Settle(r, o)
<1>1. \A q \in Request : pc'[q] = IF q = r THEN o ELSE pc[q]
  BY DEF IInv, TypeOK
<1>2. Outcome' = [Outcome EXCEPT ![r] = o]
  BY <1>1 DEF Outcome
<1> QED BY <1>2 DEF Gate!Settle, Outcome

\* A step of an undecided caller that leaves it undecided does not show in the gate.
LEMMA UndecidedStutters ==
  ASSUME IInv, NEW r \in Request, NEW o \in {"checking", "waiting"},
         pc[r] \notin {"admitted", "denied"}, pc' = [pc EXCEPT ![r] = o]
  PROVE  UNCHANGED Outcome
<1>1. \A q \in Request : pc'[q] = IF q = r THEN o ELSE pc[q]
  BY DEF IInv, TypeOK
<1> QED BY <1>1 DEF Outcome

\* Every step of the design is a step of the gate or a stutter.
LEMMA StepRefines == IInv /\ [Next]_vars => [Gate!Next]_(Gate!gateVars)
<1> SUFFICES ASSUME IInv, [Next]_vars PROVE [Gate!Next]_(Gate!gateVars)
  OBVIOUS
<1> USE DEF settings, history, Request
<1>1. ASSUME NEW r \in Sync, CheckRequireApproval(r) PROVE [Gate!Next]_(Gate!gateVars)
  <2>1. CASE requireApproval
    BY <1>1, <2>1, UndecidedStutters, GateStutters DEF CheckRequireApproval
  <2>2. CASE ~requireApproval
    <3>1. Gate!Admit(r)
      BY <1>1, <2>2, SettleRefines DEF CheckRequireApproval, Return, Gate!Admit
    <3> QED BY <3>1 DEF Gate!Next
  <2> QED BY <2>1, <2>2
<1>2. ASSUME NEW r \in Sync, CheckTrustedOrPost(r) PROVE [Gate!Next]_(Gate!gateVars)
  <2>1. CASE IsTrusted(r)
    <3>1. Gate!Admit(r)
      BY <1>2, <2>1, SettleRefines DEF CheckTrustedOrPost, IsTrusted, Return, Gate!Admit
    <3> QED BY <3>1 DEF Gate!Next
  <2>2. CASE ~IsTrusted(r)
    BY <1>2, <2>2, UndecidedStutters, GateStutters DEF CheckTrustedOrPost
  <2> QED BY <2>1, <2>2
<1>3. ASSUME NEW r \in Sync, Acquire(r) PROVE [Gate!Next]_(Gate!gateVars)
  <2>1. approved[r] \in BOOLEAN /\ (approved[r] => verdict[r] = "allow")
    BY DEF IInv, TypeOK, FlagInv
  <2>2. CASE approved[r]
    <3>1. Gate!Admit(r)
      BY <1>3, <2>1, <2>2, SettleRefines DEF Acquire, Acquired, Return, Gate!Admit
    <3> QED BY <3>1 DEF Gate!Next
  <2>3. CASE ~approved[r]
    <3>1. Gate!Refuse(r)
      BY <1>3, <2>3, SettleRefines DEF Acquire, Acquired, Return, Gate!Refuse
    <3> QED BY <3>1 DEF Gate!Next
  <2> QED BY <2>1, <2>2, <2>3
<1>4. ASSUME NEW r \in Sync, Timeout(r) PROVE [Gate!Next]_(Gate!gateVars)
  <2>1. Gate!Refuse(r)
    BY <1>4, SettleRefines DEF Timeout, TimedOut, Return, Gate!Refuse
  <2> QED BY <2>1 DEF Gate!Next
<1>5. ASSUME NEW r \in Async, CheckConnectionAsync(r) PROVE [Gate!Next]_(Gate!gateVars)
  <2>1. CASE ~requireApproval \/ IsTrusted(r)
    <3>1. Gate!Admit(r)
      BY <1>5, <2>1, SettleRefines
      DEF CheckConnectionAsync, IsTrusted, Return, Gate!Admit
    <3> QED BY <3>1 DEF Gate!Next
  <2>2. CASE requireApproval /\ ~IsTrusted(r)
    BY <1>5, <2>2, UndecidedStutters, GateStutters DEF CheckConnectionAsync
  <2> QED BY <2>1, <2>2
<1>6. CASE RegisterAndShow
  BY <1>6, GateStutters DEF RegisterAndShow, Outcome
<1>7. CASE AddTrustedDevice
  <2>1. resolving \in Request /\ Gate!Remember(resolving)
    BY <1>7 DEF AddTrustedDevice, Gate!Remember, IInv, ResolvingInv, Outcome
  <2> QED BY <2>1 DEF Gate!Next
<1>8. CASE Release \/ ClearApprovalRequest \/ ResolveUnknown
  BY <1>8, GateStutters DEF Release, ClearApprovalRequest, ResolveUnknown, Outcome
<1>9. ASSUME NEW allow \in BOOLEAN, ResolveSync(allow) PROVE [Gate!Next]_(Gate!gateVars)
  <2>1. dialog \in Request /\ verdict[dialog] = "none" /\ Answer(allow) \in {"allow", "deny"}
    BY <1>9 DEF ResolveSync, Resolving, Answer, IInv, TypeOK, RegisteredUnanswered, Untouched
  <2>2. Gate!Consent(dialog, Answer(allow))
    BY <1>9, <2>1 DEF ResolveSync, Resolving, Gate!Consent, Outcome
  <2> QED BY <2>1, <2>2 DEF Gate!Next
<1>10. ASSUME NEW allow \in BOOLEAN, ResolveAsync(allow) PROVE [Gate!Next]_(Gate!gateVars)
  <2>1. /\ dialog \in Request /\ verdict[dialog] = "none" /\ pc[dialog] = "waiting"
        /\ Answer(allow) \in {"allow", "deny"}
    BY <1>10 DEF ResolveAsync, Answer, IInv, TypeOK, StoredUnanswered
  <2>2. Gate!Consent(dialog, Answer(allow))
    <3>1. CASE allow
      BY <1>10, <2>1, <3>1, SettleRefines DEF ResolveAsync, Return, Answer, Gate!Consent
    <3>2. CASE ~allow
      BY <1>10, <2>1, <3>2, SettleRefines DEF ResolveAsync, Return, Answer, Gate!Consent
    <3> QED BY <3>1, <3>2
  <2> QED BY <2>1, <2>2 DEF Gate!Next
<1>11. ASSUME NEW v \in BOOLEAN, SetRequireApproval(v) PROVE [Gate!Next]_(Gate!gateVars)
  <2>1. Gate!Switch
    BY <1>11 DEF SetRequireApproval, Gate!Switch, Outcome, IInv, TypeOK
  <2> QED BY <2>1 DEF Gate!Next
<1>12. CASE ClearTrustedDevices
  <2>1. Gate!ForgetAll
    BY <1>12 DEF ClearTrustedDevices, Gate!ForgetAll, Outcome
  <2> QED BY <2>1 DEF Gate!Next
<1>13. CASE UNCHANGED vars
  BY <1>13, GateStutters DEF vars, Outcome
<1> QED
  BY <1>1, <1>2, <1>3, <1>4, <1>5, <1>6, <1>7, <1>8, <1>9, <1>10, <1>11, <1>12, <1>13
  DEF Next, Caller, QtStep, User

\* Every behaviour of the threads, the Qt event loop and the dialog is a
\* behaviour of the approval gate.
THEOREM Refinement == Spec => ImplementsGate
BY InitRefines, StepRefines, Invariance, PTL DEF Spec, ImplementsGate, Gate!Spec

-----------------------------------------------------------------------------
(* The safety half of WaitersReturn for callers whose prompt was answered. *)

\* An answered caller that still waits has been woken, or is about to be.
AnswerArrives ==
  \A r \in Request :
    verdict[r] # "none" /\ pc[r] = "waiting" =>
      /\ r \in Sync
      /\ semaphore[r] = 1 \/ (qt \in {"trust", "release"} /\ resolving = r)

\* Protocol threads.
LEMMA CallerKeepsAnswers ==
  ASSUME IInv, AnswerArrives, NEW r \in Sync, Caller(r) PROVE AnswerArrives'
<1> USE DEF IInv, TypeOK, AnswerArrives, Request, Return, settings, tables, shared, history
<1>1. CASE CheckRequireApproval(r) \/ CheckTrustedOrPost(r)
  BY <1>1 DEF CheckRequireApproval, CheckTrustedOrPost, FreshUnanswered, Untouched
<1>2. CASE Acquire(r) \/ Timeout(r)
  BY <1>2 DEF Acquire, Acquired, Timeout, TimedOut
<1> QED BY <1>1, <1>2 DEF Caller

\* The Qt thread.
LEMMA QtKeepsAnswers ==
  ASSUME IInv, AnswerArrives,
         RegisterAndShow \/ QtStep \/ User \/ \E r \in Async : CheckConnectionAsync(r)
  PROVE  AnswerArrives'
<1> USE DEF IInv, TypeOK, AnswerArrives, Request, Return, settings, tables, shared, history
<1>1. CASE RegisterAndShow
  BY <1>1 DEF RegisterAndShow
<1>2. CASE AddTrustedDevice \/ ClearApprovalRequest
  BY <1>2 DEF AddTrustedDevice, ClearApprovalRequest
<1>3. CASE Release
  BY <1>3 DEF Release, ResolvingInv
<1>4. ASSUME NEW allow \in BOOLEAN, ResolveSync(allow) PROVE AnswerArrives'
  BY <1>4 DEF ResolveSync, Resolving, AfterWrite
<1>5. ASSUME NEW allow \in BOOLEAN, ResolveAsync(allow) PROVE AnswerArrives'
  BY <1>5 DEF ResolveAsync
<1>6. CASE ResolveUnknown \/ ClearTrustedDevices \/ \E v \in BOOLEAN : SetRequireApproval(v)
  BY <1>6 DEF ResolveUnknown, ClearTrustedDevices, SetRequireApproval
<1>7. ASSUME NEW r \in Async, CheckConnectionAsync(r) PROVE AnswerArrives'
  BY <1>7 DEF CheckConnectionAsync, FreshUnanswered
<1> QED BY <1>1, <1>2, <1>3, <1>4, <1>5, <1>6, <1>7 DEF QtStep, User

\* Whatever else the Qt thread does between the click and the release, and
\* whichever callers time out meanwhile: a caller whose prompt was answered and
\* that still waits in tryAcquire() is woken, by the release that has happened or
\* by the resolveApproval() the Qt thread is in; an asynchronous one never waits
\* after its answer.
THEOREM AnswersArrive == Spec => []AnswerArrives
<1>1. Init => AnswerArrives
  BY DEF Init, AnswerArrives
<1>2. IInv /\ AnswerArrives /\ [Next]_vars => AnswerArrives'
  <2> SUFFICES ASSUME IInv, AnswerArrives, [Next]_vars PROVE AnswerArrives'
    OBVIOUS
  <2>1. CASE UNCHANGED vars
    BY <2>1 DEF vars, AnswerArrives
  <2> QED BY <2>1, CallerKeepsAnswers, QtKeepsAnswers DEF Next
<1> QED BY <1>1, <1>2, Invariance, PTL DEF Spec
=============================================================================
