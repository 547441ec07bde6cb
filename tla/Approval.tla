------------------------------ MODULE Approval ------------------------------
(***************************************************************************)
(* Connection approval: SecurityManager, the approval slot of              *)
(* ConnectionBridge, the Allow/Deny dialog (ApprovalDialog.qml) and the    *)
(* security settings of AppSettings / SettingsBridge.                      *)
(*                                                                         *)
(* A request is one call of checkConnection() (set Sync: a UxPlay or       *)
(* libupnp thread, which blocks) or of checkConnectionAsync() (set Async:  *)
(* Cast and Miracast, on the Qt thread).  The request stands for the fresh *)
(* UUID the call draws, so each one runs at most once.                     *)
(*                                                                         *)
(* The Qt thread runs one event at a time; what it does inside             *)
(* resolveApproval() is split at every write another thread can see, and   *)
(* the protocol threads take their own steps in between.                   *)
(***************************************************************************)
EXTENDS Naturals, Sequences

CONSTANTS
  Sync,         \* calls of checkConnection()
  Async,        \* calls of checkConnectionAsync()
  Device,       \* non-empty device identifiers
  NoDevice,     \* the empty identifier (a sender that gave none)
  DeviceOf,     \* the identifier each call passes
  NoRequest     \* the empty pendingRequestId

Request == Sync \union Async

ASSUME RequestAssumption ==
  /\ Sync \intersect Async = {}
  /\ NoRequest \notin Request
  /\ NoDevice \notin Device
  /\ DeviceOf \in [Request -> Device \union {NoDevice}]

VARIABLES
  requireApproval,   \* AppSettings: security/requireApproval
  trusted,           \* AppSettings: security/trustedDevices
  pendingRequests,   \* SecurityManager::m_pendingRequests
  asyncCallbacks,    \* SecurityManager::m_asyncCallbacks
  approved,          \* ApprovalRequest::approved
  semaphore,         \* ApprovalRequest::semaphore
  posted,            \* lambdas queued on the Qt thread, oldest first
  dialog,            \* ConnectionBridge::m_pendingRequestId
  qt,                \* where the Qt thread is
  resolving,         \* the request resolveApproval() is working on
  pc,                \* where each caller is
  grounds,           \* history: how the call was decided without the user
  verdict            \* history: which button answered the request

settings == <<requireApproval, trusted>>
tables   == <<pendingRequests, asyncCallbacks>>
shared   == <<approved, semaphore>>
history  == <<grounds, verdict>>
vars == <<requireApproval, trusted, pendingRequests, asyncCallbacks, approved,
          semaphore, posted, dialog, qt, resolving, pc, grounds, verdict>>

TypeOK ==
  /\ requireApproval \in BOOLEAN
  /\ trusted \in SUBSET Device
  /\ pendingRequests \in SUBSET Sync
  /\ asyncCallbacks \in SUBSET Async
  /\ approved \in [Sync -> BOOLEAN]
  /\ semaphore \in [Sync -> {0, 1}]
  /\ posted \in Seq(Sync)
  /\ dialog \in Request \union {NoRequest}
  /\ qt \in {"loop", "trust", "release", "clear"}
  /\ resolving \in Request \union {NoRequest}
  /\ pc \in [Request -> {"idle", "checking", "waiting", "admitted", "denied"}]
  /\ grounds \in [Request -> {"none", "disabled", "trusted"}]
  /\ verdict \in [Request -> {"none", "allow", "deny"}]

(***************************************************************************)
(* The settings survive restarts, so a run starts from any of them.        *)
(***************************************************************************)
Init ==
  /\ requireApproval \in BOOLEAN
  /\ trusted \in SUBSET Device
  /\ pendingRequests = {}
  /\ asyncCallbacks = {}
  /\ approved = [r \in Sync |-> FALSE]
  /\ semaphore = [r \in Sync |-> 0]
  /\ posted = <<>>
  /\ dialog = NoRequest
  /\ qt = "loop"
  /\ resolving = NoRequest
  /\ pc = [r \in Request |-> "idle"]
  /\ grounds = [r \in Request |-> "none"]
  /\ verdict = [r \in Request |-> "none"]

\* The call of r returns (or its callback runs) with this result.
Return(r, result) == pc' = [pc EXCEPT ![r] = IF result THEN "admitted" ELSE "denied"]

\* isTrusted(): the empty identifier never is.
IsTrusted(r) == DeviceOf[r] # NoDevice /\ DeviceOf[r] \in trusted

-----------------------------------------------------------------------------
(* Protocol threads: checkConnection().                                    *)

\* Fast path 1 reads the setting; the thread may be preempted before path 2.
CheckRequireApproval(r) ==
  /\ pc[r] = "idle"
  /\ IF requireApproval
     THEN pc' = [pc EXCEPT ![r] = "checking"] /\ UNCHANGED grounds
     ELSE Return(r, TRUE) /\ grounds' = [grounds EXCEPT ![r] = "disabled"]
  /\ UNCHANGED <<settings, tables, shared, posted, dialog, qt, resolving, verdict>>

\* Fast path 2, else post the lambda to the Qt thread and block on the semaphore.
CheckTrustedOrPost(r) ==
  /\ pc[r] = "checking"
  /\ \/ /\ IsTrusted(r)
        /\ Return(r, TRUE)
        /\ grounds' = [grounds EXCEPT ![r] = "trusted"]
        /\ UNCHANGED posted
     \/ /\ ~IsTrusted(r)
        /\ pc' = [pc EXCEPT ![r] = "waiting"]
        /\ posted' = Append(posted, r)
        /\ UNCHANGED grounds
  /\ UNCHANGED <<settings, tables, shared, dialog, qt, resolving, verdict>>

\* tryAcquire() succeeds.
Acquired(r, result) ==
  /\ pc[r] = "waiting"
  /\ semaphore[r] > 0
  /\ semaphore' = [semaphore EXCEPT ![r] = @ - 1]
  /\ Return(r, result)
  /\ UNCHANGED <<settings, tables, approved, posted, dialog, qt, resolving, history>>

\* Mutant: "return acquired;", the approval flag is not consulted.
AcquireIgnoringFlag(r) == Acquired(r, TRUE)

Acquire(r) == Acquired(r, approved[r])

\* tryAcquire() times out: the caller is refused.
TimedOut(r) ==
  /\ pc[r] = "waiting"
  /\ semaphore[r] = 0
  /\ Return(r, FALSE)
  /\ UNCHANGED <<settings, asyncCallbacks, shared, posted, qt, resolving, history>>

\* Mutant: acquire() instead of tryAcquire(), no timeout at all.
TimeoutNever(r) == FALSE /\ UNCHANGED vars

\* Mutant: the timeout forgets the request but leaves its prompt up.
TimeoutForgetting(r) ==
  TimedOut(r) /\ pendingRequests' = pendingRequests \ {r} /\ UNCHANGED dialog

\* Neither the table entry nor the prompt of the refused caller is cleaned up.
Timeout(r) == TimedOut(r) /\ UNCHANGED <<pendingRequests, dialog>>

-----------------------------------------------------------------------------
(* Qt thread.                                                              *)

\* The posted lambda: register, then emit requestApproval, which main.cpp
\* connects to showApprovalRequest(): the dialog slot is overwritten.
RegisterAndShow ==
  /\ qt = "loop"
  /\ posted # <<>>
  /\ pendingRequests' = pendingRequests \union {Head(posted)}
  /\ dialog' = Head(posted)
  /\ posted' = Tail(posted)
  /\ UNCHANGED <<settings, asyncCallbacks, shared, qt, resolving, pc, history>>

CheckConnectionAsync(r) ==
  /\ qt = "loop"
  /\ pc[r] = "idle"
  /\ \/ /\ ~requireApproval
        /\ Return(r, TRUE)
        /\ grounds' = [grounds EXCEPT ![r] = "disabled"]
        /\ UNCHANGED <<asyncCallbacks, dialog>>
     \/ /\ requireApproval /\ IsTrusted(r)
        /\ Return(r, TRUE)
        /\ grounds' = [grounds EXCEPT ![r] = "trusted"]
        /\ UNCHANGED <<asyncCallbacks, dialog>>
     \/ /\ requireApproval /\ ~IsTrusted(r)
        /\ pc' = [pc EXCEPT ![r] = "waiting"]
        /\ asyncCallbacks' = asyncCallbacks \union {r}
        /\ dialog' = r
        /\ UNCHANGED grounds
  /\ UNCHANGED <<settings, pendingRequests, shared, posted, qt, resolving, verdict>>

Answer(allow) == IF allow THEN "allow" ELSE "deny"

\* resolveApproval() on a sync request, up to the write of req->approved.
Resolving(allow, flag, next) ==
  /\ qt = "loop"
  /\ dialog \in pendingRequests
  /\ pendingRequests' = pendingRequests \ {dialog}
  /\ approved' = [approved EXCEPT ![dialog] = flag]
  /\ verdict' = [verdict EXCEPT ![dialog] = Answer(allow)]
  /\ resolving' = dialog
  /\ qt' = next
  /\ UNCHANGED <<settings, asyncCallbacks, semaphore, posted, dialog, pc, grounds>>

\* addTrustedDevice() is skipped for a denied request and an empty identifier.
AfterWrite(allow) == IF allow /\ DeviceOf[dialog] # NoDevice THEN "trust" ELSE "release"

\* Mutant: req->approved is never written.
ResolveSyncUnset(allow) == Resolving(allow, FALSE, AfterWrite(allow))

\* Mutant: req->approved is set to true whatever the button.
ResolveSyncAdmitting(allow) == Resolving(allow, TRUE, AfterWrite(allow))

\* Mutant: addTrustedDevice() dropped before the release.
ResolveSyncForgetting(allow) == Resolving(allow, allow, "release")

ResolveSync(allow) == Resolving(allow, allow, AfterWrite(allow))

AddTrustedDevice ==
  /\ qt = "trust"
  /\ trusted' = trusted \union {DeviceOf[resolving]}
  /\ qt' = "release"
  /\ UNCHANGED <<requireApproval, tables, shared, posted, dialog, resolving, pc, history>>

Release ==
  /\ qt = "release"
  /\ semaphore' = [semaphore EXCEPT ![resolving] = @ + 1]
  /\ resolving' = NoRequest
  /\ qt' = "clear"
  /\ UNCHANGED <<settings, tables, approved, posted, dialog, pc, history>>

\* resolveApproval() on an async request: the callback runs, nothing is stored.
ResolveAsync(allow) ==
  /\ qt = "loop"
  /\ dialog \in asyncCallbacks
  /\ asyncCallbacks' = asyncCallbacks \ {dialog}
  /\ verdict' = [verdict EXCEPT ![dialog] = Answer(allow)]
  /\ Return(dialog, allow)
  /\ qt' = "clear"
  /\ UNCHANGED <<settings, pendingRequests, shared, posted, dialog, resolving, grounds>>

\* A click on a button that is still fading out resolves an id no table holds.
ResolveUnknown ==
  /\ qt = "loop"
  /\ dialog \notin pendingRequests \union asyncCallbacks
  /\ qt' = "clear"
  /\ UNCHANGED <<settings, tables, shared, posted, dialog, resolving, pc, history>>

\* Second statement of onClicked: clearApprovalRequest().
ClearApprovalRequest ==
  /\ qt = "clear"
  /\ dialog' = NoRequest
  /\ qt' = "loop"
  /\ UNCHANGED <<settings, tables, shared, posted, resolving, pc, history>>

SetRequireApproval(v) ==
  /\ qt = "loop"
  /\ requireApproval # v
  /\ requireApproval' = v
  /\ UNCHANGED <<trusted, tables, shared, posted, dialog, qt, resolving, pc, history>>

ClearTrustedDevices ==
  /\ qt = "loop"
  /\ trusted' = {}
  /\ UNCHANGED <<requireApproval, tables, shared, posted, dialog, qt, resolving, pc, history>>

-----------------------------------------------------------------------------
Caller(r) == CheckRequireApproval(r) \/ CheckTrustedOrPost(r) \/ Acquire(r) \/ Timeout(r)

User ==
  \/ \E allow \in BOOLEAN : ResolveSync(allow) \/ ResolveAsync(allow)
  \/ ResolveUnknown
  \/ \E v \in BOOLEAN : SetRequireApproval(v)
  \/ ClearTrustedDevices

QtStep == AddTrustedDevice \/ Release \/ ClearApprovalRequest

Next ==
  \/ \E r \in Sync : Caller(r)
  \/ \E r \in Async : CheckConnectionAsync(r)
  \/ RegisterAndShow
  \/ QtStep
  \/ User

(***************************************************************************)
(* Threads that started a call keep running, a timeout that is due fires,  *)
(* and the Qt thread finishes the event it is in.  Nobody has to click,    *)
(* nobody has to connect, and the event loop may always be busy elsewhere. *)
(***************************************************************************)
Fairness ==
  /\ \A r \in Sync : /\ WF_vars(CheckTrustedOrPost(r))
                     /\ WF_vars(Acquire(r))
                     /\ WF_vars(Timeout(r))
  /\ WF_vars(QtStep)

Spec == Init /\ [][Next]_vars /\ Fairness

-----------------------------------------------------------------------------
(* Safety.                                                                 *)

\* No caller of checkConnection() or checkConnectionAsync() is let in unless
\* approval was off, its device was trusted when it was checked, or the user
\* pressed Allow on that very request; a request answered Deny, or that timed
\* out before it was answered, never is, however its steps interleave.
AdmittedWithCause ==
  \A r \in Request :
    pc[r] = "admitted" => grounds[r] # "none" \/ verdict[r] = "allow"

\* req->approved is read by another thread without a lock: once the semaphore
\* is released it already holds the button the user pressed, and the release
\* happens at most once (SecurityManager.h:40-43).
WokenWithVerdict ==
  \A r \in Sync :
    semaphore[r] > 0 => /\ semaphore[r] = 1
                        /\ verdict[r] # "none"
                        /\ approved[r] = (verdict[r] = "allow")

\* Whenever the Qt thread can take a click, the request the dialog shows is
\* still in one of SecurityManager's tables: a click is never lost, even after
\* the caller timed out or another prompt came and went.
DialogIsAnswerable ==
  qt = "loop" /\ dialog # NoRequest => dialog \in pendingRequests \union asyncCallbacks

\* A device enters the trusted list only after the user pressed Allow on a
\* request of that device: Deny, a timeout or another device's Allow never
\* adds it.
TrustedByUserStep ==
  \A d \in trusted' \ trusted :
    \E r \in Sync : DeviceOf[r] = d /\ verdict[r] = "allow"
TrustedByUser == [][TrustedByUserStep]_vars

\* When resolveApproval() wakes an allowed caller its device is already in the
\* trusted list, so the next SOAP action or connection that the device sends
\* the moment it is admitted is not prompted again.
RememberedBeforeWokenStep ==
  \A r \in Sync :
    semaphore'[r] > semaphore[r] /\ approved[r] /\ DeviceOf[r] # NoDevice
      => DeviceOf[r] \in trusted'
RememberedBeforeWoken == [][RememberedBeforeWokenStep]_vars

\* A prompt leaves the screen only because the user answered it or because a
\* newer prompt took its place; the timeout of one caller, or a stray second
\* click, never takes down the prompt of another.
PromptStep == dialog # NoRequest /\ dialog' = NoRequest => verdict[dialog] # "none"
PromptOnlyReplacedOrAnswered == [][PromptStep]_vars

\* Liveness: a protocol thread blocked in checkConnection() always gets an
\* answer, whatever the user and the Qt thread do, because of the timeout.
WaitersReturn ==
  \A r \in Sync : pc[r] = "waiting" ~> pc[r] \in {"admitted", "denied"}

\* The detailed design implements the promise of ApprovalGate, whatever the
\* interleaving of protocol threads, timeouts and clicks.
Outcome == [r \in Request |->
  IF pc[r] \in {"admitted", "denied"} THEN pc[r] ELSE "pending"]

Gate == INSTANCE ApprovalGate WITH
  open <- ~requireApproval, remembered <- trusted, consent <- verdict, outcome <- Outcome

ImplementsGate == Gate!Spec

(***************************************************************************)
(* Statements of the repository that the code does not keep.               *)
(***************************************************************************)
Quiet == qt = "loop" /\ posted = <<>>

\* "Approved devices are remembered" (README.md:146): when the dialog closes on
\* an Allow, the device is in the list. The async path never stores it.
ApprovedIsRemembered ==
  qt = "clear" /\ dialog # NoRequest /\ verdict[dialog] = "allow"
      /\ DeviceOf[dialog] # NoDevice
    => DeviceOf[dialog] \in trusted

\* "approvalPending: true while an approval request is waiting for user
\* action" (ConnectionBridge.h:27): a registered request whose caller still
\* waits implies that a dialog is up. A newer prompt hides the older one.
WaitingIsShown ==
  Quiet => \A r \in pendingRequests \union asyncCallbacks :
             pc[r] = "waiting" => dialog # NoRequest

\* The same comment read the other way: a dialog is up only while the caller
\* it names still waits. The timeout leaves the prompt of a refused caller.
ShownIsWaiting ==
  Quiet /\ dialog # NoRequest => pc[dialog] = "waiting"
=============================================================================
