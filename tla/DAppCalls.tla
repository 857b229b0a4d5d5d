------------------------------ MODULE DAppCalls ------------------------------
(***************************************************************************)
(* The calls a dApp makes on its client, from the checks of requestX to    *)
(* the event that tells of the outcome (DAppClient.ts, events.ts,          *)
(* beacon-message-events.ts), and the one toast of the page that tells the *)
(* user about all of them (ui/toast).                                      *)
(*                                                                         *)
(* The toast is told what to show half a second late when it was told      *)
(* something less than two seconds before, but opened and closed at once;  *)
(* one timer closes it, which every new toast replaces.                    *)
(*                                                                         *)
(* The page sends requests itself or, if another tab leads a WalletConnect *)
(* session, has that tab send them (see Tabs); leading, it sends those of  *)
(* other tabs.  Promise reactions end before timers and messages are       *)
(* heard.  Abstracted: pairing but for what WalletConnect tells of it,     *)
(* texts, metrics, alerts, wallet information, the answer besides its kind *)
(* and whether the client can use it, acknowledgements that come twice     *)
(* while a call waits, the clearing of openRequests with an account (so    *)
(* more may come late), and the order of the times in requestCounter, of   *)
(* which only the number and the age is asked.                             *)
(***************************************************************************)
EXTENDS Integers, FiniteSets, Sequences

CONSTANTS
    NCalls,      \* bound: calls, in the order they are made
    Programs,    \* what dApps ask for: the kinds of request of the calls
    Accounts,    \* accounts of the wallets
    ScopesOf,    \* scopes of each account
    Abstracted,  \* accounts that can be challenged
    Roles,       \* subset of {"self", "follower"}
    Phones,      \* subset of BOOLEAN: is the page on a phone
    RateLimit, Window,  \* requests in so many seconds
    MaxTime,     \* bound: seconds
    MaxOthers,   \* bound: account changes, showPrepare, requests of other tabs, and
                 \* messages of no call that waits
    None

Kinds == {"permission", "operation", "sign", "broadcast", "challenge", "simulated",
          "chain", "chainpermission"}

ASSUME CallsAssumption ==
    /\ Programs \subseteq [1..NCalls -> Kinds]
    /\ Roles \subseteq {"self", "follower"} /\ Phones \subseteq BOOLEAN
    /\ ScopesOf \in [Accounts -> SUBSET {"operation", "sign"}] /\ Abstracted \subseteq Accounts
    /\ NCalls \in Nat /\ RateLimit \in Nat /\ Window \in Nat \ {0}
    /\ MaxTime \in Nat /\ MaxOthers \in Nat

Calls == 1..NCalls

\* The calls of this page, and what it is asked to send for other tabs.
Requests == 1..(NCalls + MaxOthers)

VARIABLES
    role, phone,
    account,   \* active account
    kind,      \* kind of request of every call
    call,      \* how far a call is
    counter,   \* requestCounter: requests that were counted, each with the second
    sends,     \* history: requests that were sent, each with the second
    now, others,
    root,      \* beacon-toast: "none", "creating" (50 ms) or "there"
    isOpen, config,  \* state of ToastRoot
    coming,    \* configurations whose delay runs, in the order of openToast
    lastTimer, \* whether the timer that closes the toast runs
    astray,    \* history: the latest toast was of no call that waited for an answer,
               \* or such a call has ended since without an event
    linking    \* is a link to the block explorer awaited

clientVars == <<role, phone, kind, account, call, counter, sends, now, others>>
shown == <<root, isOpen, config, coming, lastTimer>>
toastVars == <<shown, astray>>
vars == <<clientVars, toastVars, linking>>

-----------------------------------------------------------------------------
(* The toast. *)

Toast(state, timer) == [state |-> state, timer |-> timer, explorer |-> FALSE]
Awaiting == {"loading", "acknowledge"}
Toasts == [state : {"prepare", "finished"} \cup Awaiting, timer : BOOLEAN, explorer : BOOLEAN]

\* Variant: the old timer is cleared after the new one is set.
OpenToastClears(t) ==
    /\ IF root = "none"
       THEN root' = "creating" /\ config' = t /\ UNCHANGED coming
       ELSE coming' = Append(coming, t) /\ UNCHANGED <<root, config>>
    /\ lastTimer' = (t.timer /\ ~lastTimer)
    /\ isOpen' = (root = "there" \/ isOpen)

\* Delays grow with every call of a streak, so configurations come in order.
OpenToast(t) ==
    /\ IF root = "none"
       THEN root' = "creating" /\ config' = t /\ UNCHANGED coming
       ELSE coming' = Append(coming, t) /\ UNCHANGED <<root, config>>
    /\ lastTimer' = t.timer
    /\ isOpen' = (root = "there" \/ isOpen)

\* Closing leaves the timer and what is still to come.
CloseToast ==
    IF root = "there"
    THEN isOpen' = FALSE /\ config' = None /\ UNCHANGED <<root, coming, lastTimer, astray>>
    ELSE UNCHANGED toastVars

Render ==
    /\ root = "creating" /\ root' = "there" /\ isOpen' = TRUE
    /\ UNCHANGED <<clientVars, linking, config, coming, lastTimer, astray>>

NextConfig ==
    /\ root = "there" /\ coming # <<>>
    /\ config' = Head(coming) /\ coming' = Tail(coming)
    /\ UNCHANGED <<clientVars, linking, root, isOpen, lastTimer, astray>>

\* SUCCESS_TIMER is longer than any delay.
TimerCloses ==
    /\ lastTimer /\ root = "there" /\ coming = <<>>
    /\ lastTimer' = FALSE /\ isOpen' = FALSE /\ config' = None
    /\ UNCHANGED <<clientVars, linking, root, coming, astray>>

Visible == root = "there" /\ isOpen /\ config # None

(* What the default handlers of the events show (events.ts). *)

SentToast == Toast("loading", phone)
AcknowledgedToast == Toast("acknowledge", FALSE)
PrepareToast == Toast("prepare", FALSE)

\* Told of a success, the user closes the toast; else its timer does.
PlainToast == Toast("finished", TRUE)

\* ... or copies what the wallet returned, which closes the toast, too.
CopyToast == PlainToast

\* ... or asks for the transaction in a block explorer.
ExplorerToast == [PlainToast EXCEPT !.explorer = TRUE]

SuccessToast(k) ==
    CASE k \in {"operation", "broadcast"} -> ExplorerToast
      [] k \in {"sign", "challenge", "simulated"} -> CopyToast
      [] OTHER -> PlainToast

\* An error stays until the user closes it, unless it is that the user refused.
ErrorToast(answer) == Toast("finished", answer = "aborted")

\* An event of a call, or of the dApp.
Emit(toast) == OpenToast(toast) /\ astray' = FALSE

\* An event of nothing that waits in this page, ...
EmitAstray(toast) == OpenToast(toast) /\ astray' = TRUE

\* ... and the end of a call of which no event tells.
NoEvent == astray' = TRUE /\ UNCHANGED shown

-----------------------------------------------------------------------------
(* The methods of DAppClient, up to the awaits before makeRequest. *)

V3 == {"chain", "chainpermission"}

\* What happens besides the calls.
Count == others < MaxOthers /\ others' = others + 1

Move(c, st) == call' = [call EXCEPT ![c] = st]

\* A call of a method that goes on if what it asks of the active account is there.
Begin(c, k, may) ==
    /\ call[c] = "idle" /\ \A d \in 1..(c - 1) : call[d] # "idle"
    /\ kind[c] = k
    /\ Move(c, IF may THEN "preparing" ELSE "rejected")
    /\ UNCHANGED <<toastVars, role, phone, kind, account, counter, sends, now, others, linking>>

RequestPermissions(c) == Begin(c, "permission", TRUE)
RequestProofOfEventChallenge(c) == Begin(c, "challenge", account \in Abstracted)
RequestSimulatedProofOfEventChallenge(c) == Begin(c, "simulated", account \in Abstracted)
RequestSignPayload(c) == Begin(c, "sign", account # None)
RequestOperation(c) == Begin(c, "operation", account # None)
RequestBroadcast(c) == Begin(c, "broadcast", TRUE)
PermissionRequest(c) == Begin(c, "chainpermission", TRUE)
Request(c) == Begin(c, "chain", account # None)

\* checkPermissions, which makeRequestV3 and makeRequestBC do not call.
Permitted(k) ==
    CASE k \in {"operation", "sign"} -> account # None /\ k \in ScopesOf[account]
      [] k = "broadcast" -> account # None
      [] OTHER -> TRUE

\* A first permission request pairs, and its answer chooses the transport.
Forwarded(k) ==
    /\ role = "follower" /\ k # "chainpermission"
    /\ k = "permission" => account # None

\* Variant: the oldest second counts as gone.
RecentEarly == {p \in counter : p[2] + Window - 1 > now}

\* The requests of the window that ends now; those that were refused count, too.
Recent == {p \in counter : p[2] + Window > now}

\* Variant: seconds at which requests cease to count are kept.
CountExpiry(c) == counter' = Recent \cup {<<c, now + Window>>}

CountRequest(c) == counter' = Recent \cup {<<c, now>>}

\* Whether a request that was counted is not sent: there are too many, or the account
\* may not ask for it.
Refused(k) == Cardinality(counter') > RateLimit \/ (k \notin V3 /\ ~Permitted(k))

\* makeRequest, makeRequestV3 and makeRequestBC after init(): the rate limit, the
\* permissions, the open request, and the toast that it was sent.
MakeRequest(c) ==
    /\ call[c] = "preparing"
    /\ CountRequest(c)
    /\ IF Cardinality(counter') > RateLimit \/ (~Forwarded(kind[c]) /\ Refused(kind[c]))
       THEN Move(c, "rejected") /\ UNCHANGED <<sends, toastVars>>
       ELSE /\ Move(c, "waiting") /\ sends' = sends \cup {<<c, now>>}
            /\ Emit(SentToast)
    /\ UNCHANGED <<role, phone, kind, account, now, others, linking>>

\* A leading page sends a request for another tab; makeRequest shows nothing then, but
\* makeRequestV3 does.  The answer is passed on, and no event tells of it here.
PrepareRequest(k) ==
    /\ role = "self" /\ ~phone /\ k # "chainpermission" /\ Count
    /\ CountRequest(NCalls + others')
    /\ IF Refused(k) THEN UNCHANGED <<sends, toastVars>>
       ELSE /\ sends' = sends \cup {<<NCalls + others', now>>}
            /\ IF k \in V3 THEN EmitAstray(SentToast) ELSE UNCHANGED toastVars
    /\ UNCHANGED <<role, phone, kind, account, call, now, linking>>

-----------------------------------------------------------------------------
(* Answers. *)

Acknowledge(c) ==
    /\ call[c] = "waiting"
    /\ Move(c, "acknowledged")
    /\ Emit(AcknowledgedToast)
    /\ UNCHANGED <<role, phone, kind, account, counter, sends, now, others, linking>>

\* The requests openRequests keeps when they are answered: they are deleted under the id
\* of the message inside, which in version 3 has none, and not when the answer is passed
\* on to another tab.
KeptOpen ==
    {c \in Calls : kind[c] \in V3 /\ ~Forwarded(kind[c]) /\ call[c] \in {"resolved", "rejected"}}
        \cup (Requests \ Calls)

\* An acknowledgement that comes after the answer.
AcknowledgeLate ==
    /\ Count /\ \E p \in sends : p[1] \in KeptOpen
    /\ EmitAstray(AcknowledgedToast)
    /\ UNCHANGED <<role, phone, kind, account, call, counter, sends, now, linking>>

\* WalletConnect tells that a wallet has heard of the pairing, or has refused it; a
\* call may still be preparing, be gone, or know of nothing.
WcToastHandler(toast) ==
    /\ Count
    /\ \/ toast = AcknowledgedToast /\ EmitAstray(toast)
       \/ toast = ErrorToast("aborted") /\ Emit(toast)
    /\ UNCHANGED <<role, phone, kind, account, call, counter, sends, now, linking>>

\* A WalletConnect wallet that refuses to pair again: wcToastHandler tells of it, and
\* so does the call.
WalletConnectRejects(c) ==
    /\ call[c] \in {"waiting", "acknowledged"} /\ kind[c] = "permission" /\ role = "self"
    /\ Move(c, "aborted")
    /\ Emit(ErrorToast("aborted"))
    /\ UNCHANGED <<role, phone, kind, account, counter, sends, now, others, linking>>

\* What the wallet answers: "untyped" is an error without a type, or of one the client
\* does not know.
Answers == {"granted", "aborted", "failed", "untyped"}

Answer(c, a) ==
    /\ call[c] \in {"waiting", "acknowledged"}
    /\ Move(c, a)
    /\ UNCHANGED <<toastVars, role, phone, kind, account, counter, sends, now, others, linking>>

\* The account a permission response brings: onNewAccount makes it the active one.
NewAccount(c) ==
    IF kind[c] \in {"permission", "chainpermission"} THEN account' \in Accounts
    ELSE UNCHANGED account

\* notifySuccess.
NotifySuccess(c) ==
    /\ call[c] = "granted"
    /\ NewAccount(c) /\ Move(c, "resolved")
    /\ Emit(SuccessToast(kind[c]))
    /\ UNCHANGED <<role, phone, kind, counter, sends, now, others, linking>>

\* An answer the client cannot use.  onNewAccount throws (permission), or what the
\* blockchain makes of the answer, which in permissionRequest may be after the account
\* is set; or the handler of the event throws.
AnswerThrows(c) ==
    /\ call[c] = "granted"
    /\ \/ /\ kind[c] \in {"permission", "chain", "chainpermission"} /\ Move(c, "rejected")
          /\ (kind[c] = "chainpermission" /\ NewAccount(c)) \/ UNCHANGED account
       \/ /\ kind[c] \in {"permission", "operation", "sign", "broadcast"}
          /\ NewAccount(c) /\ Move(c, "resolved")
    /\ NoEvent
    /\ UNCHANGED <<role, phone, kind, counter, sends, now, others, linking>>

\* Variant: nothing is shown when the user refused.
ErrorEventQuiet(answer) ==
    IF answer = "aborted" THEN UNCHANGED toastVars ELSE Emit(ErrorToast(answer))

ErrorEvent(answer) == Emit(ErrorToast(answer))

HandleRequestError(c) ==
    /\ call[c] \in {"aborted", "failed", "untyped"}
    /\ Move(c, "rejected")
    /\ IF call[c] = "untyped" THEN NoEvent ELSE ErrorEvent(call[c])
    /\ UNCHANGED <<role, phone, kind, account, counter, sends, now, others, linking>>

-----------------------------------------------------------------------------
(* The dApp, the user, the clock. *)

\* setActiveAccount, of the dApp, of another tab, or as the wallet asks for.
SetActiveAccount(a) ==
    /\ Count
    /\ a # account /\ account' = a
    /\ UNCHANGED <<toastVars, role, phone, kind, call, counter, sends, now, linking>>

ShowPrepare ==
    /\ Count
    /\ Emit(PrepareToast)
    /\ UNCHANGED <<role, phone, kind, account, call, counter, sends, now, linking>>

\* Of the dApp, or when WalletConnect closes what is shown.
HideUI == CloseToast /\ UNCHANGED <<clientVars, linking>>

\* The close button, and the buttons that copy, report or show details.
ClickClose ==
    /\ Visible /\ CloseToast
    /\ UNCHANGED <<clientVars, linking>>

\* "Open Blockexplorer" awaits the link, and then closes whatever toast is shown.
OpenExplorer ==
    /\ Visible /\ config.explorer
    /\ linking' = TRUE
    /\ UNCHANGED <<clientVars, toastVars>>

ExplorerOpened ==
    /\ linking /\ linking' = FALSE
    /\ CloseToast
    /\ UNCHANGED clientVars

\* "Reset Connection" gives up the account; what the calls wait for may still come.
ResetConnection ==
    /\ Visible /\ config.state = "loading"
    /\ CloseToast /\ account' = None
    /\ UNCHANGED <<role, phone, kind, call, counter, sends, now, others, linking>>

\* A second passes, longer than the delay of a toast.
Tick ==
    /\ coming = <<>> /\ now < MaxTime /\ now' = now + 1
    /\ UNCHANGED <<toastVars, role, phone, kind, account, call, counter, sends, others, linking>>

-----------------------------------------------------------------------------
Init ==
    /\ role \in Roles /\ phone \in Phones
    /\ phone => role = "self"  \* checkMakeRequest
    /\ account \in Accounts \cup {None}
    /\ kind \in Programs /\ call = [c \in Calls |-> "idle"]
    /\ counter = {} /\ sends = {}
    /\ now = 0 /\ others = 0
    /\ root = "none" /\ isOpen = FALSE /\ config = None /\ coming = <<>> /\ lastTimer = FALSE
    /\ astray = FALSE /\ linking = FALSE

Timers == Render \/ NextConfig \/ TimerCloses
Reactions == \E c \in Calls : NotifySuccess(c) \/ AnswerThrows(c) \/ HandleRequestError(c)

\* No reaction is left to run.
Idle == \A c \in Calls : call[c] \notin Answers

Environment ==
    \/ \E c \in Calls :
        \/ RequestPermissions(c) \/ RequestProofOfEventChallenge(c)
        \/ RequestSimulatedProofOfEventChallenge(c) \/ RequestSignPayload(c)
        \/ RequestOperation(c) \/ RequestBroadcast(c) \/ PermissionRequest(c) \/ Request(c)
        \/ MakeRequest(c) \/ Acknowledge(c) \/ WalletConnectRejects(c)
        \/ \E a \in Answers : Answer(c, a)
    \/ \E k \in Kinds : PrepareRequest(k)
    \/ AcknowledgeLate
    \/ \E t \in {AcknowledgedToast, ErrorToast("aborted")} : WcToastHandler(t)
    \/ \E a \in Accounts \cup {None} : SetActiveAccount(a)
    \/ ShowPrepare \/ HideUI \/ ClickClose \/ ResetConnection \/ Tick
    \/ OpenExplorer \/ ExplorerOpened

Next == \/ Reactions
        \/ Idle /\ Timers
        \/ Idle /\ Environment

Spec == Init /\ [][Next]_vars

-----------------------------------------------------------------------------
(* Properties. *)

TypeOK ==
    /\ role \in Roles /\ phone \in Phones /\ account \in Accounts \cup {None}
    /\ kind \in Programs
    /\ call \in [Calls -> {"idle", "preparing", "waiting", "acknowledged", "resolved",
                            "rejected"} \cup Answers]
    /\ counter \subseteq Requests \X (0..MaxTime) /\ sends \subseteq Requests \X (0..MaxTime)
    /\ now \in 0..MaxTime /\ others \in 0..MaxOthers /\ astray \in BOOLEAN
    /\ root \in {"none", "creating", "there"} /\ isOpen \in BOOLEAN
    /\ config \in Toasts \cup {None} /\ coming \in Seq(Toasts) /\ lastTimer \in BOOLEAN
    /\ linking \in BOOLEAN

\* No more requests are sent in any window of time than the rate limit allows, also if
\* some calls are refused, which count as well.
RateLimitHolds ==
    \A t \in 0..MaxTime :
        Cardinality({p \in sends : p[2] \in t..(t + Window - 1)}) <= RateLimit

Waiting == \E c \in Calls : call[c] \in {"waiting", "acknowledged"} \cup Answers

\* The user is not left with a toast that awaits the wallet: once no call waits for an
\* answer and the delays are over, the toast says something else or is gone.  Excepted
\* is a toast of nothing that waits in this page, or left by a call that ended with no
\* event of its outcome.
QuietToastAwaitsNothing ==
    coming = <<>> /\ ~Waiting /\ ~astray => ~(Visible /\ config.state \in Awaiting)

\* No toast stays for ever: once the delays are over, a toast that is shown is about to be
\* closed by the one timer all toasts share, is an error the user has to close, what the
\* dApp prepares, or awaits the wallet with a call, or astray.
LeftToastTimesOut ==
    coming = <<>> /\ Visible =>
        \/ lastTimer \/ config = ErrorToast("failed") \/ config.state = "prepare"
        \/ config.state \in Awaiting /\ (Waiting \/ astray)

(* Not so (MCDAppCalls_astray.cfg). *)

\* No toast awaits the wallet when no call does.
ToastAwaitsWithACall == coming = <<>> /\ ~Waiting => ~(Visible /\ config.state \in Awaiting)

=============================================================================
