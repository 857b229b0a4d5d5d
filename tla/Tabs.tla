-------------------------------- MODULE Tabs --------------------------------
(***************************************************************************)
(* The pages of one dApp that share a WalletConnect session.  One of the   *)
(* pages is the leader and owns the connection; the others hand their      *)
(* requests to it over a broadcast channel, which carries the answers      *)
(* back.  The active account is in the storage of the browser, whose       *)
(* changes reach the other pages as storage events.                        *)
(*                                                                         *)
(* The election (the elector of broadcast-channel), the channel and the    *)
(* storage events are external: a page that waits for leadership may get   *)
(* it whenever no page has it, and the messages of the channel reach the   *)
(* pages that listen in one order.  Browsers of mobile systems, where      *)
(* every page acts as the leader, are left out.                            *)
(*                                                                         *)
(* Promise reactions come before events, messages and timers: between two  *)
(* awaits of a page only other calls of its dApp can come (Busy).          *)
(***************************************************************************)
EXTENDS Naturals, Sequences, FiniteSets, SequencesExt

CONSTANTS
  Tabs,       \* the pages
  Requests,   \* the calls of request methods, each made once
  NoTab,      \* nobody
  MaxLoads,    \* bound: how often a page is opened
  MaxErrors,   \* bound: how often the relayer refuses the client
  MaxOverlaps, \* bound: after so many changes of the account that overlap
               \* another no more begin, no page is opened and no call made
  MaxQueue     \* bound: what may be on its way to a page once changes overlap

ASSUME TabsAssumption ==
  /\ NoTab \notin Tabs
  /\ MaxLoads \in Nat
  /\ MaxErrors \in Nat
  /\ MaxOverlaps \in Nat
  /\ MaxQueue \in Nat

VARIABLES
  page,     \* the pages that are open
  leader,   \* the page whose elector leads
  wants,    \* what each page awaits the leadership for
  ready,    \* MultiTabChannel.initialized: its page hears the channel
  was,      \* MultiTabChannel.wasLeader
  link,     \* connectionStatus of the selected transport, "none" if unselected
  usable,   \* is the promise isReady of the transport resolved?
  account,  \* does the page have the active account?
  stored,   \* is ACTIVE_ACCOUNT in the storage?
  events,   \* storage events on their way to each page
  saving,   \* pages whose setActiveAccount stores the account when the
            \* selected transport is connected
  late,     \* how many calls in each page do so when a transport is connected
            \* that is not selected any more
  inbox,    \* messages of the channel on their way to each page
  open,     \* openRequests
  others,   \* openRequestsOtherTabs
  held,     \* requests of other pages that wait for the transport
  adding,   \* requests makeRequest has checked and not yet added to open
  sending,  \* requests makeRequest has added to open and not yet sent
  atWallet, \* pairs of a request and the page whose client awaits its answer
  sent,     \* history: how often each page sent each request
  call,     \* the state of each call: [tab, kind, at]
  clearing, \* pages that disconnect the transport, debounceSetActiveAccount
  loads,    \* how often a page was opened
  errors,   \* how often the relayer refused the client
  overlaps  \* history: how often a change of the account overlapped another

election == <<leader, wants, ready, was>>
transport == <<link, usable>>
storage == <<account, stored, events, saving, late>>
requests == <<open, others, held, adding, sending, atWallet, sent, call>>
bounds == <<loads, errors, overlaps>>
vars == <<page, election, transport, storage, inbox, requests, clearing, bounds>>

NoCall == [tab |-> NoTab, kind |-> "none", at |-> "idle"]

TypeOK ==
  /\ page \subseteq Tabs
  /\ leader \in page \cup {NoTab}
  /\ wants \in [Tabs -> SUBSET {"channel", "transport", "takeover"}]
  /\ ready \in [Tabs -> BOOLEAN]
  /\ was \in [Tabs -> BOOLEAN]
  /\ link \in [Tabs -> {"none", "electing", "starting", "connected", "secondary"}]
  /\ usable \in [Tabs -> BOOLEAN]
  /\ account \in [Tabs -> BOOLEAN]
  /\ stored \in BOOLEAN
  /\ events \in [Tabs -> Seq(BOOLEAN)]
  /\ saving \subseteq page
  /\ late \in [Tabs -> Nat]
  /\ inbox \in [Tabs -> Seq([type : {"REQUEST", "RESPONSE"}, id : Requests]
                            \cup [type : {"DISCONNECT", "LEADER_DEAD"}])]
  /\ open \in [Tabs -> SUBSET Requests]
  /\ others \in [Tabs -> SUBSET Requests]
  /\ held \in [Tabs -> SUBSET Requests]
  /\ adding \in [Tabs -> SUBSET Requests]
  /\ sending \in [Tabs -> SUBSET Requests]
  /\ atWallet \subseteq Requests \X page
  /\ sent \in [Tabs -> [Requests -> Nat]]
  /\ call \in [Requests ->
       [tab : Tabs \cup {NoTab}, kind : {"none", "permission", "operation"},
        at : {"idle", "checking", "linked", "pairing", "passed", "relaying", "posted",
              "waiting", "answered", "aborted", "refused", "undefined", "gone"}]]
  /\ clearing \subseteq page
  /\ loads \in 0..MaxLoads
  /\ errors \in 0..MaxErrors
  /\ overlaps \in 0..MaxOverlaps
  \* An account is not kept without the transport that serves it, and what a
  \* page that is closed had in memory is gone.
  /\ \A t \in Tabs : account[t] => link[t] # "none"
  /\ \A t \in Tabs \ page : /\ ~ready[t] /\ ~was[t] /\ ~account[t]
                            /\ wants[t] = {} /\ open[t] = {} /\ inbox[t] = <<>>

Init ==
  /\ page = {}
  /\ leader = NoTab
  /\ wants = [t \in Tabs |-> {}]
  /\ ready = [t \in Tabs |-> FALSE]
  /\ was = [t \in Tabs |-> FALSE]
  /\ link = [t \in Tabs |-> "none"]
  /\ usable = [t \in Tabs |-> FALSE]
  /\ account = [t \in Tabs |-> FALSE]
  /\ stored \in BOOLEAN
  /\ events = [t \in Tabs |-> <<>>]
  /\ saving = {}
  /\ late = [t \in Tabs |-> 0]
  /\ inbox = [t \in Tabs |-> <<>>]
  /\ open = [t \in Tabs |-> {}]
  /\ others = [t \in Tabs |-> {}]
  /\ held = [t \in Tabs |-> {}]
  /\ adding = [t \in Tabs |-> {}]
  /\ sending = [t \in Tabs |-> {}]
  /\ atWallet = {}
  /\ sent = [t \in Tabs |-> [r \in Requests |-> 0]]
  /\ call = [r \in Requests |-> NoCall]
  /\ clearing = {}
  /\ loads = 0
  /\ errors = 0
  /\ overlaps = 0

-----------------------------------------------------------------------------
(***************************************************************************)
(* The channel, the storage and the elector                                *)
(***************************************************************************)

IsLeader(t) == leader = t
HasLeader == leader # NoTab

\* Posting m from t, where the inboxes are in: the pages that have attached
\* their listener get it.
Posted(in, t, m) ==
  [u \in Tabs |-> IF u # t /\ u \in page /\ ready[u] THEN Append(in[u], m) ELSE in[u]]

\* The storage tells the other pages of a value that is not the old one.
Told(ev, t, value) ==
  [u \in Tabs |-> IF u # t /\ u \in page /\ stored # value THEN Append(ev[u], value) ELSE ev[u]]

\* Is the call r one that its page t makes itself?  A permission request is,
\* too, that finds no active account.
MakesItself(t, r) ==
  \/ call[r].at = "checking"
  \/ call[r].at = "linked" /\ (IsLeader(t) \/ (call[r].kind = "permission" /\ ~account[t]))

\* checkMakeRequest is done, and the call goes on.  A second call that pairs is
\* left to module Pairing.
GoesOn(t, r) ==
  /\ call[r].tab = t /\ call[r].at \in {"checking", "linked"} /\ ready[t]
  /\ \/ link[t] # "none" \/ ~MakesItself(t, r)
     \/ \A q \in Requests : ~(call[q].tab = t /\ call[q].at = "pairing")

\* Is t between two awaits of a call?
Busy(t) ==
  \/ \E r \in Requests : GoesOn(t, r)
  \/ adding[t] # {}
  \/ sending[t] # {} /\ link[t] # "none"
  \/ \E r \in Requests : call[r].tab = t /\ call[r].at \in {"relaying", "posted"}

\* No change of the account is under way, nor a call of t.
AtRest(t) ==
  /\ \A u \in Tabs : /\ events[u] = <<>> /\ late[u] = 0
                    /\ [type |-> "DISCONNECT"] \notin Range(inbox[u])
  /\ clearing = {} /\ saving = {}
  /\ ~Busy(t)

\* A change of the account begins in t.
Changes(t) ==
  /\ overlaps < MaxOverlaps
  /\ overlaps' = IF AtRest(t) THEN overlaps ELSE overlaps + 1

\* Pages answer events and messages with writes and messages of their own, and
\* once changes overlap these can go on for ever: a bound.
Room ==
  overlaps = 0 \/ \A t \in Tabs : Len(events[t]) + Len(inbox[t]) <= MaxQueue

\* MultiTabChannel.init: a page that finds no leader waits until it leads.
ChannelInit(t) ==
  IF HasLeader
  THEN ready' = [ready EXCEPT ![t] = TRUE] /\ UNCHANGED <<leader, wants, was>>
  ELSE wants' = [wants EXCEPT ![t] = @ \cup {"channel"}] /\ UNCHANGED <<leader, ready, was>>

\* WalletConnectTransport.connect, for a transport that is neither connected
\* nor connecting.  A page that finds a leader and is not the leader has done.
CheckIfBCLeaderExists(t) ==
  IF ~HasLeader THEN "electing" ELSE IF IsLeader(t) THEN "starting" ELSE "secondary"

Connect(t) ==
  LET status == CheckIfBCLeaderExists(t) IN
  /\ link' = [link EXCEPT ![t] = status]
  /\ usable' = [usable EXCEPT ![t] = @ \/ status = "secondary"]
  /\ wants' = IF status = "electing"
              THEN [wants EXCEPT ![t] = @ \cup {"transport"}] ELSE wants

\* A transport that is not selected any more goes on connecting, and with it
\* the call that stores the account afterwards.
Dropped(t) ==
  /\ saving' = saving \ {t}
  /\ late' = IF t \in saving THEN [late EXCEPT ![t] = @ + 1] ELSE late

\* storage.set at the end of setActiveAccount, with the events ev.
Save(t, ev) ==
  /\ stored' = TRUE
  /\ events' = Told(ev, t, TRUE)

\* client.init of the leader restores the session.
Connected(t) ==
  /\ link[t] = "starting" /\ ~Busy(t)
  /\ link' = [link EXCEPT ![t] = "connected"]
  /\ usable' = [usable EXCEPT ![t] = TRUE]
  /\ IF t \in saving THEN Save(t, events) /\ saving' = saving \ {t}
                     ELSE UNCHANGED <<stored, events, saving>>
  /\ UNCHANGED <<page, election, account, late, inbox, requests, clearing, bounds>>

\* The same for a transport that is not selected any more.
ConnectedLate(t) ==
  /\ late[t] > 0 /\ "transport" \notin wants[t] /\ ~Busy(t) /\ Room
  /\ late' = [late EXCEPT ![t] = @ - 1]
  /\ Save(t, events)
  /\ UNCHANGED <<page, election, transport, account, saving, inbox, requests, clearing, bounds>>

\* The elector makes t the leader: everything in t that waits for this goes on.
\* A page whose transport was secondary connects it (onElectedLeaderhandler).
Elected(t) ==
  /\ ~HasLeader /\ ~Busy(t)
  /\ wants[t] # {}
  /\ leader' = t
  /\ wants' = [wants EXCEPT ![t] = {}]
  /\ ready' = [ready EXCEPT ![t] = @ \/ "channel" \in wants[t]]
  /\ was' = [was EXCEPT ![t] = @ \/ wants[t] \cap {"channel", "takeover"} # {}]
  /\ LET Connects == \/ "transport" \in wants[t] /\ link[t] = "electing"
                     \/ "takeover" \in wants[t] /\ link[t] \in {"electing", "secondary"}
     IN  link' = IF Connects THEN [link EXCEPT ![t] = "starting"] ELSE link
  /\ UNCHANGED <<page, usable, storage, inbox, requests, clearing, bounds>>

-----------------------------------------------------------------------------
(***************************************************************************)
(* Opening and closing pages                                               *)
(***************************************************************************)

\* The constructor of DAppClient loads the active account ...
ActiveAccountLoaded(t) == account' = [account EXCEPT ![t] = stored]

\* ... and with an account of a WalletConnect wallet setActiveAccount selects and
\* connects the transport, and stores the account again then.
InitInternalTransports(t) ==
  IF stored
  THEN /\ Connect(t)
       /\ saving' = IF CheckIfBCLeaderExists(t) = "secondary" THEN saving ELSE saving \cup {t}
  ELSE UNCHANGED <<transport, wants, saving>>

Load(t) ==
  /\ t \notin page
  /\ loads < MaxLoads /\ overlaps < MaxOverlaps
  /\ loads' = loads + 1
  /\ page' = page \cup {t}
  /\ ActiveAccountLoaded(t)
  /\ InitInternalTransports(t)
  /\ UNCHANGED <<leader, ready, was, stored, events, late, inbox, requests, clearing,
                 errors, overlaps>>

\* A page is closed, and what it has in memory goes.  The handler of
\* beforeunload ends the leadership, and posts that it did if the page was a
\* leader and lives long enough; it is attached when the channel is ready.
Close(t) ==
  /\ t \in page
  /\ page' = page \ {t}
  /\ leader' = IF IsLeader(t) THEN NoTab ELSE leader
  /\ \/ /\ ready[t] /\ was[t]
        /\ inbox' = [Posted(inbox, t, [type |-> "LEADER_DEAD"]) EXCEPT ![t] = <<>>]
     \/ inbox' = [inbox EXCEPT ![t] = <<>>]
  /\ wants' = [wants EXCEPT ![t] = {}]
  /\ ready' = [ready EXCEPT ![t] = FALSE]
  /\ was' = [was EXCEPT ![t] = FALSE]
  /\ link' = [link EXCEPT ![t] = "none"]
  /\ usable' = [usable EXCEPT ![t] = FALSE]
  /\ account' = [account EXCEPT ![t] = FALSE]
  /\ events' = [events EXCEPT ![t] = <<>>]
  /\ open' = [open EXCEPT ![t] = {}]
  /\ others' = [others EXCEPT ![t] = {}]
  /\ held' = [held EXCEPT ![t] = {}]
  /\ adding' = [adding EXCEPT ![t] = {}]
  /\ sending' = [sending EXCEPT ![t] = {}]
  /\ saving' = saving \ {t}
  /\ late' = [late EXCEPT ![t] = 0]
  /\ atWallet' = {p \in atWallet : p[2] # t}
  /\ call' = [r \in Requests |-> IF call[r].tab = t THEN [call[r] EXCEPT !.at = "gone"]
                                 ELSE call[r]]
  /\ clearing' = clearing \ {t}
  /\ UNCHANGED <<stored, sent, bounds>>

-----------------------------------------------------------------------------
(***************************************************************************)
(* Requests                                                                *)
(***************************************************************************)

\* A request method is called.  checkMakeRequest notes whether a transport is
\* selected, and then initialises the channel; an operation needs the active
\* account.
CheckMakeRequest(t, r) ==
  /\ t \in page /\ call[r] = NoCall /\ overlaps < MaxOverlaps
  /\ call' = [call EXCEPT ![r] =
       [tab |-> t, kind |-> IF account[t] THEN "operation" ELSE "permission",
        at |-> IF link[t] # "none" THEN "linked" ELSE "checking"]]
  /\ IF ready[t] THEN UNCHANGED election ELSE ChannelInit(t)
  /\ UNCHANGED <<page, transport, storage, inbox, open, others, held, adding, sending,
                 atWallet, sent, clearing, bounds>>

\* An operation without an active account is not permitted.
CheckPermissions(t, r) == call[r].kind = "permission" \/ account[t]

\* makeRequest once a transport is selected: its checks.
Check(t, r) ==
  IF CheckPermissions(t, r)
  THEN /\ call' = [call EXCEPT ![r].at = "passed"]
       /\ adding' = [adding EXCEPT ![t] = @ \cup {r}]
  ELSE call' = [call EXCEPT ![r].at = "refused"] /\ UNCHANGED adding

\* makeRequest in the page itself, which pairs first when it has no transport.
MakeRequest(t, r) ==
  /\ GoesOn(t, r) /\ MakesItself(t, r)
  /\ \/ link[t] # "none" /\ Check(t, r)
     \/ /\ link[t] = "none"
        /\ call' = [call EXCEPT ![r].at = "pairing"]
        /\ UNCHANGED adding
  /\ UNCHANGED <<page, election, transport, storage, inbox, open, others, held, sending,
                 atWallet, sent, clearing, bounds>>

\* The page pairs with a WalletConnect wallet; checkIfBCLeaderExists waits for the
\* leadership if no page has it.  The transport is selected, and makeRequest
\* goes on.
Paired(t, r) ==
  /\ call[r].tab = t /\ call[r].at = "pairing" /\ ~Busy(t)
  /\ \/ /\ ~HasLeader
        /\ wants' = [wants EXCEPT ![t] = @ \cup {"transport"}]
        /\ UNCHANGED <<transport, adding, call>>
     \/ /\ HasLeader
        /\ link' = IF link[t] # "none" THEN link
                   ELSE [link EXCEPT ![t] = IF IsLeader(t) THEN "connected" ELSE "secondary"]
        /\ usable' = [usable EXCEPT ![t] = TRUE]
        /\ Check(t, r)
        /\ UNCHANGED wants
  /\ UNCHANGED <<page, leader, ready, was, storage, inbox, open, others, held, sending,
                 atWallet, sent, clearing, bounds>>

\* Then the request is added to openRequests ...
AddOpenRequest(t, r) ==
  /\ r \in adding[t]
  /\ adding' = [adding EXCEPT ![t] = @ \ {r}]
  /\ open' = [open EXCEPT ![t] = @ \cup {r}]
  /\ sending' = [sending EXCEPT ![t] = @ \cup {r}]
  /\ call' = IF call[r].tab = t THEN [call EXCEPT ![r].at = "waiting"] ELSE call
  /\ UNCHANGED <<page, election, transport, storage, inbox, others, held, atWallet, sent,
                 clearing, bounds>>

\* ... and the client sends it, when a transport is selected, and awaits the
\* answer.  The client of a page that is not the leader is closed when its pairing
\* ends: a permission request it sends at that time may find no session.
Send(t, r) ==
  /\ r \in sending[t] /\ link[t] # "none"
  /\ sending' = [sending EXCEPT ![t] = @ \ {r}]
  /\ sent' = [sent EXCEPT ![t][r] = @ + 1]
  /\ \/ atWallet' = atWallet \cup {<<r, t>>}
     \/ /\ call[r].kind = "permission" /\ link[t] = "secondary"
        /\ UNCHANGED atWallet
  /\ UNCHANGED <<page, election, transport, storage, inbox, open, others, held, adding,
                 call, clearing, bounds>>

\* makeRequestBC: without a transport it returns undefined ...
MakeRequestBC(t, r) ==
  /\ GoesOn(t, r) /\ ~MakesItself(t, r)
  /\ call' = [call EXCEPT ![r].at = IF link[t] = "none" THEN "undefined" ELSE "relaying"]
  /\ UNCHANGED <<page, election, transport, storage, inbox, open, others, held, adding,
                 sending, atWallet, sent, clearing, bounds>>

\* Variant: the page makes the request itself as well.
RelayRequestToo(t, r) ==
  /\ call[r].tab = t /\ call[r].at = "relaying"
  /\ call' = [call EXCEPT ![r].at = "posted"]
  /\ inbox' = Posted(inbox, t, [type |-> "REQUEST", id |-> r])
  /\ adding' = [adding EXCEPT ![t] = @ \cup {r}]
  /\ UNCHANGED <<page, election, transport, storage, open, others, held, sending,
                 atWallet, sent, clearing, bounds>>

\* ... and with one the request goes to the leader, whoever that is ...
RelayRequest(t, r) ==
  /\ call[r].tab = t /\ call[r].at = "relaying"
  /\ call' = [call EXCEPT ![r].at = "posted"]
  /\ inbox' = Posted(inbox, t, [type |-> "REQUEST", id |-> r])
  /\ UNCHANGED <<page, election, transport, storage, open, others, held, adding, sending,
                 atWallet, sent, clearing, bounds>>

\* ... and is added to openRequests then.
AddRelayed(t, r) ==
  /\ call[r].tab = t /\ call[r].at = "posted"
  /\ call' = [call EXCEPT ![r].at = "waiting"]
  /\ open' = [open EXCEPT ![t] = @ \cup {r}]
  /\ UNCHANGED <<page, election, transport, storage, inbox, others, held, adding, sending,
                 atWallet, sent, clearing, bounds>>

\* prepareRequest: the leader takes the request of another page ...
PrepareRequest(t, in) ==
  /\ held' = IF IsLeader(t) THEN [held EXCEPT ![t] = @ \cup {Head(inbox[t]).id}] ELSE held
  /\ inbox' = in
  /\ UNCHANGED <<page, election, transport, storage, open, others, adding, sending,
                 atWallet, sent, call, clearing, bounds>>

\* ... and makes it its own once its transport is ready.  A request that is
\* refused here leaves the page that waits for it without an answer.
Forward(t, r) ==
  /\ r \in held[t]
  /\ link[t] # "none" /\ usable[t]
  /\ held' = [held EXCEPT ![t] = @ \ {r}]
  /\ others' = [others EXCEPT ![t] = @ \cup {r}]
  /\ adding' = IF CheckPermissions(t, r) THEN [adding EXCEPT ![t] = @ \cup {r}] ELSE adding
  /\ UNCHANGED <<page, election, transport, storage, inbox, open, sending, atWallet, sent,
                 call, clearing, bounds>>

\* setActiveAccount(account) selects the transport, connects it if it is not, and
\* stores the account then.
NewAccount(t, ev) ==
  /\ account' = [account EXCEPT ![t] = TRUE]
  /\ IF link[t] = "none" THEN Connect(t) ELSE UNCHANGED <<transport, wants>>
  /\ IF link[t] = "none" /\ CheckIfBCLeaderExists(t) # "secondary"
     THEN saving' = saving \cup {t} /\ events' = ev /\ UNCHANGED stored
     ELSE Save(t, ev) /\ UNCHANGED saving
  /\ UNCHANGED late

\* handleRequestError: without an active account the rejection of a permission
\* request takes the transport away.
HandleRequestError(t) ==
  /\ IF account[t] THEN UNCHANGED <<link, usable, saving, late>>
     ELSE /\ link' = [link EXCEPT ![t] = "none"]
          /\ usable' = [usable EXCEPT ![t] = FALSE]
          /\ Dropped(t)
  /\ UNCHANGED <<account, stored, events, wants, overlaps>>

\* The promise of r is settled in page t; with a response to a permission request
\* comes the active account.
Settle(t, r) ==
  /\ open' = [open EXCEPT ![t] = @ \ {r}]
  /\ IF r \in open[t] /\ call[r].tab = t
     THEN /\ call' = [call EXCEPT ![r].at = "answered"]
          /\ \/ /\ call[r].kind = "permission"
                /\ Changes(t) /\ NewAccount(t, events)
             \/ call[r].kind = "permission" /\ HandleRequestError(t)
             \/ /\ call[r].kind = "operation"
                /\ UNCHANGED <<storage, transport, wants, overlaps>>
     ELSE UNCHANGED <<call, storage, transport, wants, overlaps>>

\* Variant: the leader looks for a request of its own first.
HandleOwnResponse(t, r, in) ==
  /\ inbox' = in
  /\ Settle(t, r)
  /\ UNCHANGED <<page, leader, ready, was, others, held, adding, sending, sent, clearing,
                 loads, errors>>

\* handleResponse, for an answer that the client or the channel brings: it is
\* posted if the request came from another page.
HandleResponse(t, r, in) ==
  /\ IF r \in others[t]
     THEN /\ inbox' = Posted(in, t, [type |-> "RESPONSE", id |-> r])
          /\ others' = [others EXCEPT ![t] = @ \ {r}]
          /\ UNCHANGED <<open, call, storage, transport, wants, overlaps>>
     ELSE /\ inbox' = in
          /\ UNCHANGED others
          /\ Settle(t, r)
  /\ UNCHANGED <<page, leader, ready, was, held, adding, sending, sent, clearing, loads,
                 errors>>

Answer(t, r) ==
  /\ <<r, t>> \in atWallet /\ ~Busy(t)
  /\ atWallet' = atWallet \ {<<r, t>>}
  /\ HandleResponse(t, r, inbox)

-----------------------------------------------------------------------------
(***************************************************************************)
(* Clearing the active account                                             *)
(***************************************************************************)

\* The end of setActiveAccount(undefined).
NoAccount(t, ev) ==
  /\ account' = [account EXCEPT ![t] = FALSE]
  /\ stored' = FALSE
  /\ events' = Told(ev, t, FALSE)
  /\ link' = [link EXCEPT ![t] = "none"]
  /\ usable' = [usable EXCEPT ![t] = FALSE]
  /\ Dropped(t)

\* Variant: the open requests are forgotten and none is rejected.
ForgetOpen(t) == open' = [open EXCEPT ![t] = {}] /\ UNCHANGED call

\* All open requests of t are rejected.
RejectOpen(t) ==
  /\ open' = [open EXCEPT ![t] = {}]
  /\ call' = [r \in Requests |-> IF r \in open[t] /\ call[r].tab = t
                                 THEN [call[r] EXCEPT !.at = "aborted"] ELSE call[r]]

\* setActiveAccount(undefined), where the inboxes are in and the events ev.  The
\* leader awaits the disconnection of its transport; the others ask for it.
SetActiveAccount(t, in, ev) ==
  /\ \/ /\ account[t] /\ t \notin clearing /\ IsLeader(t)
        /\ clearing' = clearing \cup {t}
        /\ inbox' = in /\ events' = ev
        /\ UNCHANGED <<account, stored, saving, late, transport, open, call>>
     \/ /\ account[t] /\ t \notin clearing /\ ~IsLeader(t)
        /\ inbox' = Posted(in, t, [type |-> "DISCONNECT"])
        /\ RejectOpen(t)
        /\ NoAccount(t, ev)
        /\ UNCHANGED clearing
     \/ /\ ~account[t] \/ t \in clearing
        /\ inbox' = in
        /\ NoAccount(t, ev)
        /\ UNCHANGED <<open, call, clearing>>
  /\ UNCHANGED <<page, election, others, held, adding, sending, atWallet, sent, loads,
                 errors>>

\* The transport of the leader is disconnected, its session and what it asked
\* the wallet are gone.
Disconnected(t) ==
  /\ t \in clearing /\ ~Busy(t)
  /\ clearing' = clearing \ {t}
  /\ others' = [others EXCEPT ![t] = {}]
  /\ atWallet' = {p \in atWallet : p[2] # t}
  /\ RejectOpen(t)
  /\ NoAccount(t, events)
  /\ UNCHANGED <<page, election, inbox, held, adding, sending, sent, bounds>>

\* The dApp calls disconnect(), which throws when no transport is selected.
Disconnect(t) ==
  /\ link[t] # "none"
  /\ Changes(t)
  /\ SetActiveAccount(t, inbox, events)

\* The wallet ends the session: the handler clears the account and disconnects,
\* which clears it again while the leader waits.
ChannelClosed(t) ==
  /\ link[t] = "connected" /\ ~Busy(t)
  /\ Changes(t)
  /\ clearing' = IF account[t] /\ IsLeader(t) THEN clearing \cup {t} ELSE clearing
  /\ NoAccount(t, events)
  /\ UNCHANGED <<page, election, inbox, requests, loads, errors>>

\* Variant: resetInvalidState leaves ACTIVE_ACCOUNT in the storage.
ForgetAccount(t) ==
  /\ account' = [account EXCEPT ![t] = FALSE]
  /\ link' = [link EXCEPT ![t] = "none"]
  /\ usable' = [usable EXCEPT ![t] = FALSE]
  /\ Dropped(t)
  /\ atWallet' = {p \in atWallet : p[2] # t}
  /\ UNCHANGED <<stored, events>>

\* resetInvalidState disconnects and forgets the account, in this page and in the
\* storage, and leaves the requests that are open.
ResetInvalidState(t) ==
  /\ NoAccount(t, events)
  /\ atWallet' = {p \in atWallet : p[2] # t}

\* The relayer refuses the client, which closes, too (subscribeToSessionEvents).
RelayerError(t) ==
  /\ link[t] = "connected" /\ ~Busy(t)
  /\ errors < MaxErrors
  /\ errors' = errors + 1
  /\ Changes(t)
  /\ ResetInvalidState(t)
  /\ UNCHANGED <<page, election, inbox, open, others, held, adding, sending, sent, call,
                 clearing, loads>>

-----------------------------------------------------------------------------
(***************************************************************************)
(* What the channel and the storage bring                                  *)
(***************************************************************************)

\* A page that is told that the leader died waits until it leads itself.
AwaitLeadership(t, in) ==
  /\ wants' = IF IsLeader(t) THEN wants ELSE [wants EXCEPT ![t] = @ \cup {"takeover"}]
  /\ was' = IF IsLeader(t) THEN [was EXCEPT ![t] = TRUE] ELSE was
  /\ inbox' = in
  /\ UNCHANGED <<page, leader, ready, transport, storage, requests, clearing, bounds>>

OnBCMessage(t) ==
  /\ inbox[t] # <<>> /\ ~Busy(t)
  /\ LET m == Head(inbox[t])
         in == [inbox EXCEPT ![t] = Tail(@)]
     IN  \/ m.type = "REQUEST" /\ PrepareRequest(t, in)
         \/ m.type = "RESPONSE" /\ HandleResponse(t, m.id, in) /\ UNCHANGED atWallet
         \/ /\ m.type = "DISCONNECT" /\ link[t] # "none" /\ Room
            /\ SetActiveAccount(t, in, events)
            /\ UNCHANGED overlaps
         \/ /\ m.type = "DISCONNECT" /\ link[t] = "none"
            /\ inbox' = in
            /\ UNCHANGED <<page, election, transport, storage, requests, clearing, bounds>>
         \/ m.type = "LEADER_DEAD" /\ AwaitLeadership(t, in)

\* Another page has set or cleared the active account.
StorageChanged(t) ==
  /\ events[t] # <<>> /\ ~Busy(t) /\ Room
  /\ LET ev == [events EXCEPT ![t] = Tail(@)] IN
     \/ /\ ~Head(events[t])
        /\ SetActiveAccount(t, inbox, ev)
        /\ UNCHANGED overlaps
     \/ /\ Head(events[t])
        /\ NewAccount(t, ev)
        /\ UNCHANGED <<page, leader, ready, was, inbox, requests, clearing, bounds>>

-----------------------------------------------------------------------------
(***************************************************************************)
(* The specification                                                       *)
(***************************************************************************)

\* What the code, the browser and the wallet do of themselves.
Progress ==
  \E t \in Tabs :
    \/ Elected(t) \/ Connected(t) \/ ConnectedLate(t) \/ Disconnected(t)
    \/ OnBCMessage(t) \/ StorageChanged(t)
    \/ \E r \in Requests :
         \/ MakeRequest(t, r) \/ AddOpenRequest(t, r) \/ Send(t, r)
         \/ MakeRequestBC(t, r) \/ RelayRequest(t, r) \/ AddRelayed(t, r)
         \/ Forward(t, r) \/ Answer(t, r)

Next ==
  \/ Progress
  \/ \E t \in Tabs :
       \/ Load(t) \/ Close(t) \/ Disconnect(t) \/ ChannelClosed(t) \/ RelayerError(t)
       \/ \E r \in Requests : CheckMakeRequest(t, r) \/ Paired(t, r)

Spec == Init /\ [][Next]_vars

\* The code awaits the elector, the channel, the storage and the wallet; as long
\* as one of them has something for a page, one of them is served.
FairSpec == Spec /\ WF_vars(Progress)

-----------------------------------------------------------------------------
(***************************************************************************)
(* Properties                                                              *)
(***************************************************************************)

\* No page sends a request twice, and never do two pages wait for the wallet's
\* answer to one request, whoever leads, hears of it late or is loaded again
\* (prepareRequest, DAppClient.ts:557).
SentOnce ==
  /\ \A t \in Tabs, r \in Requests : sent[t][r] <= 1
  /\ \A p, q \in atWallet : p[1] = q[1] => p = q

\* Nothing is on its way between the pages, and no call is under way that sets up
\* a transport or changes the account.
Quiet == /\ \A t \in Tabs : inbox[t] = <<>> /\ events[t] = <<>> /\ link[t] # "starting"
         /\ clearing = {} /\ saving = {}

\* When the pages have told each other everything, each has the active account
\* of the storage ...
Agreement == Quiet => \A t \in page : account[t] = stored

\* ... no page that missed a clear goes on with the old account, and none that was
\* told of an account is without it (setActiveAccount, DAppClient.ts:960, and the
\* storage events, :266), until a session is granted or ended while an earlier
\* change is still under way.
PagesAgree == overlaps = 0 => Agreement

\* No operation waits for an answer in a page that has no transport any more ...
NoneWaitsCutOff ==
  Quiet /\ errors = 0 =>
    \A r \in Requests :
      call[r].kind = "operation" /\ call[r].at = "waiting" =>
        link[call[r].tab] # "none"

\* ... whichever page ended the session, the calls of all of them were rejected
\* (DAppClient.ts:981), also those that were between two awaits when another page
\* did.  An error of the relayer rejects none of them.
CutOffPagesDoNotWait == overlaps = 0 => NoneWaitsCutOff

Heard(r) ==
  \/ \E t \in Tabs : r \in held[t] \cup others[t]
  \/ [type |-> "RESPONSE", id |-> r] \in Range(inbox[call[r].tab])

\* A request of another page that the leader heard is answered in the page that
\* waits for it, unless the leader is closed or ends the session first
\* (prepareRequest, DAppClient.ts:556, and handleResponse, :353); once changes of
\* the account overlap, the pages may be busy with those for ever.
HeardRequestsSettle ==
  \A r \in Requests :
    call[r].at = "waiting" /\ Heard(r)
      ~> call[r].at # "waiting" \/ ~Heard(r) \/ overlaps > 0

\* What the comment on openRequests says of them (DAppClient.ts:186): they have
\* been sent to a wallet.  It is too much to ask: a page that became the leader
\* to connect its transport has not initialised its channel, and the requests
\* other pages post are heard by nobody.
OpenRequestsReachWallet ==
  /\ Quiet /\ HasLeader
  /\ link[leader] = "connected" /\ held[leader] = {}
  /\ \A t \in Tabs : ~Busy(t)
  => \A t \in Tabs : \A r \in open[t] : \E u \in Tabs : sent[u][r] > 0

\* A request is sent by one page only.  This, too, is too much to ask, of three
\* pages: a leader sends the request of another page and is closed, and the page
\* that leads next has yet to hear the request.
SentByOnePage ==
  \A r \in Requests : \A t, u \in Tabs : sent[t][r] > 0 /\ sent[u][r] > 0 => t = u

=============================================================================
