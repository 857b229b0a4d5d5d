# Beacon SDK: TLA+ models, checks and proofs

Beacon (TZIP-10) connects a dApp in a web page to a wallet of its user. This
directory models the protocol part of the SDK: how a request gets from the
dApp's `await` to the wallet's user and how the answer gets back, how the two
are paired, and what several pages of one dApp and the alerts and toasts of the
page do meanwhile, over the peer-to-peer (Matrix) transport and over
WalletConnect, when pages are reloaded, transports are restarted, messages are
lost, repeated or reordered, and handlers interleave at every `await`.

All source paths below are relative to `src/packages/`.

## 1. The system

| Component | State it keeps | Operations | Modelled in |
|---|---|---|---|
| `DAppClient` (beacon-dapp), requests | `openRequests` map id -> ExposedPromise, rate limiter | `makeRequest[V3]`, `makeRequestBC`, `handleResponse`, the public `request...` methods | `RequestFlow` (protocol), `DAppCalls` (methods, checks, events), `Tabs` (relayed requests) |
| `DAppClient`, accounts | active account (promise and storage), active peer, transport promise | `setActiveAccount`, `setTransport`, `removePeer`, `handleDisconnect`, `disconnect` | `ActiveAccount`, `Tabs` (WalletConnect), `RequestFlow` (removal) |
| `DAppClient`, pairing | `_initPromise`, three transports, their listeners | `init`, `initInternalTransports`, abort, selection | `Pairing` |
| `WalletClient` (beacon-wallet) | `pendingRequests` list, app metadata, permissions, peers, push tokens, transport | `connect`, the message handler, `respond`, `removePeer`, `disconnect`, `registerPush` | `RequestFlow`, `WalletStorage` |
| Message interceptors (beacon-wallet) | none of their own; write metadata and permissions | `IncomingRequestInterceptor.intercept`, `OutgoingResponseInterceptor.intercept` | `RequestFlow`, `WalletStorage` |
| `Transport`, `Client`, `BeaconClient` (beacon-core) | listeners, peers, connection status, rate limiter | `send`, `addPeer`, `removePeer`, `notifyListeners`, `addRequestAndCheckIfRateLimited` | `RequestFlow`, `Pairing`, `DAppCalls` |
| `ExposedPromise` (beacon-utils) | status, value | `resolve`, `reject`, status queries | `ExposedPromise` |
| `P2PTransport`, `P2PCommunicationClient` (beacon-transport-matrix) | promise of the Matrix client, `activeListeners`, `initialEvent`, relay server, rooms of peers | `connect`, `disconnect`, `start`, `stop`, `reset`, `listenForEncryptedMessage`, pairing, rooms | `P2PClient` (delivery), `MatrixRooms` (pairing, rooms), `RequestFlow` (who is heard) |
| `MatrixClient`, services, store, event emitter | sync token (memory and storage), rooms, listeners | `start`, `poll`, `joinRooms`, `update`, `emitMessage` | `P2PClient`, `MatrixRooms` |
| `WalletConnectCommunicationClient` | session, active account, queue `messageIds` | `sendMessage`, handlers per type, `openSession`, `init`, `close`, session events | `WCClient`, `Tabs` (leadership, errors) |
| WalletConnect and PostMessage transports | status, listener for new peers | connect, listen, disconnect | `Tabs`, `Pairing` |
| Storage managers | lists in the storage | read, change, write back with awaits between | `WalletStorage`, `RequestFlow` (metadata list), `ActiveAccount` (each change one step) |
| Multi-tab channel | leadership, messages between pages | `init`, `LEADER_DEAD`, relaying | `Tabs` |
| User interface (beacon-ui, `events.ts`) | one alert, one toast, the pairing view | open, close, choose a wallet, show a code | `AlertRoot`, `PairingAlert`, `DAppCalls` (toast) |
| Storage backends, migrations, crypto, serialiser, message types, blockchain packages | | input/output, pure data, declarations | not modelled |

**How they interact.** The dApp's code calls the `DAppClient`, which keeps an
ExposedPromise per request and sends through a transport. The transport hands
the message to its communication client, which encrypts it and posts it to a
room of a Matrix relay (or makes a call of the WalletConnect sign client). At
the wallet the Matrix client's poll emits it, the communication client's
callback decrypts it, the `WalletClient` acknowledges it, remembers it and gives
it to the app through an interceptor. The app calls `respond`, another
interceptor composes the answer, and the same path in reverse leads to
`handleResponse`, which settles the promise. Accounts, peers, metadata and the
sync token are in the storage; open and pending requests and all listeners are
in memory.

**What is hard.** Everything is one-threaded, so each side is a set of
coroutines: state read before an `await` is stale after it. The hard cases are

- a request or answer that is repeated, late or lost, between two sides that may
  each lose their memory but not their storage (reload, restart);
- the pairing removed by either side while a request is under way;
- lists in the storage that are read, changed and written back across awaits;
- WalletConnect answers, which carry no Beacon id and are matched by a queue;
- sessions that open, are updated and expire while handlers hold them;
- a transport that is stopped and started again, clients that were given up but
  still poll, a sync token that outlives the callbacks;
- two peers that open a room for each other at once, and refused joins that are
  repeated while messages are on their way;
- three transports that pair at once, aborted and restarted while they connect;
- pages that share one session, of which the one that owns the connection closes;
- one alert and one toast, opened and closed by timers and handlers of requests
  that are over.

`PROJECT.json` lists these under `hazards`, each at its line, with the property
that would catch it going wrong or the reason there is none.

**What makes each component correct.**

- *Requests*: a request is settled at most once, for good, with an answer the
  user gave to that request; a request a page waits for can still be settled; a
  request the wallet acknowledged reaches its user; every request is settled in
  the end on a reliable transport; answers go only to the requester.
- *Accounts*: an active account rests on an approved permission request; tabs and
  storage agree about it when all is done; it has a transport or is about to get
  one, and nobody waits for a transport in vain.
- *Calls*: no window of time has more requests than the limit; the toast tells
  of what is awaited now.
- *Pages*: a request is sent once whichever page leads; pages agree about the
  account; a page cut off from the wallet does not wait for it.
- *Pairing*: a code on the screen is the right one and somebody listens for its
  answer; the answer closes the alert and starts the call that waited; both
  sides end with a room both are in, and messages arrive through it.
- *The wallet's storage*: overlapping calls may lose changes, but no permission
  appears that was not granted, and no account gets two push tokens.
- *P2P delivery*: what is sent to a subscribed client is handled, and handled
  once unless the client is reset; a connected wallet hears all its peers.
- *WalletConnect*: no id is used for two answers, answers match their requests,
  the session in use exists.

## 2. The modules

| Module | Lines of the code it stands for | Role |
|---|---|---|
| `ExposedPromise` | `beacon-utils/src/utils/exposed-promise.ts` | values and operators: a promise is a record `[status, value]`, `Resolve` and `Reject` change a pending one only |
| `RequestResponse` | none: it is the promise made to a dApp | abstract specification: ask, answer, settle, abandon |
| `RequestFlow` | `DAppClient.ts`, `WalletClient.ts`, the two interceptors, `Transport.ts`, `StorageManager.addOne` | the request protocol, composed with the two-way channel, and its refinement of `RequestResponse` |
| `RequestFlowProofs` | | theorems about `RequestFlow` |
| `ActiveAccount` | `DAppClient.ts` (accounts), `AccountManager.ts`, `Client.ts` (`setTransport`) | the active account, its peer and transport in several tabs, and the storage they share |
| `ActiveAccountProofs` | | theorems about `ActiveAccount` |
| `P2PClient` | `P2PTransport.ts`, `P2PCommunicationClient.ts`, `MatrixClient.ts`, `MatrixClientStore.ts`, `MatrixClientEventEmitter.ts` | delivery of messages to one client, its relay server |
| `MatrixRooms` | `P2PCommunicationClient.ts` (pairing, rooms), `MatrixRoomService.ts`, `MatrixEventService.ts`, `MatrixRoom.ts`, `DappP2PTransport.ts`, `WalletP2PTransport.ts` | a dApp and a wallet that pair and share rooms |
| `WCClient` | `WalletConnectCommunicationClient.ts` | sessions and the id queue |
| `Tabs` | `multi-tab-channel.ts`, `DAppClient.ts` (relaying), `WalletConnectTransport.ts`, `LocalStorage.ts` | the pages that share a WalletConnect session |
| `Pairing` | `DAppClient.ts` (`init` and what it calls), the three transports' listeners | attempts to pair, composed with `AlertRoot` |
| `AlertRoot` | `beacon-ui` `ui/alert/index.tsx` | the one alert of a page |
| `PairingAlert` | `beacon-ui` `useConnect.tsx`, the pairing alert's views | the choice of a wallet, composed with `AlertRoot` |
| `DAppCalls` | `DAppClient.ts` (public methods), `events.ts`, `beacon-message-events.ts`, `ui/toast`, `Client.ts` (rate limiter) | calls and the toast that tells of them |
| `WalletStorage` | `WalletClient.ts` (storage), `StorageManager.ts` and its managers, `OutgoingResponseInterceptor.ts` | the lists a wallet keeps |
| `WalletStorageProofs` | | theorems about `WalletStorage` |
| `WCClientProofs`, `TabsProofs`, `DAppCallsProofs` | | theorems about `WCClient`, `Tabs` and `DAppCalls` |
| `P2PClientProofs` | | theorems about `P2PClient` and `MatrixRooms` |
| `PairingProofs` | | theorems about `Pairing` and `PairingAlert`, and what the one takes for granted of the other |
| `MC...` | | instances for TLC, one for each module that has runs |

Modules share names for what they share: the modules on requests meet in
`openRequests` and `handleResponse`, `P2PClient` and `MatrixRooms` in the sync
of a Matrix client, `Pairing` and `PairingAlert` in `AlertRoot`, which both
extend. Each takes the others as its environment: the room in which
a message of `P2PClient` travels is the subject of `MatrixRooms`, and what `init()`
and the timers do to the alert is the environment of `PairingAlert`. The two modules
agree on the latter: `AlertRoot` says in `ClientStep` what a client may do, the
environment of `PairingAlert` is made of the same parts (`OpenFor`, `CloseAlert`,
`CodeComes`), and that `Pairing` does nothing else is a property
(`AlertIsUsedAsAssumed`), checked and proved.

`map` in `PROJECT.json` gives the source lines of each definition. Definitions
introduced as "Variant" are changed forms of the definition after them; they
are not part of any specification and serve to show that the property they are
paired with (`mutants`) can fail.

### RequestFlow

A step is the code a handler runs between two awaits. `phase[r]` is how far
`makeRequest` got with id `r` (a reload leaves "gone" or "done"); `promise`,
`openRequests`, `pendingRequests` and `appMetadata` are the variables of those
names in the code. A handler that waits is an element of a set: `intercepting`
(with the metadata list it read), `composing`, `sending`, `settling`,
`forgetting`. `answered` is a history variable.

- dApp: `MakeRequest` then `SendRequest`; `ReceiveMessage` is `handleResponse`,
  and `FinishPermission` its part after the metadata is stored; `SetAccount` is
  the continuation of `requestPermissions`; `RemoveWallet` or
  `ReceiveDisconnect`, then `RemoveAccounts`; `DAppRestart` is a reload.
- wallet: `ReceiveRequest`, `InterceptRequest`, `StoreMetadata`, `Respond`,
  `ComposePermission`, `SendToDApp`, `RemovePeer`, `ReceiveDisconnectFrom`,
  `Connect`, `WalletRestart`; `Pair` is a new pairing on both sides.
- channels are sets. A message that is never delivered is a lost one; with
  `Duplicates` a delivered one may come again; order is free.

Abstracted: payloads, encryption, the ids (a GUID is never drawn twice, so ids
are the model values themselves), and the user interface. "operation" stands for
every request that needs an active account. An answer is "approve", "abort" or
"invalid" (an approval whose address the wallet's interceptor rejects). The
difference between message versions 2 and 3 is where the code differs: wrapped
messages skip the metadata lookup and have no id inside.

### ActiveAccount

The tabs of one dApp and the storage they share. `active[t]`, `activePeer[t]` and
`transport[t]` are the settled values of the three promises a `DAppClient` keeps
(`transport[t]` only says whether the promise is resolved); `stored`, `accounts`
and `peers` are in the storage, and `events[t]` are the storage events that tell
tab `t` of a changed active account. A call is an element of `calls`, numbered in
the order they are made, and runs from one wait for the storage, the network or
an event handler to the next. An `await` of a promise that is resolved already is
no step: nothing but promise callbacks runs in between.

`setActiveAccount` is `SetActive`, `OpenTransport`, `FindPeer`, `ChooseTransport`
and `Save`. Its first step replaces the active account (`Replacing`) or clears it
(`ClearActive`, `Clearing`), and may have to await the transport before it does:
when it clears, and when it replaces another account in a tab whose app does not
listen for `ACTIVE_ACCOUNT_SET` (`IsInvalidState`, `Subscribe`). `GoOnSetting` is
what follows. `RemovePeer` awaits the transport, too (`GoOnRemoving`); the
Disconnect of a wallet (`ReceiveDisconnect`) does not; `Remove` and `CheckActive`
are the removal of the wallet's accounts after either. `Grant` and `Add` are the
permission response, `HandleEvent` and
`LookUp` the handler of storage events, `Pair` a pairing in `init`, and
`ForgetWallet` the reset after a rejected first request. All accounts are those
of peer-to-peer wallets, the pages have been loaded, and changing a list in the
storage is one step (`RequestFlow` has the one that is not). `overlapped` is a
history variable: some call was made before all others were done.

### P2PClient

One client, dApp or wallet. The relay is external: it keeps one timeline of the
messages to this client and answers a sync with those after a token, or with all
if there is none; rooms are left out. `conn` is where `connect()`/`start()` is:
"stuck" when it failed, "deaf" when `connect()` went on although the retry that
`start()` does not wait for failed. `token` and `stored` are the sync token in memory
and in the storage. A `disconnect()` may come at any time. A `start()` that it
overtakes goes on (`late`) and does at its end what it does to whatever the client
is by then: it becomes the client everybody waits for (`LateStarts`) or resets the
one there is (`LateFails`). `abandoned` holds the
clients that were dropped, because their first sync failed or another took their
place, with their tokens and callbacks: nobody stops
them, so they go on polling and writing the storage. `listening[p]` is where
`listenForEncryptedMessage` is for peer `p`: "waiting" for the client promise,
then "finishing" until the `initialListener` is unsubscribed. `handling` are the
callbacks that decrypt, `handled` counts what reached the transport. `relay` is
the promise of the relay server, which is looked up, stored and shared by
`start`, `stop` and `reset`. Failing
polls are omitted (they change nothing and are repeated), the wait for the
shared key is one step with the registration, and peers are added but not
removed (`RequestFlow` has the removal).

### WCClient

One tab, which is the leader, with a listener. `messageIds` is the queue of the
code. `stage[r]` is where the handler of request `r` is and `captured[r]` the
session it holds across awaits. The sign client and its relay are external:
sessions are opened with a controller and an account, updated, deleted or
expired, and requests are answered in any order. `closing` and `tearing` are the
cleanups that wait for a pairing to go. `order` is a history variable: the requests as they were sent, until
one fails or an answer overtakes another. `Namespaces` are the
methods and networks a wallet may approve: all, one method missing, another
network. Acknowledgements are left out: they change nothing here, but they carry
`messageIds[0]`, the newest id (`WalletConnectCommunicationClient.ts:276`,
`:808`), where answers carry the oldest.

### MatrixRooms

A dApp and a wallet, each logged in at a server of its own or at the same one;
an address is a client at a server. The relay is external: rooms with members,
invitations and a log, shared by all servers. What the code keeps in the storage
(`home`, `peerServer`, `roomIds`, `known`) outlives a reload, what it keeps in
memory (`ready`, `ignored`, `tasks`) does not. A handler or call that awaits the
relay is a task: `LookUp`, `Create`, `PeerJoined` and `Put` are the steps of
`sendMessage` and of a pairing response, `Join` and `Rejoin` are `tryJoinRooms`
and its timer, `HandleMessage` is the callback of a message. `Scan` is the pairing code; `Move` is the login at another server
after a reset. `ignored` holds what `updatePeerRoom` and `deleteRoomIdFromRooms`
put into `ignoredRooms`: the first adds the second character of a room's id,
which is the id of no room but makes the list non-empty, and then no joined room
is trusted. `excused` is a history variable: what was under way when a page was
loaded again, or when a join was refused for the last time, need not arrive.

### Tabs

The pages of one dApp over WalletConnect. `leader` is the page whose elector
leads, `wants` what each page awaits the leadership for; the election library
and the channel are external. `open`, `others` and `held` are `openRequests`,
`openRequestsOtherTabs` and the requests of other pages that wait for the
leader's transport. `MakeRequest`, `AddOpenRequest` and `Send` are the steps of
`makeRequest`: its checks, the entry in `openRequests`, the message. `MakeRequestBC`,
`RelayRequest` and `AddRelayed` are those of `makeRequestBC`: the check of the
transport, the message to the leader, the entry. Other calls may come between them.
`OnBCMessage`, `Forward` and `HandleResponse` are the leader's part and the way
back. `Load` and `Close` are a page that opens and closes; `Disconnect`,
`ChannelClosed` and `RelayerError` end or disturb the session, whenever there is one;
`StorageChanged` is the storage event. An account is active at once and stored when
the transport has connected: `saving` are the pages whose `setActiveAccount` is in
between, and `late` counts those of each page whose transport is not selected any
more, which store the account all the same (`ConnectedLate`).

Promise reactions come before messages, events and timers, so a page between two
awaits that need nothing from outside (`Busy`) is disturbed only by calls of its own
dApp, and by nothing that reaches it. `sent` is a history variable: how often each page
sent each request; so is `overlaps`: how often a change of the account began while
another, or a call of its page, was under way. Mobile browsers, where every page acts as
the leader, are left out.

### Pairing and PairingAlert, over AlertRoot

`Pairing` has the calls that need `init()`. A call makes an attempt or awaits one
that is there; an attempt builds a generation of transports if there is none,
and captures them in its closures. `listener` and `hears` say which transports
notice a wallet, and for which attempt; `stage` is how far the attempt got.
`connect()` of a P2P transport does something once (`Tried`): the attempt that called
it is in `starting` until `P2PStarted` or `P2PFails`, and gets its code then; an attempt
that finds the transport connecting, connected or unreached has its code as soon as
there is a relay server (`P2PCode`). The
alert is aborted by its user, by a second call and by a relay that cannot be
reached. The steps that only await promises and the local storage are finished
before the user, a timer or the network is heard again (`Idle`).

`PairingAlert` has the view: which wallet is chosen, on which device, with which
codes, and the handlers that await a code (`awaits`) and may be resumed when
their view is gone. The `DAppClient` is its environment (`DApp`). What awaits
a code that is there is resumed before anything else happens (`AlertIdle`).
`AlertRoot` is what the two share: the root that is rendered 50 ms after the first alert, and the timers
that unmount an alert 300 ms after it was closed.

### DAppCalls

A call goes from the checks of `requestOperation` and its siblings through
`makeRequest` to the event that tells its outcome. `counter` is the rate
limiter's list, `sends` the history of what was sent, both sets of pairs of a
call and the second it was made in. `config`, `isOpen`,
`coming` and `lastTimer` are the toast: what it shows, what is delayed, and the
one timer that closes it. A page sends itself or, as a "follower", has another
tab send (`Tabs` has that part); leading, it sends for others (`PrepareRequest`).
A call may end with no event of its outcome: its answer is of no use to
`onNewAccount` or the blockchain's handler (`AnswerThrows`), or is an error without a
type ("untyped"). A message may be of no call that waits: an acknowledgement that comes
after the answer of a version 3 request, which stays in `openRequests`
(`AcknowledgeLate`), or what WalletConnect tells of a pairing (`WcToastHandler`).
`astray` is a history variable: the latest toast is such a message's, or of a call that
ended with no event. Promise reactions end before timers and
messages are heard (`Idle`), as they do in an event loop.

### WalletStorage

The wallet's lists: peers, metadata, permissions, push tokens. A call is a
sequence of reads and writes, one step each; `read[c]` is what it read and will
write back. Calls are the permission answer with its stored permission,
`registerPush`, the removal of a peer, of all peers, of an account and of a
permission, and a new peer. `respond()` returns before its permission is stored; a call
of the model ends when it is. Version 3 answers store none and are left out. `granted` is a history of approvals; `alone` and
`before` record a call that nothing overlaps and what was stored when it began.

## 3. The runs

Passing runs explore all states of the instance; runs marked **V** state what a
document, comment or test of the repository says and end in a counterexample.

| Run | Instance | Question |
|---|---|---|
| `request_flow_faults` | one dApp; a permission request and an operation, version 2; all answers; reloads, restarts, removal by either side; no duplicates | `PendingReachesApp`, `WaitingRequestsAreOpen`, `OpenRequestsAwaitResponse`, `AccountNeedsApproval`, `OneAnswer` |
| `request_flow_duplicates` | one dApp; a version 2 permission request and a version 3 operation; approve; any message any number of times; with fairness | `TypeOK`, `ImplementsRequestResponse`, `EveryRequestSettles` |
| `request_flow_broadcast` **V** | two dApps, one of which may be removed | `AnswersGoToRequester` |
| `active_account_calls` | two tabs, the user acts in one; two accounts of two wallets; three calls or events; an app that listens or does not | `TypeOK`, `QuietStateAgrees`, `TransportIsSelected`, `AwaitedTransportComes` |
| `p2p_client_delivery` | two messages of a known peer, one of a peer added later; at most 2 resets; disconnects at any time, reloads, dropped and late clients | `TypeOK`, `HandledOncePerReset`, `ServerIsStored`, `SubscribedMessagesAreHandled` |
| `wc_client_queue` | an operation, a permission request, a message without handler; two sessions of different wallets | `TypeOK`, `NoIdAnsweredTwice`, `OrderlyAnswersMatch`, `SessionIsLiveOrClosing` |
| `matrix_rooms` | two servers, a message each way, four rooms, the code scanned twice, one repeated join, one reload or new login | `RecordedRoomsAreShared`, `PairingCompletes`, `MessagesArrive` |
| `tabs_pages` | two pages, two calls, three page loads, one error of the relayer, one overlap of changes of the account; with fairness | `SentOnce`, `PagesAgree`, `CutOffPagesDoNotWait`, `HeardRequestsSettle` |
| `pairing_alert_views` | four wallets of different standards, a desktop and a phone, two alerts | `ShownCodeFits` |
| `pairing_attempts` | two calls, two attempts, three generations of transports, one code taken to a wallet, relays that may fail | `ShownCodesAreHeard`, `SelectedTransportIsCurrent`, `PairedAlertIsClosed`, `PairingStartsACall`, `AlertIsUsedAsAssumed` |
| `dapp_calls_toast` | two calls, of every kind in either place, and one message or request of no call; desktop and phone; leader and follower; one request in two seconds | `TypeOK`, `RateLimitHolds`, `QuietToastAwaitsNothing`, `LeftToastTimesOut` |
| `wallet_storage_calls` | three calls of any kind, two dApps, two accounts, a restart | `PermissionsWereGranted`, `OneTokenPerAccount`, `UndisturbedCallsAreAtomic` |

The type invariants of `MatrixRooms`, `Tabs`, `Pairing`, `PairingAlert` and
`WalletStorage` are not among these properties; they hold when they are added to the
same configurations, and are proved.

**Bounds and why they are enough.** Requests interact only through what they
share: the account and metadata of their dApp and the wallet's metadata list,
peers and connection. A permission request and an operation of one dApp exercise
the account and the metadata; two dApps exercise the list, the peers and the
connection. Duplicates and removal are switched by constants, so that each run
stays small and shows which fault a property depends on; the proved properties
hold with everything on.

- `P2PClient`: `MaxResets` = 2 is enough for a client that was dropped to poll
  beside one that is reset again, and for a `start()` to be overtaken and to come
  late; three messages let one be read before, one
  during and one after the listening is set up.
- `WCClient`: three ids are the least with an older, a newer and an unanswerable
  one, and two sessions with different controllers the least with a replacement.
- `ActiveAccount`: `MaxCalls` = 3 lets a call start while another waits for the
  transport that a third one sets, and a change be handled by the other tab;
  `UserTabs` is one of the two tabs, the other follows the storage events. The
  theorems about it have no such bounds.
- `MatrixRooms`: four rooms (`MaxRooms`) are the pairing response's, one more
  when the code is scanned again (`MaxScans` = 2), and one of each side; the
  liveness properties say nothing once they are used up. `MaxRejoins` is 10 in
  the code; 1 has the first refusal, a repeated one and the last.
- `Tabs`: `MaxLoads` = 3 opens two pages and lets one be loaded again. After
  `MaxOverlaps` = 1 change of the account that overlaps another, nothing new begins,
  but all that is under way goes on; once changes overlap, pages answer storage events
  with events of their own, for ever, of which no more than `MaxQueue` = 1 may be on
  its way to a page. Neither bound touches what happens until then, where
  `PagesAgree` and `CutOffPagesDoNotWait` speak. Two larger
  instances have the safety properties only, and end without error, too:
  `MCTabs_three.cfg`, where a request is on its way to two pages, one of which
  takes over from the other, and `MCTabs_calls.cfg`, where a page that was cut off
  waits for one call while it makes others. `SentOnce` is proved for any number.
- `Pairing`: `NAttempts` = 2, `NCalls` = 2 and `NGenerations` = 3 let an attempt
  be given up and its transports answer after those of the next were built;
  `MaxTaken` = 1 is the wallet that answers. `Eager` lets calls overlap.
- `PairingAlert`: the four wallets of `Entries` are a WalletConnect wallet for phones
  and the web, a browser extension that is also a P2P desktop wallet, a P2P
  wallet for phones and a WalletConnect wallet for the web; two alerts (`MaxAlerts`) let a handler of one outlive it.
- `DAppCalls`: a window of 2 with a limit of 1 in a clock of `MaxTime` = 2 has a
  request refused, one let through after the window and one at its edge; the code
  has 2 in 5. `MaxOthers` = 1 is a change of the active account during a call, a toast
  the dApp opens itself, a request of another tab or a message of no call;
  two of these end without error, too (19,783,327 states, ten minutes).
- `WalletStorage`: of three calls two are under way at once (`MaxRunning` = 2), in
  every order of their steps, so that a third one finds what they left. The
  theorems about it have no such bound. Calls end, so the run stops.

No run uses a state constraint and no definition is replaced. Deadlock is not
checked because the systems may stop: all requests settled, all calls made,
nothing left to deliver. Symmetry is used in
instances without liveness only: calls and dApps may be exchanged in
`MCWalletStorage`, pages and calls in the larger instances of `MCTabs`, the two wallets in `MCWCClient`,
where a session stands for its wallet and its account, too.

**Fairness.** `RequestFlow!Fairness` says that a handler that awaits is resumed
(the event loop), that a message in flight is delivered (the Matrix relay keeps
it, and a sync with a stored token returns it), and that the user answers what
the app shows. Nothing is assumed of removals, restarts or reconnections.
`P2PClient!Fairness` says that a connected client polls (`poll` reschedules
itself with a timer while the client is active) and that a callback is resumed.
`MatrixRooms!RoomsFairness` says the same of both clients, and that what waits for
the relay hears from it, for good or ill. In `Tabs` what the browser and the
wallet do goes on (`Progress`: elections, connections, messages of the channel,
storage events, answers); nothing makes a page open, close or disconnect. `Pairing`, `PairingAlert`, `DAppCalls`, `WalletStorage`, `ActiveAccount` and
`WCClient` have safety properties only, and no fairness: what must not be missed
there is stated of the states in which nothing is left to run (`Idle`, `coming =
<<>>`). All of it is weak fairness, in `MatrixRooms` and `Tabs` of a disjunction,
which asks only that something of it happens.

## 4. Where the code and what is said of it part

The run marked **V** checks the one of these disagreements that crosses the
border between dApps. The others have a configuration beside it, in the same
directory, that ends in a counterexample when it is given to TLC
(`tlc -config MCRequestFlow_v3.cfg MCRequestFlow`); `MCTabs_claims.cfg` has three, of
which TLC reports the first it finds (`-continue` reports all).

1. *An answer to a removed dApp goes to all others* (`request_flow_broadcast`).
   `respondToMessage` passes `transport.send` an undefined peer, which means
   everybody.
2. *Version 3 answers stay open* (`MCRequestFlow_v3.cfg`). `handleResponse`
   deletes `openRequests` under `typedMessage.id` (`DAppClient.ts:423`), and the
   inner message of a version 3 response has no id. The entry stays for the life
   of the page; line 187 says the map holds requests "still awaiting a response".
   Version 2 requests are deleted: that is proved (`OpenRequestsAreOpen`).
3. *Lost metadata, lost answer* (`MCRequestFlow_metadata.cfg`). Two permission
   requests are intercepted at once, `StorageManager.addOne` writes one list over
   the other, and the answer to the dApp that is missing from it throws inside a
   promise nobody awaits, after the pending entry was removed.
4. *A reconnected wallet is deaf* (`MCRequestFlow_reconnect.cfg`). The Disconnect
   of one dApp resets the shared P2P client but not its `activeListeners`;
   `connect()` then subscribes nothing for the remaining peers.
5. *WalletConnect answers under wrong ids* (`MCWCClient_names.cfg`). Each answer
   takes the oldest queued id, so an answer that overtakes another, or that
   follows a request that failed silently, settles another request.
   `OrderlyAnswersMatch` shows that matching holds exactly as long as neither
   happens.
6. *A stopped client cannot start* (`MCP2PClient_restart.cfg`). The promise of
   the relay server outlives `stop()`, and when every server failed, whoever
   awaits it waits for ever.
7. *Requests nobody hears* (`MCTabs_claims.cfg`). A page that became the leader
   in order to connect has not initialised its channel; what other pages post to
   it is open for ever, although `openRequests` is said to hold what was sent.
8. *An alert is unmounted by the timer of an earlier one*
   (`MCPairingAlert_fade.cfg`). The 300 ms timer of a closed alert is not cleared
   when the next one opens (`ui/alert/index.tsx:87`).
9. *An `init()` that never ends* (`MCPairing_hang.cfg`). A second attempt that
   finds the transports half built returns at `DAppClient.ts:768` without
   settling the promise that every later request awaits.
10. *Permissions of other dApps go too* (`MCWalletStorage_others.cfg`).
    `removePermissionsForPeers` removes by account identifier; the comment at
    `WalletClient.ts:410` says "with origin of the specified peer".
11. *A request sent by two leaders* (`MCTabs_takeover.cfg`). A leader sends the
    request of another page and is closed; a third page, which has yet to hear that
    request, becomes the leader and then sends it too. The wallet is asked twice;
    only one page is left to hear the answers (`SentOnce`). TLC takes ten minutes to find it.
12. *A P2P code nobody hears* (`MCPairing_relay.cfg`). `P2PTransport.connect` returns
    at once for a transport that is not `NOT_CONNECTED` (`P2PTransport.ts:50`), and one
    whose start failed stays `CONNECTING`. A request made before the attempt is aborted
    uses that transport again and shows a code whose answer no client hears
    (`RelayCodesAreHeard`); `ShownCodesAreHeard` excuses just these codes.
13. *A late `start()` becomes the client* (`MCP2PClient_late.cfg`). Neither
    `P2PTransport.disconnect` nor `stop()` knows of a `start()` under way. It ends after
    the reset and resolves the new promise of the client, with a server the reset has
    deleted from the storage (`ServerInUseIsStored`); one that fails resets whatever
    client there is by then.
14. *A cleared account is stored again* (`MCTabs_claims.cfg`). `setActiveAccount` stores
    the account after `await transport.connect()` (`DAppClient.ts:1029-1043`). When the
    account is cleared meanwhile, here or in another page, the pages are left with an
    account the storage has not, or the other way round (`Agreement`).
15. *An operation a disconnect misses* (`MCTabs_claims.cfg`). Between the checks of
    `makeRequest` or `makeRequestBC` and the entry in `openRequests` a `disconnect()`
    rejects the open requests, and not this one, which then waits in a page without a
    transport (`NoneWaitsCutOff`).
16. *A toast that awaits nothing* (`MCDAppCalls_astray.cfg`). A leading page shows
    "Awaiting confirmation" for version 3 requests of other pages (`DAppClient.ts:2586`)
    and never their outcome; an acknowledgement that comes after a version 3 answer
    (`:402`, `:423`), the pairing notice of WalletConnect (`:692`) and answers that make
    the client throw (`:1401`, `:1422`, `:1491`, `:1563`, `:2148`) leave such a toast,
    too, and it has no timer on a desktop (`ToastAwaitsWithACall`).

Seen while modelling, without a property:

- `removeAllPeers` unsubscribes every listener for messages, the one for channel
  openings too, and the transport stays connected: the next pairing's answer is
  heard by nobody until the page is loaded again or the pairing is aborted.
  `Pairing` leaves it out; with it `ShownCodesAreHeard` would not hold.
- What item 14 is for WalletConnect is so for peer-to-peer accounts: a
  `clearActiveAccount` made before an account is saved leaves the tab without an active
  account and the storage with one. `QuietStateAgrees` has the hypothesis that calls are
  made one after the other.
- `removePeer` in a tab that has neither an active account nor a transport waits
  until somebody pairs (`DAppClient.ts:1217`), and removes the wallet then.
- In `setDefaultAccountAndNetwork` (`WalletConnectCommunicationClient.ts:1320`)
  the first account and the required network need not belong together.
- A permission request stays waiting when its page's session is ended by the
  wallet before an account was granted. A page that lost the first election
  awaits it inside `MultiTabChannel.init`. A request the leader refuses to send for
  another page leaves that page without an answer. `wasLeader` stays false in a page that
  leads through `getLeadership`, so closing it announces no `LEADER_DEAD`. A
  request the leader holds for another page may go out in a later session.
- A method takes its source account before it awaits `init()`; the permission
  check reads the account that is active by then. Version 3 requests and those
  of followers have no such check. A link to the block explorer closes
  whatever toast is shown when it is opened.
- On a phone the long list of wallets can be used while a handler of another
  wallet still runs, which is why `ShownCodeFits` speaks of handlers. The deep
  link of a wallet with several entries is that of the last one. A handler of a
  closed alert still opens its link.
- A permission answered after its peer was removed is stored. Overlapping storage
  calls lose updates: `UndisturbedCallsAreAtomic` holds for calls alone.

## 5. What is proved

`RequestFlowProofs` holds for all constants that satisfy `RequestFlowAssumption`:
any dApps, requests, kinds, versions and faults.

The inductive invariant is

    IInv == TypeOK /\ IdleRequestsAreUnknown
                   /\ GoneRequestsAreForgotten /\ AnswersWereGiven

`TypeOK` alone is inductive: `pendingRequests[r]` stays in `0..1` because
`ReceiveRequest` pushes only what is not pending. The refinement is not, and
needs the rest. `AnswersWereGiven` follows an answer from `respond` through the
interceptor, the channel and `handleResponse` into the promise: wherever it is,
the user gave it to that request. `IdleRequestsAreUnknown` lets the abstract
"answer" step require that the request was made. `GoneRequestsAreForgotten`
keeps an answer that arrives after a reload from settling an abandoned request.

| Theorem | Statement | Argument |
|---|---|---|
| `TypeCorrect` | `Spec => []TypeOK` | one step per action |
| `InvariantHolds` | `Spec => []IInv` | one lemma per conjunct |
| `RequestsImplementRequestResponse` | `Spec => ImplementsRequestResponse` | under `IInv` each action is an abstract step or a stutter (`NextRefines`) |
| `AccountsAreApproved` | `Spec => []AccountNeedsApproval` | with a lemma that a permission promise is resolved by "approve" only, since "invalid" is never sent |
| `WaitingRequestsStayOpen` | `Spec => []WaitingRequestsAreOpen` | entries are deleted only together with settling |
| `WrappedAnswersAloneStay` | `Spec => []OnlyWrappedStay` | a settled request stays in the map only if it is wrapped and was resolved (item 2 of section 4): errors and version 2 answers are deleted under the right id |
| `OpenRequestsAreOpen` | `Spec => []OpenRequestsAwaitResponse`, if all `Version[r] = "2"` | from the one before |
| `RequestsAreAnsweredOnce` | `Spec => []OneAnswer` | `AnswersAreCounted`: while a request is on its way or pending it has no answer, and answering takes the pending entry |
| `UncheckedRequestsReachApp` | `Spec => [](\A r \in Requests : NeedsNoMetadata(r) => ReachesApp(r))` | a permission request or a wrapped message leaves the interceptor for the app only |
| `AcknowledgedRequestsReachApp` | `Spec /\ []StoresDoNotOverlap => []PendingReachesApp` | `MetadataStays`: a dApp with an account has its metadata stored; `CopiesAreCurrent`: a copy of the list lacks at most the sender it is written back for |
| `OneDAppsRequestsReachApp` | `Spec => []PendingReachesApp`, if `OneDAppAsks` | then no two stores of different dApps overlap |
| `PairedDAppsAreAnswered` | `Spec => []StrayAnswersWereRemoved` | `RemovalsAreAllowed`: a dApp that is not `Removable` stays a peer of the wallet |
| `WalletHearsPeers` | `Spec /\ [][NobodyDisconnects]_vars => []ConnectedWalletHearsPeers` | `ListenersHear`: every callback is subscribed, also after a restart |

Some of these say where a disagreement of section 4 ends. Each interceptor call writes
back the metadata list it has read, so that two that overlap lose the metadata of one
dApp, and a version 2 operation of that dApp is then acknowledged and never shown
(item 3). `StoresDoNotOverlap` says just that no calls of two dApps are between reading
and writing at once; with it everything that is acknowledged is shown, and without it
everything that needs no metadata. `OneDAppAsks`, that one dApp asks for permissions, is
a condition on the constants that implies it. A stray answer is one to a dApp that may
be removed (item 1), and a deaf wallet has handled a Disconnect (item 4).

`ActiveAccountProofs` holds for all constants that satisfy
`ActiveAccountAssumption`: any tabs, accounts and wallets and any number of calls.
Its first invariant is `IInv == TypeOK /\ \A c \in Calls : Formed(calls[c])`. `TypeOK`
is not inductive, since what `Add` puts into the storage must be an account:
`Formed` says that a permission response keeps its account until then, and that
calls under way belong to a tab.

| Theorem | Statement | Argument |
|---|---|---|
| `TypeCorrect` | `Spec => []TypeOK` | one step per action, over lemmas on what a step does to the calls |
| `TransportsAreSelected` | `Spec => []TransportIsSelected` | with the next one: an account becomes active in the step that starts to select its transport |
| `AwaitedTransportsCome` | `Spec => []AwaitedTransportComes` | a `setActiveAccount` that finds no transport for an active account finds one being selected, and whoever sets it wakes all that wait; only a `removePeer` waits without |
| `OrderlyCallsAgree` | `Spec => []QuietStateAgrees` | `OrderInv`: until calls overlap, one call leads or all tabs follow |

`OrderInv` is what makes calls one after the other safe although the storage
events of one may still be under way when the next begins. A call *leads* from its
first step to its last wait before it saves: it is the only one that runs, and all
other tabs have what is stored. When it has saved, or removed, all that is under way
*follows*: each tab has what is stored, or hears of it, and every call that is left
is about that account.

`WalletStorageProofs` holds for any dApps, accounts, calls and earlier
permissions. What makes it true of calls that overlap is that a copy in `read`
has the property of the list it was read from: `PermissionsWereGranted` is
inductive together with `CopiesGranted` (copies of the list hold granted
permissions) and `AnswersGranted` (a call that answers has an approval),
`OneTokenPerAccount` with `Registering`: a call that asks for a token holds a
copy without one for its account, however old the copy is by then.

`UndisturbedCallsAreAtomic`, an action property, is the converse: a call that
nothing overlaps acts as one step. `AloneInv` says, for each kind of call and each
of its steps, what is in the storage and in its copies compared with what was
stored when it began; a removal of peers has two positions, as it removes the peer
and the permissions side by side. That the last step then leaves `Atomically(c,
before)` is a lemma for each way to end.

| Theorem | Statement | Argument |
|---|---|---|
| `PermissionsGranted` | `Spec => [](TypeOK /\ PermissionsWereGranted)` | one step per action; a write puts back a copy, less or more what was granted |
| `OneTokenEach` | `Spec => []OneTokenPerAccount` | what is written is such a copy and one token more |
| `UndisturbedCallsAreWhole` | `Spec => UndisturbedCallsAreAtomic` | `AloneInv`, and what each last step makes of it |

`WCClientProofs` holds for any messages, sessions and namespaces. `SessionIsLiveOrClosing`
is inductive: every step that loses the session in use starts to forget it.
`NoIdAnsweredTwice` is inductive with `QueueHasNoDoubles` and `NewIdsAreUnused`: the
queue has no id twice, and the id of a message that was not sent is neither in it
nor in an answer. `OrderlyAnswersMatch` needs `OrderInv`: as long as nothing failed
and nothing was overtaken, the queue is the newest part of the requests as they were
sent, in reverse, and those are the requests that wait.

| Theorem | Statement | Argument |
|---|---|---|
| `TypeCorrect` | `Spec => []TypeOK` | one step per action; `Popped` and `Oldest` by lemma |
| `SessionsAreLiveOrClosing` | `Spec => []SessionIsLiveOrClosing` | one step per action |
| `IdsAreGivenOnce` | `Spec => []NoIdAnsweredTwice` | `pop()` removes the one occurrence of the id it returns |
| `OrderlyAnswersAreMatched` | `Spec => []OrderlyAnswersMatch` | the id `pop()` returns is that of the oldest request that waits |

`TabsProofs` holds for any pages and calls. The invariant `AskInv` follows a request
from the page that makes it: unmade, it is unknown to all; on its way to a page, it
was sent neither by that page nor by the one that made it, and is not held there;
held, it is held by the leader, which has not sent it; checked, it is about to be sent by
one page that has not sent it; and who awaits the wallet's
answer made the call or leads. A message of the channel is taken once (`Once`),
which makes the steps from one stage to the next exclusive. The actions that have
nothing to do with requests are covered by one lemma (`CalmStep`).

| Theorem | Statement | Argument |
|---|---|---|
| `RequestsAreAskedOnce` | `Spec => []SentOnce` | one lemma per way to move a request: `OwnStep`, `PostStep`, `TakeStep`, `ForwardStep` |
| `TypeCorrect` | `Spec => []TypeOK` | `AccountInv`: with the types, that a closed page has nothing in memory and nothing is on its way to it |
| `QuietPagesAgree` | `Spec => []PagesAgree` | `FollowInv`: until changes overlap, an account is being set everywhere or cleared everywhere, and a page that has heard every storage event has what is stored, or is about to store or to clear it |
| `EndedSessionsRejectCalls` | `Spec => []CutOffPagesDoNotWait` | `WaitInv`: until changes overlap, an operation that passed the checks, is on its way into `openRequests` or waits there is in a page with an account, which has a transport; what takes the account away rejects the open requests |

`FollowInv` and `WaitInv` are implications: they say nothing once `overlaps` is not 0,
and have to be kept up only by steps that leave it so. What begins a change does that
when everything is at rest (`AtRest`), which is what makes `Setting` or `Ending` true
then. `WaitInv` has one part for each page (`TabInv`), and one frame lemma (`ApartStep`)
says that a step of a page leaves the parts of the others as they are.

`P2PClientProofs` holds for any peers, messages, servers and resets. That a message
is handled once and once more per reset is a matter of credit: `Paid(m)` bounds what
was spent on `m` (`Spent`, handled or being handled) and what is left to it without
a reset (`Left`: once if a client that polls or comes late, or one that starts with the
stored token, has yet to read it, and once if it may be the initial event of a callback that is not
subscribed). A step that spends takes from what is left, and only a reset makes a
message unread. It rests on `PageInv`: each message is on the timeline once, and a
callback that waits is noted, so that none is subscribed twice.

| Theorem | Statement | Argument |
|---|---|---|
| `TypeCorrect` | `Spec => []TypeOK` | one step per action |
| `ServersAreStored` | `Spec => []ServerIsStored` | `FoundServerIsStored`: the promise of the server is resolved after it was written, and a client that is there has awaited it, unless a `start()` came late |
| `ResetsAloneReplay` | `Spec => []HandledOncePerReset` | `ResetsPay`, one lemma per action |

The same module has the theorems about `MatrixRooms`, for any servers, messages, rooms,
rejoins and reloads. A room is *shared* by a client and a server of its peer if each of
the two addresses is in it or invited (`Shared`). What a client has recorded is shared
because all that it records it took from something that is: `RoomsInv` says of the relay
(`RelayInv`) that nobody leaves a room and that only members write, of what a client
knows of a room (`KnownInv`) that the members it lists are in it, of a task (`TaskInv`)
that the room it goes on with and the list of rooms it read before it awaited are
shared, and of the recorded rooms (`RecordInv`) the same. A task may write back a list
that is older than the record, which does not matter: a room that was shared stays
shared while the client is logged in at its server, and a login at another one
drops the records and the tasks. When the peer moves, its old address stays in the room.
`HomeInv` and `CountInv` are types.

| Theorem | Statement | Argument |
|---|---|---|
| `RoomsTypeCorrect` | `RoomsSpec => []RoomsTypeOK` | one lemma per action |
| `RecordsAreShared` | `RoomsSpec => []RecordedRoomsAreShared` | `RoomsInv`; rooms only gain members and invitations of the other client |

`DAppCallsProofs` holds for any calls, kinds, limits, windows and times.
`RateLimitHolds` is inductive with `SentIsCounted`: what was sent within the window
is still in the limiter's list, which is checked before it grows. The properties of
the toast rest on `ToastFollowsCalls`, about the toast that will be shown when the
delays are over: it is one that may stay, or awaits the wallet with a call that waits
or astray, and its timer is the one that runs. A call that goes on to wait emits an
event, and one that ends does, too, or makes the toast one that is astray.

| Theorem | Statement | Argument |
|---|---|---|
| `TypeCorrect` | `Spec => []TypeOK` | one step per action |
| `SendingIsLimited` | `Spec => []RateLimitHolds` | a window that ends later than now has only what is counted, an earlier one gets nothing more |
| `NoToastAwaitsInVain` | `Spec => []QuietToastAwaitsNothing` | each way a call ends emits an event that replaces the toast, or is noted in `astray` |
| `LeftToastsClose` | `Spec => []LeftToastTimesOut` | the toasts that may stay, and the timer of the latest one |

`PairingProofs` holds for any number of calls, attempts, generations of transports
and codes, and for relays that fail. In its invariant `IInv`, `ShownAttemptListens`
says of the alert that is open, or will be when it is rendered, that its attempt
listens on the transports its codes belong to; `BuiltInOrder` that one attempt at a
time builds transports, which is why a generation is not replaced under it;
`Awaited` that every attempt has a call that waits for it or went on, and
`SelectedForACall` that a transport is selected only when such a call goes on.
`CodesFollowAlerts` says that an attempt has no code before its alert and no P2P code
while it starts the client, `UsedIsServed` that the P2P transport of an attempt hears,
starts or could not be reached: an attempt that finds it in use need not connect it.

| Theorem | Statement | Argument |
|---|---|---|
| `TypeCorrect` | `Spec => []TypeOK` | one step per action |
| `OfferedCodesAreHeard` | `Spec => []ShownCodesAreHeard` | `ShownAttemptListens`, `UsedIsServed`; what takes a listener away closes the alert in the same step |
| `SelectionIsCurrent` | `Spec => []SelectedTransportIsCurrent` | an answer selects what the client has by then, and what replaces a transport unselects it |
| `AnsweredAlertsClose` | `Spec => []PairedAlertIsClosed` | resolving an attempt hides the alert in the same step |
| `AnswersStartACall` | `Spec => []PairingStartsACall` | `Awaited`, `SelectedForACall` |
| `PairingUsesAlert` | `Spec => RootInit /\ AlertIsUsedAsAssumed` | one step per action, under `IInv`: `CodesFollowAlerts` gives that a code is pending when it is set |
| `AlertTypeCorrect` | `AlertSpec => []AlertTypeOK` | one lemma per action |
| `ShownCodesFit` | `AlertSpec => []ShownCodeFits` | `ViewInv` |

The last two are about `PairingAlert`, for any lists of wallets, devices and alerts.
`ViewInv` says that what is shown, and a handler that can still set the state, is of the
attempt whose alert is open (`CodesAreOfTheAlert`); what a handler of each kind has
captured (`HandlersFit`); and that the view of a WalletConnect wallet knows whether its
code came (`InstallIsKnown`). That a code also fits the wallet chosen last needs
`OneChoice`, which holds unless a phone shows the long list (`Orderly`): at most one
handler that chooses runs, it is of the wallet chosen last and the list it was chosen
from is disabled, and a code of another standard is on the screen only while it runs.

Some definitions were changed for these proofs. The guards of the CASE in
`Tabs!Paired` overlapped, so that the formula left open what TLC decided by the
order they are written in. `AlertRoot` now assumes that the number of an
attempt is not `None`. `Pairing` was wrong about the P2P client: it started a transport
again whose start had failed, and set a code that was settled; stating
`AlertIsUsedAsAssumed` showed it (item 12 of section 4 is what the code does instead).
`ShownCodeFits` has been made stronger: it said nothing of which attempt a code is of.

Only model-checked: the liveness properties `EveryRequestSettles`,
`SubscribedMessagesAreHandled`, `PairingCompletes`, `MessagesArrive` and
`HeardRequestsSettle`, which rest on fairness and so are beyond the prover. Every other
property of a passing run is a theorem, two of them with a hypothesis: that all requests are
of version 2 (`OpenRequestsAwaitResponse`) and that stores of metadata do not overlap
(`PendingReachesApp`); what holds without it is `WrappedAnswersAloneStay` and
`UncheckedRequestsReachApp`.

## 6. What is not modelled

- Cryptography, serialisation, storage backends, migrations (`migrate` is
  commented "This is not used yet"), message types, blockchain packages: pure
  data or input/output. What the user chooses is nondeterministic in the models.
- The ordering of writes inside one storage call, and storage that fails.
- Metrics, wallet information, the push backend beyond success and failure, the
  login counter and the ranking of relay servers.
- The relays, the WalletConnect sign client, the election library and the browser
  are external: a relay keeps messages and answers with those after the token,
  an elector gives the leadership to one page at a time, storage events reach
  the other pages in order.
- Layout, texts, translation, the data of the wallet lists, and the buttons of
  alerts other than the pairing alert. Toasts: fewer than 17 requests in a streak
  are assumed, where a delay is still shorter than the wait for the next one.
- WalletConnect pings, deep links and the extension of sessions as a clock;
  mobile browsers, where every page acts as the leader of `Tabs`.
- In `ActiveAccount`: accounts of extension wallets and `destroy`.
- In `P2PClient`: looking up the relay server is one step with starting, and two
  dropped clients whose token and callbacks are equal count as one.
- In `MatrixRooms`: a `disconnect()` in the middle of handlers that go on with the ids
  they hold; the reset that is modelled (`Move`) is followed by loading the page again.
- In `Tabs`: `resetInvalidState` is one step, and the sign client starts when it is
  asked to.
- In `PairingAlert`: a QR view that is rendered without a code, which then awaits and
  shows the P2P code (`setCodeQr`).
- In `DAppCalls`: a second acknowledgement of a call that waits, which changes nothing
  the first one did not, and `openRequests` being cleared by a disconnect (`Tabs`).

## 7. What is left

In this order:

1. `Tabs` with mobile browsers, and composed with the accounts of `ActiveAccount`.
2. `removeAllPeers` in `Pairing`, when its listeners outlive it.
