---------------------------- MODULE RequestFlow ----------------------------
(***************************************************************************)
(* The life of a request between dApps (DAppClient) and one wallet         *)
(* (WalletClient) over the peer-to-peer transport, from makeRequest to the *)
(* promise the dApp's code awaits.                                         *)
(*                                                                         *)
(* Both sides are single threaded, so a step is the code between two       *)
(* awaits; everything that can happen while a handler awaits happens as    *)
(* other steps.  Messages in flight are sets: they are delivered in any    *)
(* order, a message that is never delivered is a lost one, and with        *)
(* Duplicates a delivered message may be delivered again.                  *)
(***************************************************************************)
EXTENDS Naturals, FiniteSets, ExposedPromise

CONSTANTS
  DApps,       \* the dApps that have paired with the wallet
  Requests,    \* message ids; generateGUID never draws one twice
  Sender,      \* the dApp that draws each id
  Kind,        \* "permission" or "operation", which stands for the
               \* requests that need an active account
  Version,     \* "2", or "3" for the wrapped blockchain messages
  AppAnswers,  \* what the wallet's app passes to respond()
  Duplicates,  \* may a message be delivered more than once?
  Removable,   \* the dApps whose pairing either side may remove
  Restarts     \* may a page be reloaded or the wallet app restarted?

\* "invalid" is an approval whose address the wallet rejects.
Answers == {"approve", "abort", "invalid"}

ASSUME RequestFlowAssumption ==
  /\ Sender \in [Requests -> DApps]
  /\ Kind \in [Requests -> {"permission", "operation"}]
  /\ Version \in [Requests -> {"2", "3"}]
  /\ AppAnswers \subseteq Answers
  /\ Duplicates \in BOOLEAN
  /\ Removable \subseteq DApps
  /\ Restarts \in BOOLEAN

VARIABLES
  \* --- the dApps
  phase,           \* how far makeRequest got with each id
  promise,         \* the ExposedPromise that makeRequest returns
  openRequests,    \* ids in the openRequests map of their dApp
  settling,        \* permission responses whose handler stores the metadata
  account,         \* does the dApp have an active account?
  walletPeer,      \* does the dApp have the wallet as a peer?
  forgetting,      \* is the dApp between removing the peer and its accounts?
  \* --- messages in flight
  toWallet,        \* requests
  byeToWallet,     \* dApps whose Disconnect is on its way
  toDApp,          \* acknowledgements and answers
  byeToDApp,       \* dApps a Disconnect is on its way to
  \* --- the wallet
  connected,       \* is the transport connected?
  peers,           \* the wallet's peers, which are in its storage
  activeListeners, \* peers the P2P client has a callback for
  subscribed,      \* those whose callback the current Matrix client calls
  pendingRequests, \* number of entries for each id
  intercepting,    \* IncomingRequestInterceptor calls under way
  appMetadata,     \* dApps in the stored metadata list
  prompted,        \* ids the app was given by newMessageCallback
  composing,       \* OutgoingResponseInterceptor calls looking up metadata
  sending,         \* respondToMessage calls that have not sent yet
  answered         \* history: what the app answered to each id

dAppVars == <<phase, promise, openRequests, settling, account, walletPeer,
              forgetting>>
channelVars == <<toWallet, byeToWallet, toDApp, byeToDApp>>
linkVars == <<connected, peers, activeListeners, subscribed>>
walletVars == <<linkVars, pendingRequests, intercepting, appMetadata, prompted,
                composing, sending, answered>>
vars == <<dAppVars, channelVars, walletVars>>

Bodies == {"acknowledge"} \cup Answers
Nothing == "nothing"

TypeOK ==
  /\ phase \in [Requests -> {"idle", "opened", "sent", "done", "gone"}]
  /\ promise \in [Requests -> Promise(Answers \cup {Nothing})]
  /\ openRequests \subseteq Requests
  /\ settling \subseteq Requests \X Answers
  /\ account \in [DApps -> BOOLEAN]
  /\ walletPeer \in [DApps -> BOOLEAN]
  /\ forgetting \in [DApps -> {"no", "local", "remote"}]
  /\ toWallet \subseteq Requests
  /\ byeToWallet \subseteq DApps
  /\ toDApp \subseteq DApps \X Requests \X Bodies
  /\ byeToDApp \subseteq DApps
  /\ connected \in BOOLEAN
  /\ peers \subseteq DApps
  /\ activeListeners \subseteq DApps
  /\ subscribed \subseteq DApps
  /\ pendingRequests \in [Requests -> 0..1]
  /\ intercepting \subseteq
       Requests \X {"intercept", "store"} \X SUBSET DApps
  /\ appMetadata \subseteq DApps
  /\ prompted \subseteq Requests
  /\ composing \subseteq Requests \X Answers
  /\ sending \subseteq Requests \X Bodies
  /\ answered \in [Requests -> SUBSET Answers]

Init ==
  /\ phase = [r \in Requests |-> "idle"]
  /\ promise = [r \in Requests |-> NewPromise(Nothing)]
  /\ openRequests = {}
  /\ settling = {}
  /\ account = [d \in DApps |-> FALSE]
  /\ walletPeer = [d \in DApps |-> TRUE]
  /\ forgetting = [d \in DApps |-> "no"]
  /\ toWallet = {}
  /\ byeToWallet = {}
  /\ toDApp = {}
  /\ byeToDApp = {}
  /\ connected = TRUE
  /\ peers = DApps
  /\ activeListeners = DApps
  /\ subscribed = DApps
  /\ pendingRequests = [r \in Requests |-> 0]
  /\ intercepting = {}
  /\ appMetadata = {}
  /\ prompted = {}
  /\ composing = {}
  /\ sending = {}
  /\ answered = [r \in Requests |-> {}]

\* What is left in flight after one delivery of m.
Delivered(m, channel) == IF Duplicates THEN channel ELSE channel \ {m}

-----------------------------------------------------------------------------
(***************************************************************************)
(* The dApp                                                                *)
(***************************************************************************)

\* Variant: an operation is sent without asking for an active account.
MakeRequestUnchecked(r) ==
  /\ phase[r] = "idle"
  /\ walletPeer[Sender[r]]
  /\ phase' = [phase EXCEPT ![r] = "opened"]
  /\ promise' = [promise EXCEPT ![r] = NewPromise(Nothing)]
  /\ openRequests' = openRequests \cup {r}
  /\ UNCHANGED <<settling, account, walletPeer, forgetting, channelVars,
                 walletVars>>

(***************************************************************************)
(* makeRequest / makeRequestV3 up to addOpenRequest.  A request other than *)
(* a permission request is refused without an active account.  Refusals    *)
(* (no account, no scope, rate limit) leave no trace here.                 *)
(***************************************************************************)
MakeRequest(r) ==
  /\ phase[r] = "idle"
  /\ IF Kind[r] = "permission" THEN walletPeer[Sender[r]]
                               ELSE account[Sender[r]]
  /\ phase' = [phase EXCEPT ![r] = "opened"]
  /\ promise' = [promise EXCEPT ![r] = NewPromise(Nothing)]
  /\ openRequests' = openRequests \cup {r}
  /\ UNCHANGED <<settling, account, walletPeer, forgetting, channelVars,
                 walletVars>>

(***************************************************************************)
(* The rest of makeRequest: serialising, finding the peer and              *)
(* transport.send.  It waits while there is no transport to send with.     *)
(***************************************************************************)
SendRequest(r) ==
  /\ phase[r] = "opened"
  /\ walletPeer[Sender[r]]
  /\ phase' = [phase EXCEPT ![r] = "sent"]
  /\ toWallet' = toWallet \cup {r}
  /\ UNCHANGED <<promise, openRequests, settling, account, walletPeer,
                 forgetting, byeToWallet, toDApp, byeToDApp, walletVars>>

\* The dApp's code settles request r: an Error rejects, the rest resolves.
SettleWith(r, a) ==
  promise' = [promise EXCEPT ![r] =
                IF a = "abort" THEN Reject(@, a) ELSE Resolve(@, a)]

\* Variant: the entry of a request that was rejected stays.
DeleteResolvedRequest(r, a) ==
  openRequests' = IF a = "abort" THEN openRequests ELSE openRequests \ {r}

(***************************************************************************)
(* `this.openRequests.delete(typedMessage.id)`: the inner message of a     *)
(* wrapped (version 3) response has no id; errors are not wrapped.         *)
(***************************************************************************)
DeleteOpenRequest(r, a) ==
  openRequests' = IF Version[r] = "3" /\ a # "abort"
                  THEN openRequests ELSE openRequests \ {r}

\* Variant: the acknowledgement, too, deletes the open request.
ReceiveMessageDeletingAcknowledged(d, r, body) ==
  /\ <<d, r, body>> \in toDApp
  /\ walletPeer[d]
  /\ toDApp' = Delivered(<<d, r, body>>, toDApp)
  /\ LET open == r \in openRequests /\ Sender[r] = d
     IN  \/ /\ ~open
            /\ UNCHANGED <<promise, openRequests>>
         \/ /\ open /\ body = "acknowledge"
            /\ openRequests' = openRequests \ {r}
            /\ UNCHANGED promise
         \/ /\ open /\ body # "acknowledge"
            /\ SettleWith(r, body)
            /\ DeleteOpenRequest(r, body)
  /\ UNCHANGED <<phase, settling, account, walletPeer, forgetting, toWallet,
                 byeToWallet, byeToDApp, walletVars>>

\* Variant: an acknowledgement is taken for an answer.
ReceiveMessageAcknowledged(d, r, body) ==
  /\ <<d, r, body>> \in toDApp
  /\ walletPeer[d]
  /\ toDApp' = Delivered(<<d, r, body>>, toDApp)
  /\ IF r \in openRequests /\ Sender[r] = d
     THEN SettleWith(r, body) /\ DeleteOpenRequest(r, body)
     ELSE UNCHANGED <<promise, openRequests>>
  /\ UNCHANGED <<phase, settling, account, walletPeer, forgetting, toWallet,
                 byeToWallet, byeToDApp, walletVars>>

(***************************************************************************)
(* handleResponse for a message the wallet sent to d.  An acknowledgement  *)
(* only raises an event; an answer to a request that is not open is        *)
(* ignored; a permission response first stores the wallet's metadata.      *)
(***************************************************************************)
ReceiveMessage(d, r, body) ==
  /\ <<d, r, body>> \in toDApp
  /\ walletPeer[d]
  /\ toDApp' = Delivered(<<d, r, body>>, toDApp)
  /\ LET open == r \in openRequests /\ Sender[r] = d /\ body # "acknowledge"
         stores == Kind[r] = "permission" /\ body # "abort"
     IN  \/ /\ ~open
            /\ UNCHANGED <<promise, openRequests, settling>>
         \/ /\ open /\ stores
            /\ settling' = settling \cup {<<r, body>>}
            /\ UNCHANGED <<promise, openRequests>>
         \/ /\ open /\ ~stores
            /\ SettleWith(r, body)
            /\ DeleteOpenRequest(r, body)
            /\ UNCHANGED settling
  /\ UNCHANGED <<phase, account, walletPeer, forgetting, toWallet, byeToWallet,
                 byeToDApp, walletVars>>

\* handleResponse goes on after `await appMetadataManager.addAppMetadata`.
FinishPermission(r, a) ==
  /\ <<r, a>> \in settling
  /\ settling' = settling \ {<<r, a>>}
  /\ SettleWith(r, a)
  /\ DeleteOpenRequest(r, a)
  /\ UNCHANGED <<phase, account, walletPeer, forgetting, channelVars,
                 walletVars>>

\* Variant: the account is stored however the request was settled.
SetAccountOnceSettled(r) ==
  /\ phase[r] = "sent"
  /\ Kind[r] = "permission"
  /\ IsSettled(promise[r])
  /\ phase' = [phase EXCEPT ![r] = "done"]
  /\ account' = [account EXCEPT ![Sender[r]] = TRUE]
  /\ UNCHANGED <<promise, openRequests, settling, walletPeer, forgetting,
                 channelVars, walletVars>>

(***************************************************************************)
(* requestPermissions / permissionRequest continue when their promise is   *)
(* resolved: the account is stored and becomes the active one.             *)
(***************************************************************************)
SetAccount(r) ==
  /\ phase[r] = "sent"
  /\ Kind[r] = "permission"
  /\ IsResolved(promise[r])
  /\ phase' = [phase EXCEPT ![r] = "done"]
  /\ account' = [account EXCEPT ![Sender[r]] = TRUE]
  /\ UNCHANGED <<promise, openRequests, settling, walletPeer, forgetting,
                 channelVars, walletVars>>

\* DAppClient.removePeer(peer, true): the peer is removed first ...
RemoveWallet(d) ==
  /\ d \in Removable
  /\ walletPeer[d]
  /\ forgetting[d] = "no"
  /\ walletPeer' = [walletPeer EXCEPT ![d] = FALSE]
  /\ forgetting' = [forgetting EXCEPT ![d] = "local"]
  /\ UNCHANGED <<phase, promise, openRequests, settling, account, channelVars,
                 walletVars>>

\* ... as it is when a Disconnect of the wallet arrives (handleDisconnect) ...
ReceiveDisconnect(d) ==
  /\ d \in byeToDApp
  /\ walletPeer[d]
  /\ forgetting[d] = "no"
  /\ byeToDApp' = Delivered(d, byeToDApp)
  /\ walletPeer' = [walletPeer EXCEPT ![d] = FALSE]
  /\ forgetting' = [forgetting EXCEPT ![d] = "remote"]
  /\ UNCHANGED <<phase, promise, openRequests, settling, account, toWallet,
                 byeToWallet, toDApp, walletVars>>

(***************************************************************************)
(* ... then removeAccountsForPeerIds removes the accounts of the peer, and *)
(* only then is the peer told.                                             *)
(***************************************************************************)
RemoveAccounts(d) ==
  /\ forgetting[d] # "no"
  /\ account' = [account EXCEPT ![d] = FALSE]
  /\ forgetting' = [forgetting EXCEPT ![d] = "no"]
  /\ byeToWallet' = IF forgetting[d] = "local" THEN byeToWallet \cup {d}
                                               ELSE byeToWallet
  /\ UNCHANGED <<phase, promise, openRequests, settling, walletPeer, toWallet,
                 toDApp, byeToDApp, walletVars>>

(***************************************************************************)
(* The page is reloaded: peers and accounts are in the storage, everything *)
(* else of the DAppClient is lost.                                         *)
(***************************************************************************)
DAppRestart(d) ==
  /\ Restarts
  /\ LET own == {r \in Requests : Sender[r] = d /\
                                  phase[r] \notin {"idle", "gone"}}
     IN  /\ phase' = [r \in Requests |->
                        IF r \notin own THEN phase[r]
                        ELSE IF IsPending(promise[r]) THEN "gone" ELSE "done"]
         /\ openRequests' = openRequests \ own
         /\ settling' = {s \in settling : s[1] \notin own}
  /\ forgetting' = [forgetting EXCEPT ![d] = "no"]
  /\ UNCHANGED <<promise, account, walletPeer, channelVars, walletVars>>

-----------------------------------------------------------------------------
(***************************************************************************)
(* The wallet                                                              *)
(***************************************************************************)

(***************************************************************************)
(* OutgoingResponseInterceptor.  A wrapped message is handed on as it is.  *)
(* Everything of version 2 gets the sender and goes out at once, but a     *)
(* permission response, which is composed first (ComposePermission).       *)
(***************************************************************************)
HandleV3Response(r, m) ==
  /\ sending' = sending \cup {<<r, m>>}
  /\ UNCHANGED composing

HandleV2Response(r, m) ==
  IF Kind[r] = "permission" /\ m \notin {"abort", "acknowledge"}
  THEN /\ composing' = composing \cup {<<r, m>>}
       /\ UNCHANGED sending
  ELSE /\ sending' = sending \cup {<<r, m>>}
       /\ UNCHANGED composing

InterceptResponse(r, m) ==
  IF Version[r] = "2" THEN HandleV2Response(r, m) ELSE HandleV3Response(r, m)

\* sendAcknowledgeResponse, which is not awaited.
SendAcknowledgeResponse(r) == InterceptResponse(r, "acknowledge")

\* Variant: a request that is pending already is pushed again.
ReceiveRequestAgain(r) ==
  /\ r \in toWallet
  /\ connected
  /\ Sender[r] \in subscribed
  /\ toWallet' = Delivered(r, toWallet)
  /\ pendingRequests' = [pendingRequests EXCEPT ![r] = @ + 1]
  /\ intercepting' = intercepting \cup {<<r, "intercept", {}>>}
  /\ sending' = sending \cup {<<r, "acknowledge">>}
  /\ UNCHANGED <<dAppVars, byeToWallet, toDApp, byeToDApp, linkVars,
                 appMetadata, prompted, composing, answered>>

(***************************************************************************)
(* The handler connect() installs.  A request that is already pending is   *)
(* dropped; otherwise it is pushed, an acknowledgement is sent without     *)
(* waiting for it, and the interceptor takes over.                         *)
(***************************************************************************)
ReceiveRequest(r) ==
  /\ r \in toWallet
  /\ connected
  /\ Sender[r] \in subscribed
  /\ toWallet' = Delivered(r, toWallet)
  /\ \/ /\ pendingRequests[r] > 0
        /\ UNCHANGED <<pendingRequests, intercepting, composing, sending>>
     \/ /\ pendingRequests[r] = 0
        /\ pendingRequests' = [pendingRequests EXCEPT ![r] = @ + 1]
        /\ intercepting' = intercepting \cup {<<r, "intercept", {}>>}
        /\ SendAcknowledgeResponse(r)
  /\ UNCHANGED <<dAppVars, byeToWallet, toDApp, byeToDApp, linkVars,
                 appMetadata, prompted, answered>>

(***************************************************************************)
(* IncomingRequestInterceptor.  A permission request reads the metadata    *)
(* list to add its sender to it (StorageManager.addOne); an operation of   *)
(* version 2 is handed to the app if its sender's metadata is stored, and  *)
(* otherwise throws away; a wrapped one is handed over as it is.           *)
(***************************************************************************)
InterceptRequest(r, seen) ==
  /\ <<r, "intercept", seen>> \in intercepting
  /\ LET rest == intercepting \ {<<r, "intercept", seen>>}
     IN  \/ /\ Kind[r] = "permission"
            /\ intercepting' = rest \cup {<<r, "store", appMetadata>>}
            /\ UNCHANGED prompted
         \/ /\ Kind[r] = "operation"
            /\ intercepting' = rest
            /\ prompted' = IF Version[r] = "3" \/ Sender[r] \in appMetadata
                           THEN prompted \cup {r} ELSE prompted
  /\ UNCHANGED <<dAppVars, channelVars, linkVars, pendingRequests,
                 appMetadata, composing, sending, answered>>

\* Variant: the list that was read is written back as it was.
StoreMetadataUnchanged(r, seen) ==
  /\ <<r, "store", seen>> \in intercepting
  /\ intercepting' = intercepting \ {<<r, "store", seen>>}
  /\ appMetadata' = seen
  /\ prompted' = prompted \cup {r}
  /\ UNCHANGED <<dAppVars, channelVars, linkVars, pendingRequests,
                 composing, sending, answered>>

\* The list that was read is written back with the sender in it.
StoreMetadata(r, seen) ==
  /\ <<r, "store", seen>> \in intercepting
  /\ intercepting' = intercepting \ {<<r, "store", seen>>}
  /\ appMetadata' = seen \cup {Sender[r]}
  /\ prompted' = prompted \cup {r}
  /\ UNCHANGED <<dAppVars, channelVars, linkVars, pendingRequests,
                 composing, sending, answered>>

\* Variant: the entry is not removed when the request is answered.
RespondKeepingRequest(r, a) ==
  /\ r \in prompted
  /\ a = "invalid" => Kind[r] = "permission" /\ Version[r] = "2"
  /\ pendingRequests[r] > 0
  /\ answered' = [answered EXCEPT ![r] = @ \cup {a}]
  /\ sending' = sending \cup {<<r, a>>}
  /\ UNCHANGED <<dAppVars, channelVars, linkVars, pendingRequests,
                 intercepting, appMetadata, prompted, composing>>

(***************************************************************************)
(* respond(): the app answers a request it was handed.  Without a pending  *)
(* entry the call throws; otherwise the entry is removed before the answer *)
(* is composed and sent.                                                   *)
(***************************************************************************)
Respond(r, a) ==
  /\ r \in prompted
  /\ a = "invalid" => Kind[r] = "permission" /\ Version[r] = "2"
  /\ pendingRequests[r] > 0
  /\ pendingRequests' = [pendingRequests EXCEPT ![r] = 0]
  /\ answered' = [answered EXCEPT ![r] = @ \cup {a}]
  /\ InterceptResponse(r, a)
  /\ UNCHANGED <<dAppVars, channelVars, linkVars, intercepting,
                 appMetadata, prompted>>

(***************************************************************************)
(* handleV2Message of the OutgoingResponseInterceptor for a permission     *)
(* response: it throws, to nobody, when the address is invalid or the      *)
(* metadata of the requester is not stored.                                *)
(***************************************************************************)
ComposePermission(r, a) ==
  /\ <<r, a>> \in composing
  /\ composing' = composing \ {<<r, a>>}
  /\ sending' = IF a # "invalid" /\ Sender[r] \in appMetadata
                THEN sending \cup {<<r, a>>} ELSE sending
  /\ UNCHANGED <<dAppVars, channelVars, linkVars, pendingRequests,
                 intercepting, appMetadata, prompted, answered>>

(***************************************************************************)
(* respondToMessage: the peer is looked up by the key the request came     *)
(* from; without a peer, transport.send sends to every known peer.         *)
(***************************************************************************)
SendToDApp(r, body) ==
  /\ <<r, body>> \in sending
  /\ connected
  /\ sending' = sending \ {<<r, body>>}
  /\ LET recipients == IF Sender[r] \in peers THEN {Sender[r]} ELSE peers
     IN  toDApp' = toDApp \cup {<<d, r, body>> : d \in recipients}
  /\ UNCHANGED <<dAppVars, toWallet, byeToWallet, byeToDApp, linkVars,
                 pendingRequests, intercepting, appMetadata, prompted,
                 composing, answered>>

\* Transport.removePeer: with the peer goes its callback.
ForgetPeer(d) ==
  /\ peers' = peers \ {d}
  /\ activeListeners' = activeListeners \ {d}

\* WalletClient.removePeer, called by the app, with or without telling the peer.
RemovePeer(d, sendDisconnectToPeer) ==
  /\ d \in Removable
  /\ d \in peers
  /\ ForgetPeer(d)
  /\ subscribed' = subscribed \ {d}
  /\ byeToDApp' = IF sendDisconnectToPeer THEN byeToDApp \cup {d} ELSE byeToDApp
  /\ UNCHANGED <<dAppVars, toWallet, byeToWallet, toDApp, connected,
                 pendingRequests, intercepting, appMetadata, prompted,
                 composing, sending, answered>>

(***************************************************************************)
(* disconnect(senderId), for a Disconnect of a dApp: the peer is removed   *)
(* and the transport, which all dApps share, is disconnected.  reset()     *)
(* drops the Matrix client, and with it every subscription, but not        *)
(* activeListeners.                                                        *)
(***************************************************************************)
ReceiveDisconnectFrom(d) ==
  /\ d \in byeToWallet
  /\ connected
  /\ d \in subscribed
  /\ byeToWallet' = Delivered(d, byeToWallet)
  /\ ForgetPeer(d)
  /\ subscribed' = {}
  /\ connected' = FALSE
  /\ UNCHANGED <<dAppVars, toWallet, toDApp, byeToDApp, pendingRequests,
                 intercepting, appMetadata, prompted, composing, sending,
                 answered>>

\* listenForEncryptedMessage returns early for a peer that has a callback.
Listen(S) ==
  /\ activeListeners' = activeListeners \cup S
  /\ subscribed' = subscribed \cup (S \ activeListeners)

\* The app calls connect() again, with a new Matrix client.
Connect ==
  /\ ~connected
  /\ connected' = TRUE
  /\ Listen(peers)
  /\ UNCHANGED <<dAppVars, channelVars, peers, pendingRequests, intercepting,
                 appMetadata, prompted, composing, sending, answered>>

(***************************************************************************)
(* The wallet app restarts: peers and metadata are in the storage, the     *)
(* pending requests, the callbacks and everything under way are lost.      *)
(***************************************************************************)
WalletRestart ==
  /\ Restarts
  /\ connected' = FALSE
  /\ activeListeners' = {}
  /\ subscribed' = {}
  /\ pendingRequests' = [r \in Requests |-> 0]
  /\ intercepting' = {}
  /\ prompted' = {}
  /\ composing' = {}
  /\ sending' = {}
  /\ UNCHANGED <<dAppVars, channelVars, peers, appMetadata, answered>>

\* The user pairs d with the wallet again: each side adds the other as a peer.
Pair(d) ==
  /\ connected
  /\ ~walletPeer[d] \/ d \notin peers
  /\ forgetting[d] = "no"
  /\ peers' = peers \cup {d}
  /\ Listen({d})
  /\ walletPeer' = [walletPeer EXCEPT ![d] = TRUE]
  /\ UNCHANGED <<phase, promise, openRequests, settling, account, forgetting,
                 channelVars, connected, pendingRequests, intercepting,
                 appMetadata, prompted, composing, sending, answered>>

-----------------------------------------------------------------------------
DAppNext ==
  \/ \E r \in Requests : MakeRequest(r) \/ SendRequest(r) \/ SetAccount(r)
  \/ \E r \in Requests, a \in Answers : FinishPermission(r, a)
  \/ \E d \in DApps, r \in Requests, body \in Bodies : ReceiveMessage(d, r, body)
  \/ \E d \in DApps : \/ RemoveWallet(d) \/ ReceiveDisconnect(d)
                      \/ RemoveAccounts(d) \/ DAppRestart(d) \/ Pair(d)

WalletNext ==
  \/ \E r \in Requests : ReceiveRequest(r)
  \/ \E r \in Requests, seen \in SUBSET DApps :
       InterceptRequest(r, seen) \/ StoreMetadata(r, seen)
  \/ \E r \in Requests, a \in AppAnswers : Respond(r, a)
  \/ \E r \in Requests, a \in Answers : ComposePermission(r, a)
  \/ \E r \in Requests, body \in Bodies : SendToDApp(r, body)
  \/ \E d \in DApps, tell \in BOOLEAN : RemovePeer(d, tell)
  \/ \E d \in DApps : ReceiveDisconnectFrom(d)
  \/ Connect
  \/ WalletRestart

Next == DAppNext \/ WalletNext

Spec == Init /\ [][Next]_vars

(***************************************************************************)
(* What the event loops and the transport are assumed to do: a handler     *)
(* that awaits is resumed, a message in flight is delivered, and the user  *)
(* of the wallet answers what the app shows.                               *)
(***************************************************************************)
Fairness ==
  /\ \A r \in Requests :
       /\ WF_vars(SendRequest(r))
       /\ WF_vars(ReceiveRequest(r))
       /\ WF_vars(\E seen \in SUBSET DApps :
                    InterceptRequest(r, seen) \/ StoreMetadata(r, seen))
       /\ WF_vars(\E a \in AppAnswers : Respond(r, a))
       /\ WF_vars(\E a \in Answers : ComposePermission(r, a))
       /\ WF_vars(\E a \in Answers : FinishPermission(r, a))
       /\ \A body \in Bodies :
            /\ WF_vars(SendToDApp(r, body))
            /\ \A d \in DApps : WF_vars(ReceiveMessage(d, r, body))

FairSpec == Spec /\ Fairness

-----------------------------------------------------------------------------
(***************************************************************************)
(* Properties                                                              *)
(***************************************************************************)

\* What the dApp's code sees of a request, for the abstract specification.
Outcome(r) ==
  IF phase[r] \in {"idle", "gone"} THEN phase[r]
  ELSE IF IsPending(promise[r]) THEN "waiting" ELSE promise[r].value

Abstract == INSTANCE RequestResponse
              WITH outcome <- [r \in Requests |-> Outcome(r)]

(***************************************************************************)
(* Every request is settled at most once, for good, and with an answer the *)
(* user gave to that request, whatever the transport duplicates, reorders  *)
(* or delivers to the wrong dApp, and whoever restarts.                    *)
(***************************************************************************)
ImplementsRequestResponse == Abstract!Spec

ReachesApp(r) ==
  pendingRequests[r] > 0 => r \in prompted \/ \E task \in intercepting : task[1] = r

(***************************************************************************)
(* A request that is pending in the wallet, and that no interceptor call   *)
(* is still working on, was handed to the app: an acknowledged request     *)
(* does not vanish between the wallet's list and its user.                 *)
(***************************************************************************)
PendingReachesApp == \A r \in Requests : ReachesApp(r)

(***************************************************************************)
(* The openRequests map holds requests that still wait for an answer:      *)
(* "requests that are currently "open", meaning we have sent them to a     *)
(* wallet and are still awaiting a response".                              *)
(***************************************************************************)
OpenRequestsAwaitResponse ==
  \A r \in openRequests : IsPending(promise[r])

(***************************************************************************)
(* A request a live page waits for can still be settled: its entry is in   *)
(* the openRequests map until the promise is settled.                      *)
(***************************************************************************)
WaitingRequestsAreOpen ==
  \A r \in Requests :
    phase[r] \in {"opened", "sent"} /\ IsPending(promise[r])
      => r \in openRequests

(***************************************************************************)
(* A dApp has an active account only after the user approved one of its    *)
(* permission requests; this is what lets the wallet expect the metadata   *)
(* of a dApp to be stored when an operation arrives.                       *)
(***************************************************************************)
AccountNeedsApproval ==
  \A d \in DApps :
    account[d] => \E r \in Requests : /\ Sender[r] = d
                                      /\ Kind[r] = "permission"
                                      /\ "approve" \in answered[r]

(***************************************************************************)
(* A transport that delivers no message twice gets at most one answer from *)
(* the wallet for each request, however often the app calls respond().     *)
(***************************************************************************)
OneAnswer ==
  ~Duplicates => \A r \in Requests : Cardinality(answered[r]) <= 1

(***************************************************************************)
(* An answer is sent to the dApp that made the request and to no other:    *)
(* "sends a response for a specific request back to the DApp".             *)
(***************************************************************************)
AnswersGoToRequester ==
  \A m \in toDApp : m[1] = Sender[m[2]]

(***************************************************************************)
(* connect() "registers a callback that will be called whenever a message  *)
(* is received": a connected wallet hears every dApp it is paired with.    *)
(***************************************************************************)
ConnectedWalletHearsPeers ==
  connected => peers \subseteq subscribed

(***************************************************************************)
(* On a reliable transport every request that is opened is settled in the  *)
(* end.                                                                    *)
(***************************************************************************)
EveryRequestSettles ==
  \A r \in Requests : phase[r] = "opened" ~> IsSettled(promise[r])

=============================================================================
