----------------------------- MODULE P2PClient -----------------------------
(***************************************************************************)
(* How one client of the peer-to-peer network, a wallet or a dApp, gets    *)
(* the messages its peers send: the P2PTransport connects, the             *)
(* P2PCommunicationClient starts a MatrixClient, which polls the relay     *)
(* with a sync token that is kept in the storage, and hands new messages   *)
(* to the callbacks of the peers it listens to.  Which relay server that   *)
(* is, getRelayServer finds out: the stored one, or the fastest of those   *)
(* that answer a probe, which also selects the region of the client.       *)
(*                                                                         *)
(* The relay is external: it keeps all messages to this client in one      *)
(* timeline and answers a sync with those after the token, or with all it  *)
(* has when there is no token.  Rooms are left out, and so are polls that  *)
(* fail, which change nothing and are repeated.                            *)
(*                                                                         *)
(* Nothing keeps a page from disconnecting while start() is still waiting  *)
(* for the relay.  The start() that is overtaken so goes on, and what it   *)
(* does when it ends it does to whatever the client is by then.            *)
(***************************************************************************)
EXTENDS Naturals, Sequences

CONSTANTS
  Messages,   \* the messages the peers send, each of them once
  Peers,      \* the peers this client can have
  From,       \* the peer that sends each message
  Known,      \* the peers it has from the start
  MaxResets,  \* bound: how often the client is reset
  None        \* stands for undefined

ASSUME P2PClientAssumption ==
  /\ From \in [Messages -> Peers]
  /\ Known \subseteq Peers
  /\ MaxResets \in Nat
  /\ None \notin Messages
  /\ None \notin Nat

VARIABLES
  timeline,        \* the messages the relay has for this client
  stored,          \* the sync token in the storage
  peers,           \* the peers in the storage
  node,            \* is a server stored (MATRIX_SELECTED_NODE)?
  relay,           \* the promise relayServer: "none", "pending" or "known"
  region,          \* is the selectedRegion set?
  conn,            \* "off", "starting" while connect() waits for start(), "on"
                   \* with a MatrixClient; or, when start() failed, "stuck" or,
                   \* if connect() went on without it, "deaf"
  token,           \* the sync token of the MatrixClient
  late,            \* the start() calls a disconnect has overtaken, each with the
                   \* number of that reset and the sync token of its MatrixClient
  abandoned,       \* clients that were dropped but still poll: their sync token, the
                   \* peers whose callback they call, and if the initialListener
                   \* hears them
  activeListeners, \* peers that have a callback
  listening,       \* where listenForEncryptedMessage is for each peer
  subscribed,      \* peers whose callback the MatrixClient calls
  initialOn,       \* is the initialListener subscribed to the MatrixClient? "no",
                   \* "yes", or "kept" when nobody can unsubscribe it any more
  initialEvent,    \* the newest message it saw
  handling,        \* messages a callback is decrypting
  cameLate,        \* history: has a start() that was overtaken ended in this page?
  handled,         \* history: how often each message was given to the transport
  resets           \* history: the number of resets

relayVars == <<relay, region>>
startVars == <<late, cameLate>>
pageVars == <<conn, relayVars, token, startVars, abandoned, activeListeners, listening,
              subscribed, initialOn, initialEvent, handling>>
vars == <<timeline, stored, peers, node, pageVars, handled, resets>>

Tokens == 0..Len(timeline) \cup {None}

\* A client that polls.
Client == [token : Tokens \ {None}, subs : SUBSET Peers, hears : BOOLEAN]

TypeOK ==
  /\ timeline \in Seq(Messages)
  /\ stored \in Tokens
  /\ peers \subseteq Peers
  /\ node \in BOOLEAN
  /\ relay \in {"none", "pending", "known"}
  /\ region \in BOOLEAN
  /\ conn \in {"off", "starting", "on", "stuck", "deaf"}
  /\ token \in Tokens
  /\ late \subseteq (1..MaxResets) \X Tokens
  /\ abandoned \subseteq Client
  /\ activeListeners \subseteq Peers
  /\ listening \in [Peers -> {"no", "waiting", "finishing"}]
  /\ subscribed \subseteq activeListeners
  /\ initialOn \in {"no", "yes", "kept"}
  /\ initialEvent \in Messages \cup {None}
  /\ handling \subseteq Messages
  /\ cameLate \in BOOLEAN
  /\ handled \in [Messages -> Nat]
  /\ resets \in 0..MaxResets

\* A page that has just been loaded.
FreshPage ==
  /\ conn' = "off"
  /\ relay' = "none"
  /\ region' = FALSE
  /\ token' = None
  /\ late' = {}
  /\ abandoned' = {}
  /\ activeListeners' = {}
  /\ listening' = [p \in Peers |-> "no"]
  /\ subscribed' = {}
  /\ initialOn' = "no"
  /\ initialEvent' = None
  /\ handling' = {}
  /\ cameLate' = FALSE

Init ==
  /\ timeline = <<>>
  /\ stored = None
  /\ peers = Known
  /\ node = FALSE
  /\ relay = "none"
  /\ region = FALSE
  /\ conn = "off"
  /\ token = None
  /\ late = {}
  /\ abandoned = {}
  /\ activeListeners = {}
  /\ listening = [p \in Peers |-> "no"]
  /\ subscribed = {}
  /\ initialOn = "no"
  /\ initialEvent = None
  /\ handling = {}
  /\ cameLate = FALSE
  /\ handled = [m \in Messages |-> 0]
  /\ resets = 0

-----------------------------------------------------------------------------
(***************************************************************************)
(* The relay                                                               *)
(***************************************************************************)

\* A peer sends m.
Send(m) ==
  /\ \A i \in 1..Len(timeline) : timeline[i] # m
  /\ timeline' = Append(timeline, m)
  /\ UNCHANGED <<stored, peers, node, pageVars, handled, resets>>

\* What a sync with token t returns.
NewSince(t) ==
  IF t = None THEN timeline ELSE SubSeq(timeline, t + 1, Len(timeline))

\* The newest message of a sync, which is the one the initialListener keeps.
Newest(t) ==
  IF NewSince(t) = <<>> THEN initialEvent ELSE NewSince(t)[Len(NewSince(t))]

-----------------------------------------------------------------------------
(***************************************************************************)
(* Starting and stopping                                                   *)
(***************************************************************************)

(***************************************************************************)
(* getRelayServer finds a server: the one it found before, or the stored   *)
(* one if that answers, or the best one of a probe.  A client that has its *)
(* region does not probe again, but takes the result of the promise it has *)
(* just renewed, which is none.                                            *)
(***************************************************************************)
ServerFound ==
  /\ relay # "pending"
  /\ relay = "none" => node \/ ~region
  /\ relay' = "known"
  /\ region' = (region \/ (relay = "none" /\ ~node))
  /\ node' = (node \/ relay = "none")

\* It throws, because no server answers or there is none; nobody is going to
\* resolve the promise, and who asks again waits for it.
ServerNotFound ==
  /\ relay' = IF relay = "none" THEN "pending" ELSE relay
  /\ UNCHANGED <<region, node>>

\* P2PTransport.connect and start(): a new MatrixClient reads the storage.
Connect ==
  /\ conn = "off"
  /\ ServerFound
  /\ conn' = "starting"
  /\ token' = stored
  /\ initialOn' = "yes"
  /\ UNCHANGED <<timeline, stored, peers, startVars, abandoned, activeListeners,
                 listening, subscribed, initialEvent, handling, handled, resets>>

\* connect() fails with the status CONNECTING, so that to call it again is vain.
ConnectFails ==
  /\ conn = "off"
  /\ ServerNotFound
  /\ conn' = "stuck"
  /\ UNCHANGED <<timeline, stored, peers, token, startVars, abandoned, activeListeners,
                 listening, subscribed, initialOn, initialEvent, handling,
                 handled, resets>>

\* Variant: the callback is not noted in activeListeners.
RegisterUnnoted(S) ==
  /\ listening' = [p \in Peers |-> IF p \in S \ activeListeners
                                   THEN "waiting" ELSE listening[p]]
  /\ UNCHANGED activeListeners

(***************************************************************************)
(* listenForEncryptedMessage registers a callback for each peer of S, or   *)
(* returns early, and then waits for the MatrixClient.                     *)
(***************************************************************************)
Register(S) ==
  /\ activeListeners' = activeListeners \cup S
  /\ listening' = [p \in Peers |-> IF p \in S \ activeListeners
                                   THEN "waiting" ELSE listening[p]]

(***************************************************************************)
(* The first sync of a client, which start() waits for: nobody but the     *)
(* initialListener hears what came in while the client was away.  Then     *)
(* connect() listens to all peers in the storage.                          *)
(***************************************************************************)
FirstSync ==
  /\ conn = "starting"
  /\ conn' = "on"
  /\ initialEvent' = Newest(token)
  /\ token' = Len(timeline)
  /\ stored' = Len(timeline)
  /\ Register(peers)
  /\ UNCHANGED <<timeline, peers, node, relayVars, startVars, abandoned, subscribed,
                 initialOn, handling, handled, resets>>

(***************************************************************************)
(* What reset() does at least: the storage is cleared and the promise of   *)
(* the client is a new one; activeListeners is kept.                       *)
(***************************************************************************)
Forget ==
  /\ resets < MaxResets
  /\ resets' = resets + 1
  /\ stored' = None
  /\ node' = FALSE
  /\ initialEvent' = None

\* Variant: the promise of the relay server is kept.
ResetKeepsRelay == Forget /\ UNCHANGED relay

\* reset().
Reset == Forget /\ relay' = "none"

\* start() resets and calls itself without waiting.  The client has its region
\* and its server is forgotten: the second call finds no server.
ResetAndStart == region /\ Forget /\ relay' = "pending"

Waiting == {p \in Peers : listening[p] = "waiting"}

\* Callbacks that wait for a client that is given up wait for ever; those of S
\* that have none yet wait for the next.
Relisten(S) ==
  /\ activeListeners' = activeListeners \cup S
  /\ listening' = [p \in Peers |-> IF p \in S \ activeListeners THEN "waiting"
                                   ELSE IF p \in Waiting THEN "no" ELSE listening[p]]

\* A client with sync token t whose first sync failed is dropped; it may go on polling.
Dropped(t, polls) ==
  IF polls THEN {[token |-> IF t = None THEN 0 ELSE t, subs |-> {}, hears |-> TRUE]} ELSE {}

(***************************************************************************)
(* start() fails, at the login or at the first sync: it resets and throws; *)
(* or it resets and calls itself, in vain, so that connect() goes on.      *)
(***************************************************************************)
StartFails(polls) ==
  /\ conn = "starting"
  /\ \/ Reset /\ conn' = "stuck" /\ Relisten({})
     \/ ResetAndStart /\ conn' = "deaf" /\ Relisten(peers)
  /\ token' = None
  /\ initialOn' = "no"
  /\ abandoned' = abandoned \cup Dropped(token, polls)
  /\ UNCHANGED <<timeline, peers, region, startVars, subscribed, handling, handled>>

(***************************************************************************)
(* P2PTransport.disconnect, at any time: the client, if there is one, is   *)
(* stopped, and reset.  A start() under way is not told.                   *)
(***************************************************************************)
Disconnect ==
  /\ Reset
  /\ conn' = "off"
  /\ token' = None
  /\ late' = IF conn = "starting" THEN late \cup {<<resets', token>>} ELSE late
  /\ Relisten({})
  /\ subscribed' = {}
  /\ initialOn' = "no"
  /\ UNCHANGED <<timeline, peers, region, cameLate, abandoned, handling, handled>>

(***************************************************************************)
(* A start() that was overtaken succeeds.  If no client has come since,    *)
(* its client is the one everybody waits for, even those who have begun a  *)
(* start() of their own, which then comes late; otherwise nobody gets its  *)
(* client, which polls all the same.  Its connect() listens to all peers.  *)
(***************************************************************************)
LateStarts(s) ==
  /\ s \in late
  /\ cameLate' = TRUE
  /\ initialEvent' = Newest(s[2])
  /\ stored' = Len(timeline)
  /\ Register(peers)
  /\ \/ /\ conn = "on"
        /\ late' = late \ {s}
        /\ abandoned' = abandoned \cup Dropped(Len(timeline), TRUE)
        /\ UNCHANGED <<conn, token, initialOn>>
     \/ /\ conn # "on"
        /\ conn' = "on"
        /\ token' = Len(timeline)
        /\ initialOn' = "kept"
        /\ late' = (late \ {s}) \cup (IF conn = "starting" THEN {<<s[1], token>>} ELSE {})
        /\ UNCHANGED abandoned
  /\ UNCHANGED <<timeline, peers, node, relayVars, subscribed, handling, handled, resets>>

\* The client there is polls on, with its callbacks, when its promise is renewed.
Replaced ==
  IF conn = "on"
  THEN {[token |-> token, subs |-> subscribed \cup Waiting, hears |-> initialOn # "no"]}
  ELSE {}

(***************************************************************************)
(* It fails and resets: it renews the promise of the client there is by    *)
(* then, or of the one that is starting.                                   *)
(***************************************************************************)
LateFails(s, polls) ==
  /\ s \in late
  /\ cameLate' = TRUE
  /\ \/ Reset /\ conn' = (IF conn = "on" THEN "deaf" ELSE conn) /\ Relisten({})
     \/ /\ ResetAndStart
        /\ conn' = (IF conn = "starting" THEN conn ELSE "deaf")
        /\ Relisten(peers)
  /\ late' = late \ {s}
  /\ abandoned' = abandoned \cup Dropped(s[2], polls) \cup Replaced
  /\ token' = IF conn = "starting" THEN token ELSE None
  /\ initialOn' = IF conn = "starting" THEN "kept" ELSE "no"
  /\ subscribed' = {}
  /\ UNCHANGED <<timeline, peers, region, handling, handled>>

\* The new messages of a sync with token t that the callbacks of S are called with.
EmittedTo(t, S) ==
  LET new == NewSince(t)
  IN  {new[i] : i \in {j \in 1..Len(new) : From[new[j]] \in S}}

(***************************************************************************)
(* A dropped client polls: it overwrites the token in the storage, calls   *)
(* the callbacks it has, and its initialListener sets the initial event.   *)
(***************************************************************************)
AbandonedSync(c) ==
  /\ c \in abandoned
  /\ NewSince(c.token) # <<>>
  /\ handling' = handling \cup EmittedTo(c.token, c.subs)
  /\ initialEvent' = IF c.hears THEN Newest(c.token) ELSE initialEvent
  /\ abandoned' = (abandoned \ {c}) \cup {[c EXCEPT !.token = Len(timeline)]}
  /\ stored' = Len(timeline)
  /\ UNCHANGED <<timeline, peers, node, conn, relayVars, token, startVars, activeListeners,
                 listening, subscribed, initialOn, handled, resets>>

\* The page is reloaded: only the storage is left.
Reload ==
  /\ FreshPage
  /\ UNCHANGED <<timeline, stored, peers, node, handled, resets>>

-----------------------------------------------------------------------------
(***************************************************************************)
(* Listening                                                               *)
(***************************************************************************)

\* Transport.addPeer, after a pairing.
AddPeer(p) ==
  /\ conn = "on"
  /\ p \notin peers
  /\ peers' = peers \cup {p}
  /\ Register({p})
  /\ UNCHANGED <<timeline, stored, node, relayVars, conn, token, startVars, abandoned,
                 subscribed, initialOn, initialEvent, handling, handled, resets>>

(***************************************************************************)
(* The callback of p is subscribed, and the initial event handed to it if  *)
(* that is less than five minutes old.                                     *)
(***************************************************************************)
Subscribe(p) ==
  /\ conn = "on"
  /\ listening[p] = "waiting"
  /\ listening' = [listening EXCEPT ![p] = "finishing"]
  /\ subscribed' = subscribed \cup {p}
  /\ \/ UNCHANGED handling
     \/ /\ initialEvent # None
        /\ From[initialEvent] = p
        /\ handling' = handling \cup {initialEvent}
  /\ UNCHANGED <<timeline, stored, peers, node, relayVars, conn, token, startVars,
                 abandoned, activeListeners, initialOn, initialEvent, handled, resets>>

\* Variant: the callback itself is unsubscribed.
FinishListeningDeaf(p) ==
  /\ listening[p] = "finishing"
  /\ initialOn = "yes" => conn = "on"
  /\ listening' = [listening EXCEPT ![p] = "no"]
  /\ subscribed' = subscribed \ {p}
  /\ initialEvent' = None
  /\ UNCHANGED <<timeline, stored, peers, node, relayVars, conn, token, startVars,
                 abandoned, activeListeners, initialOn, handling, handled, resets>>

\* Then the initialListener, if it is known, is unsubscribed and its event forgotten.
FinishListening(p) ==
  /\ listening[p] = "finishing"
  /\ initialOn = "yes" => conn = "on"
  /\ listening' = [listening EXCEPT ![p] = "no"]
  /\ initialOn' = IF initialOn = "yes" THEN "no" ELSE initialOn
  /\ initialEvent' = None
  /\ UNCHANGED <<timeline, stored, peers, node, relayVars, conn, token, startVars,
                 abandoned, activeListeners, subscribed, handling, handled, resets>>

\* Variant: the token is not written to the storage.
SyncUnsaved ==
  /\ conn = "on"
  /\ NewSince(token) # <<>>
  /\ handling' = handling \cup EmittedTo(token, subscribed)
  /\ initialEvent' = IF initialOn # "no" THEN Newest(token) ELSE initialEvent
  /\ token' = Len(timeline)
  /\ UNCHANGED <<timeline, stored, peers, node, relayVars, conn, startVars, abandoned,
                 activeListeners, listening, subscribed, initialOn, handled, resets>>

(***************************************************************************)
(* A poll: MatrixClientStore.update moves the token, in memory and in the  *)
(* storage, and emits each new message to whoever is subscribed.           *)
(***************************************************************************)
Sync ==
  /\ conn = "on"
  /\ NewSince(token) # <<>>
  /\ handling' = handling \cup EmittedTo(token, subscribed)
  /\ initialEvent' = IF initialOn # "no" THEN Newest(token) ELSE initialEvent
  /\ token' = Len(timeline)
  /\ stored' = Len(timeline)
  /\ UNCHANGED <<timeline, peers, node, relayVars, conn, startVars, abandoned,
                 activeListeners, listening, subscribed, initialOn, handled, resets>>

\* A callback has decrypted m: the listeners of the transport are notified.
Handle(m) ==
  /\ m \in handling
  /\ handling' = handling \ {m}
  /\ handled' = [handled EXCEPT ![m] = @ + 1]
  /\ UNCHANGED <<timeline, stored, peers, node, relayVars, conn, token, startVars,
                 abandoned, activeListeners, listening, subscribed, initialOn,
                 initialEvent, resets>>

-----------------------------------------------------------------------------
Next ==
  \/ \E m \in Messages : Send(m) \/ Handle(m)
  \/ \E p \in Peers : AddPeer(p) \/ Subscribe(p) \/ FinishListening(p)
  \/ \E polls \in BOOLEAN : StartFails(polls) \/ \E s \in late : LateFails(s, polls)
  \/ \E s \in late : LateStarts(s)
  \/ \E c \in abandoned : AbandonedSync(c)
  \/ Connect \/ ConnectFails \/ FirstSync \/ Disconnect \/ Reload \/ Sync

Spec == Init /\ [][Next]_vars

\* The client polls as long as it is connected, and a callback is resumed.
Fairness == WF_vars(Sync) /\ \A m \in Messages : WF_vars(Handle(m))

FairSpec == Spec /\ Fairness

-----------------------------------------------------------------------------
(***************************************************************************)
(* Properties                                                              *)
(***************************************************************************)

(***************************************************************************)
(* Only a reset of the client, which forgets the sync token, can make it   *)
(* handle a message again: reloads, aborted callbacks, the initial event   *)
(* and clients that were dropped, or came late, but still poll do not.     *)
(***************************************************************************)
HandledOncePerReset ==
  \A m \in Messages : handled[m] <= 1 + resets

(***************************************************************************)
(* The server a client is connected to, or is connecting to, is the one    *)
(* it told its peers in a pairing code and the one a page that is loaded   *)
(* again connects to, whatever logins failed and clients were stopped and  *)
(* started; until a start() that a disconnect has overtaken comes to its   *)
(* end, at a server the disconnect has made the client forget.             *)
(***************************************************************************)
ServerIsStored ==
  conn \in {"starting", "on"} /\ ~cameLate => relay = "known" /\ node

(***************************************************************************)
(* Is that so even then?  The code does not see to it.                     *)
(***************************************************************************)
ServerInUseIsStored ==
  conn \in {"starting", "on"} => relay = "known" /\ node

(***************************************************************************)
(* A client that was disconnected can be connected again: it has a server  *)
(* or may look for one.                                                    *)
(***************************************************************************)
StoppedClientCanStart ==
  conn = "off" => relay = "none" /\ (node \/ ~region)

(***************************************************************************)
(* A message sent to a client that is connected and subscribed to its      *)
(* sender is handled, unless the client is disconnected or reloaded.       *)
(***************************************************************************)
SubscribedMessagesAreHandled ==
  \A m \in Messages :
    /\ conn = "on"
    /\ From[m] \in subscribed
    /\ \E i \in 1..Len(timeline) : timeline[i] = m /\ i > token
    ~> handled[m] > 0 \/ conn # "on"

=============================================================================
