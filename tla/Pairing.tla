------------------------------ MODULE Pairing ------------------------------
(***************************************************************************)
(* How a dApp's first requests pair it with a wallet: makeRequest and init *)
(* of DAppClient.ts, the three transports that listen for a new peer, the  *)
(* codes they hand to the pairing alert, and what closing the alert, a     *)
(* second request or a failing relay does to all of them.                  *)
(*                                                                         *)
(* A call of makeRequest that needs init() makes an attempt: the promise   *)
(* init() stores and returns.  Transports come in generations, one for     *)
(* each time initInternalTransports builds them; generations that were     *)
(* given up keep the listeners they attached.  A step runs from one await  *)
(* to the next, as far as another call could come in between.  What only   *)
(* awaits promises and the local storage is over before the user, a timer  *)
(* or the network is heard again: those steps start when the page is idle. *)
(*                                                                         *)
(* Assumed: no account is stored (ActiveAccount and Tabs have the others), *)
(* one tab, and a page that answers events before a relay can fail, so the *)
(* first alert is rendered by then.                                        *)
(***************************************************************************)
EXTENDS AlertRoot

CONSTANTS
    NCalls,       \* bound: calls of makeRequest, in the order they are made
    NGenerations, \* bound: generations of transports
    MaxTaken,     \* bound: codes the user takes to a wallet
    Eager,        \* whether a call is made while another one still pairs
    Fails         \* subset of {"p2p", "wc"}: relays that may not be reached

ASSUME PairingAssumption ==
    NCalls \in Nat /\ NGenerations \in Nat \ {0} /\ MaxTaken \in Nat /\ Eager \in BOOLEAN

Calls == 1..NCalls
Generations == 1..NGenerations

VARIABLES
    call,        \* "idle", "restarting", "loading", "waiting" or "going"
    waits,       \* the attempt a call awaits
    initPromise, \* the attempt of _initPromise
    initPending, \* isInitPending
    stage,       \* how far the executor of an attempt's promise is
    listener,    \* newPeerListener of every transport, by the attempt it serves
    captured,    \* the transports in an attempt's closures, by generation
    current,     \* the transports of the client, by generation
    built,       \* generations built so far
    hears,       \* <<g, t>>: transports that hear channel openings
    starting,    \* attempts whose connect() starts the P2P client of their transport
    proposal,    \* the attempt whose WalletConnect URI is alive
    transport,   \* _transport: <<g, t>> once it is resolved
    opening,     \* <<g, t>>: transports that store a peer they were opened to
    selecting,   \* <<g, t>>: setActivePeer calls that build or find a transport
    closing,     \* attempts whose abortHandler runs
    errors,      \* GENERIC_ERROR alerts to come
    taken        \* codes the user has taken, each once

initVars == <<call, waits, initPromise, initPending, stage, listener, captured, current,
              built, hears, starting, proposal, transport, opening, selecting, closing, errors, taken>>
vars == <<alertVars, initVars>>

NoTransports == [t \in Types |-> None]
NoListener == [t \in Types |-> None]
Made == {a \in Attempts : stage[a] # "none"}

\* No promise reaction is left to run.
Idle == /\ \A c \in Calls : /\ call[c] # "loading"
                            /\ call[c] = "waiting" => stage[waits[c]] # "resolved"
        /\ \A a \in Attempts : stage[a] \notin {"account", "p2p", "wc", "select"}
        /\ opening = {} /\ selecting = {}

Init ==
    /\ RootInit
    /\ call = [c \in Calls |-> "idle"] /\ waits = [c \in Calls |-> None]
    /\ initPromise = None /\ initPending = FALSE
    /\ stage = [a \in Attempts |-> "none"]
    /\ listener = [g \in Generations |-> NoListener]
    /\ captured = [a \in Attempts |-> NoTransports] /\ current = NoTransports
    /\ built = 0 /\ hears = {} /\ starting = {} /\ proposal = None
    /\ transport = None /\ opening = {} /\ selecting = {} /\ closing = {} /\ errors = 0
    /\ taken = {}

-----------------------------------------------------------------------------
(* makeRequest. *)

\* init() up to its first await: it returns a promise it has.
CallInit(c, promise) ==
    /\ initPending' = TRUE /\ initPromise' = promise
    /\ IF promise # None
       THEN call' = [call EXCEPT ![c] = "waiting"] /\ waits' = [waits EXCEPT ![c] = promise]
       ELSE call' = [call EXCEPT ![c] = "loading"] /\ UNCHANGED waits

\* Disconnecting WalletConnect drops its pairing and every listener of its client,
\* which all generations share.
WCClosed(wc) ==
    IF wc = None THEN UNCHANGED <<hears, proposal>>
    ELSE hears' = {h \in hears : h[2] # "wc"} /\ proposal' = None

Others == UNCHANGED <<stage, listener, captured, current, built, starting, transport,
                      opening, selecting, closing, errors, taken>>

\* Nobody else is about to pair.
Alone(c) == \A d \in Calls \ {c} :
                \/ call[d] \in {"idle", "going"}
                \/ call[d] = "waiting" /\ waits[d] # initPromise

MakeRequest(c) ==
    /\ call[c] = "idle" /\ \A d \in 1..(c - 1) : call[d] # "idle"
    /\ Eager \/ Alone(c)
    /\ IF initPromise # None /\ initPending
       THEN /\ call' = [call EXCEPT ![c] = "restarting"]
            /\ WCClosed(current["wc"])
            /\ UNCHANGED <<waits, initPromise, initPending>>
       ELSE CallInit(c, initPromise) /\ UNCHANGED <<hears, proposal>>
    /\ Others /\ UNCHANGED alertVars

\* A second request while the first one pairs starts pairing again.
Restart(c) ==
    /\ call[c] = "restarting"
    /\ CallInit(c, None)
    /\ UNCHANGED <<hears, proposal>>
    /\ Others /\ UNCHANGED alertVars

\* The active account is loaded: the promise is made, whatever is there by now.
Loaded(c) ==
    /\ call[c] = "loading"
    /\ \E a \in Attempts \ Made :
        /\ \A b \in Attempts \ Made : a <= b
        /\ call' = [call EXCEPT ![c] = "waiting"] /\ waits' = [waits EXCEPT ![c] = a]
        /\ initPromise' = a
        /\ stage' = [stage EXCEPT ![a] = IF transport # None THEN "connecting" ELSE "account"]
    /\ UNCHANGED <<alertVars, initPending, listener, captured, current, built, hears, starting,
                   proposal, transport, opening, selecting, closing, errors, taken>>

\* init() returns.
Go(c) ==
    /\ call[c] = "waiting" /\ stage[waits[c]] = "resolved"
    /\ call' = [call EXCEPT ![c] = "going"] /\ initPending' = FALSE
    /\ UNCHANGED <<alertVars, waits, initPromise, stage, listener, captured, current, built,
                   hears, starting, proposal, transport, opening, selecting, closing, errors, taken>>

-----------------------------------------------------------------------------
(* The executor of the promise of an attempt. *)

\* connect() of the P2P transport was called: it returns at once from then on, while
\* it starts, once it hears, and when it could not be started.
Tried(g) == <<g, "p2p">> \in hears \/ \E a \in Attempts : captured[a]["p2p"] = g

\* A transport is selected already: it is connected and the promise resolved.
Connect(a) ==
    /\ stage[a] = "connecting" /\ transport # None
    /\ stage' = [stage EXCEPT ![a] = "resolved"]
    /\ hears' = IF transport[2] = "wc" \/ (transport[2] = "p2p" /\ Tried(transport[1]))
                THEN hears ELSE hears \cup {transport}
    /\ UNCHANGED <<alertVars, call, waits, initPromise, initPending, listener, captured, current,
                   built, starting, proposal, transport, opening, selecting, closing, errors, taken>>

\* The constructor of the WalletConnect transport takes over the shared client.
Constructed(h, g, t) == IF t = "wc" THEN {x \in h : x[2] # "wc"} \cup {<<g, t>>} ELSE h

\* initInternalTransports, which awaits addListener after each transport it builds,
\* and builds none when there is any.
InitInternalTransports(a) ==
    \/ /\ stage[a] = "account"
       /\ \E t \in Types : current[t] # None
       /\ stage' = [stage EXCEPT ![a] = "select"]
       /\ UNCHANGED <<captured, current, built, hears>>
    \/ /\ stage[a] = "account"
       /\ \A t \in Types : current[t] = None
       /\ built < NGenerations /\ built' = built + 1
       /\ current' = [current EXCEPT !["pm"] = built + 1]
       /\ captured' = [captured EXCEPT ![a]["pm"] = built + 1]
       /\ stage' = [stage EXCEPT ![a] = "p2p"]
       /\ UNCHANGED hears
    \/ \E t \in {"p2p", "wc"} :
       /\ stage[a] = t
       /\ LET g == captured[a]["pm"]
          IN  /\ current' = [current EXCEPT ![t] = g]
              /\ hears' = Constructed(hears, g, t)
       /\ stage' = [stage EXCEPT ![a] = IF t = "p2p" THEN "wc" ELSE "select"]
       /\ UNCHANGED <<captured, built>>

BuildTransports(a) ==
    /\ InitInternalTransports(a)
    /\ UNCHANGED <<alertVars, call, waits, initPromise, initPending, listener, starting,
                   proposal, transport, opening, selecting, closing, errors, taken>>

\* Transports that another attempt is still building: the executor returns and the
\* promise is never resolved.
GivesUp(a) ==
    /\ stage[a] = "select" /\ \E t \in Types : current[t] = None
    /\ stage' = [stage EXCEPT ![a] = "stuck"]
    /\ UNCHANGED <<alertVars, call, waits, initPromise, initPending, listener, captured, current,
                   built, hears, starting, proposal, transport, opening, selecting, closing, errors, taken>>

\* Variant: the P2P transport is forgotten.
ListenForTwo(a) == [g \in Generations |-> [t \in Types |->
                      IF current[t] = g /\ t # "p2p" THEN a ELSE listener[g][t]]]

ListenFor(a) == [g \in Generations |-> [t \in Types |->
                    IF current[t] = g THEN a ELSE listener[g][t]]]

\* listenForNewPeer on all three transports, the codes, and the alert.
PairInit(a) ==
    /\ stage[a] = "select" /\ \A t \in Types : current[t] # None
    /\ stage' = [stage EXCEPT ![a] = "listening"]
    /\ captured' = [captured EXCEPT ![a] = current]
    /\ listener' = ListenFor(a)
    /\ hears' = hears \cup {<<current["pm"], "pm">>}
    /\ starting' = IF Tried(current["p2p"]) THEN starting ELSE starting \cup {a}
    /\ OpenFor(a)
    /\ UNCHANGED <<given, call, waits, initPromise, initPending, current, built,
                   proposal, transport, opening, selecting, closing, errors, taken>>

\* The relay is reached: the P2P client listens, and the attempt has its code.
P2PStarted(a) ==
    /\ a \in starting /\ root # "creating"
    /\ starting' = starting \ {a} /\ hears' = hears \cup {<<captured[a]["p2p"], "p2p">>}
    /\ CodeOf(a, "p2p", "ready")
    /\ UNCHANGED <<rootVars, given, call, waits, initPromise, initPending, stage, listener, captured,
                   current, built, proposal, transport, opening, selecting, closing, errors, taken>>

\* Variant: the code does not wait for connect().
P2PCodeUnconnected(a) ==
    /\ a \in Opened /\ codes[a]["p2p"] = "pending" /\ root # "creating"
    /\ CodeOf(a, "p2p", "ready")
    /\ UNCHANGED <<rootVars, given, initVars>>

\* The code of an attempt that did not call connect() first takes no more than a relay
\* server.
P2PCode(a) ==
    /\ a \in Opened \ starting /\ codes[a]["p2p"] = "pending" /\ root # "creating"
    /\ CodeOf(a, "p2p", "ready")
    /\ UNCHANGED <<rootVars, given, initVars>>

\* connect() throws: the alert is hidden, one with the error follows, and the attempt
\* is aborted.
P2PFails(a) ==
    /\ "p2p" \in Fails /\ a \in starting /\ root # "creating"
    /\ CodeOf(a, "p2p", "empty")
    /\ closing' = closing \cup {a}
    /\ starting' = starting \ {a} /\ errors' = errors + 1
    /\ CloseAlert
    /\ UNCHANGED <<given, call, waits, initPromise, initPending, stage, listener, captured,
                   current, built, hears, proposal, transport, opening, selecting, taken>>

\* setTimeout(() => this.events.emit(GENERIC_ERROR), 1000)
ErrorAlert ==
    /\ errors > 0 /\ errors' = errors - 1
    /\ OpenFor(Info)
    /\ UNCHANGED <<given, call, waits, initPromise, initPending, stage, listener,
                   captured, current, built, hears, starting, proposal, transport, opening,
                   selecting, closing, taken>>

\* getPairingRequestInfo of WalletConnect forces a new connection, which ends the
\* proposal of another attempt; an error leaves an empty URI.
WCCode(a) ==
    /\ a \in Opened /\ codes[a]["wc"] = "pending" /\ root # "creating"
    /\ \/ CodeOf(a, "wc", "ready") /\ proposal' = a
       \/ "wc" \in Fails /\ CodeOf(a, "wc", "empty") /\ proposal' = None
    /\ UNCHANGED <<rootVars, given, call, waits,
                   initPromise, initPending, stage, listener, captured, current, built, hears,
                   starting, transport, opening, selecting, closing, errors, taken>>

-----------------------------------------------------------------------------
(* A wallet answers a code it was given. *)

\* What the handlers and QR codes of PairingAlert come to.
Take(c) ==
    /\ Usable /\ c[1] = config /\ CodeReady(c)
    /\ c \notin taken /\ Cardinality(taken) < MaxTaken
    /\ taken' = taken \cup {c} /\ given' = given \cup {c}
    /\ UNCHANGED <<rootVars, codes, call, waits, initPromise, initPending, stage, listener,
                   captured, current, built, hears, starting, proposal, transport, opening,
                   selecting, closing, errors>>

\* Every generation has the same key pair, so all that listen can open the answer to
\* a post message or P2P code; the relay keeps it for P2P clients that start.  A
\* WalletConnect URI is good for one session.
Approve(c) ==
    /\ c \in given
    /\ c[2] = "p2p" => starting = {} \/ \E h \in hears : h[2] = "p2p"
    /\ given' = given \ {c}
    /\ IF c[2] # "wc" \/ proposal = c[1]
       THEN opening' = opening \cup {h \in hears : h[2] = c[2]} ELSE UNCHANGED opening
    /\ proposal' = IF c[2] = "wc" /\ proposal = c[1] THEN None ELSE proposal
    /\ UNCHANGED <<rootVars, codes, call, waits,
                   initPromise, initPending, stage, listener, captured, current, built, hears,
                   starting, transport, selecting, closing, errors, taken>>

\* setTransport: none gives up the promises of init() and of the transport.
SetTransport(g, t) ==
    IF g # None THEN transport' = <<g, t>> /\ UNCHANGED initPromise
    ELSE transport' = None /\ initPromise' = None

\* Variant: the alert stays.
PairedAlertStays(a) == UNCHANGED rootVars /\ stage' = [stage EXCEPT ![a] = "resolved"]

\* Variant: the promise is not resolved.
PairedUnresolved(a) == CloseAlert /\ UNCHANGED stage

\* The alert is hidden and the promise resolved.
Paired(a) == CloseAlert /\ stage' = [stage EXCEPT ![a] = "resolved"]

\* The peer is stored: the attempt that listens is told.  It closes the alert, selects
\* the client's transport of that type, stops the client's transports from
\* listening, and resolves its own promise.
ChannelOpened(g, t) ==
    /\ <<g, t>> \in opening /\ opening' = opening \ {<<g, t>>}
    /\ IF listener[g][t] = None
       THEN /\ UNCHANGED rootVars
            /\ UNCHANGED <<stage, listener, transport, initPromise, selecting>>
       ELSE /\ Paired(listener[g][t])
            /\ selecting' = selecting \cup {t}
            /\ SetTransport(current[t], t)
            /\ listener' = [i \in Generations |-> [x \in Types |->
                               IF current[x] = i \/ <<i, x>> = <<g, t>>
                               THEN None ELSE listener[i][x]]]
    /\ UNCHANGED <<codes, given, call, waits, initPending, captured, current, built,
                   hears, starting, proposal, closing, errors, taken>>

\* setActivePeer makes sure that there are transports and selects one once more.
SetActivePeer(t) ==
    /\ t \in selecting /\ selecting' = selecting \ {t}
    /\ LET missing == \A x \in Types : current[x] = None
           now == IF missing THEN [x \in Types |-> built + 1] ELSE current
       IN  /\ missing => built < NGenerations
           /\ built' = IF missing THEN built + 1 ELSE built
           /\ current' = now
           /\ hears' = IF missing THEN Constructed(hears, built + 1, "wc") ELSE hears
           /\ IF t = "wc" THEN UNCHANGED <<transport, initPromise>> ELSE SetTransport(now[t], t)
    /\ UNCHANGED <<alertVars, call, waits, initPending, stage, listener, captured, starting,
                   proposal, opening, closing, errors, taken>>

-----------------------------------------------------------------------------
(* The user closes the alert, also while it fades. *)

OnClose ==
    /\ mount
    /\ CloseAlert
    /\ closing' = IF config \in Attempts THEN closing \cup {config} ELSE closing
    /\ UNCHANGED <<codes, given, call, waits, initPromise, initPending, stage, listener,
                   captured, current, built, hears, starting, proposal, transport, opening,
                   selecting, errors, taken>>

\* Variant: the selected transport is kept.
GiveUpSome == current' = NoTransports /\ UNCHANGED <<transport, initPromise>>

GiveUpTransports == current' = NoTransports /\ transport' = None /\ initPromise' = None

\* abortHandler disconnects the transports of its attempt and gives up those of the
\* client, the selected one and the promise of init() with them.
Abort(a) ==
    /\ a \in closing /\ closing' = closing \ {a}
    /\ WCClosed(captured[a]["wc"])
    /\ GiveUpTransports
    /\ UNCHANGED <<alertVars, call, waits, initPending, stage, listener, captured, built,
                   starting, opening, selecting, errors, taken>>

-----------------------------------------------------------------------------
\* Promise reactions.
React ==
    \/ \E c \in Calls : Loaded(c) \/ Go(c)
    \/ \E a \in Attempts : BuildTransports(a) \/ GivesUp(a) \/ PairInit(a)
    \/ \E g \in Generations, t \in Types : ChannelOpened(g, t)
    \/ \E t \in Types : SetActivePeer(t)

\* Timers and the network.
Happen ==
    \/ (Render \/ FadeOut) /\ UNCHANGED initVars
    \/ \E c \in Calls : Restart(c)
    \/ \E a \in Attempts : \/ Connect(a) \/ Abort(a)
                           \/ P2PStarted(a) \/ P2PFails(a) \/ P2PCode(a) \/ WCCode(a)
    \/ ErrorAlert

User == (\E c \in Codes : Take(c) \/ Approve(c)) \/ OnClose

Next ==
    \/ \E c \in Calls : MakeRequest(c)
    \/ React
    \/ Idle /\ Happen
    \/ Idle /\ User

Spec == Init /\ [][Next]_vars

-----------------------------------------------------------------------------
(* Properties. *)

TypeOK ==
    /\ RootTypeOK
    /\ call \in [Calls -> {"idle", "restarting", "loading", "waiting", "going"}]
    /\ waits \in [Calls -> Attempts \cup {None}]
    /\ initPromise \in Attempts \cup {None} /\ initPending \in BOOLEAN
    /\ stage \in [Attempts -> {"none", "connecting", "account", "p2p", "wc", "select", "stuck",
                               "listening", "resolved"}]
    /\ listener \in [Generations -> [Types -> Attempts \cup {None}]]
    /\ captured \in [Attempts -> [Types -> Generations \cup {None}]]
    /\ current \in [Types -> Generations \cup {None}]
    /\ built \in 0..NGenerations
    /\ hears \subseteq Generations \X Types /\ starting \subseteq Attempts
    /\ proposal \in Attempts \cup {None}
    /\ transport \in (Generations \X Types) \cup {None}
    /\ opening \subseteq Generations \X Types /\ selecting \subseteq Types
    /\ closing \subseteq Attempts /\ errors \in Nat /\ taken \subseteq Codes

\* A transport that listens for an attempt hears the answer, now or when its P2P client
\* has started.
Heard(t) == \E g \in Generations :
    /\ listener[g][t] # None
    /\ <<g, t>> \in hears \/ (t = "p2p" /\ \E a \in starting : captured[a][t] = g)

Unreached(g) == \E a \in Attempts : captured[a]["p2p"] = g /\ codes[a]["p2p"] = "empty"

\* The codes of an alert the user can use belong to transports that listen for an
\* attempt: a browser extension or Beacon wallet that is paired is noticed.  Not so
\* when the P2P client could not be started for an attempt that is being aborted.
ShownCodesAreHeard ==
    Usable /\ config \notin closing =>
        \A t \in {"pm", "p2p"} :
            CodeReady(<<config, t>>) =>
                Heard(t) \/ (t = "p2p" /\ Unreached(captured[config][t]))

\* A P2P code that is shown is one whose answer is heard, whatever failed before.
RelayCodesAreHeard ==
    Usable /\ config \notin closing /\ CodeReady(<<config, "p2p">>) => Heard("p2p")

\* The transport requests are sent with is the one the client keeps and connects.
SelectedTransportIsCurrent ==
    transport # None => transport[1] = current[transport[2]]

\* The alert is not left open for an attempt that has its wallet.
PairedAlertIsClosed == isOpen /\ config \in Attempts => stage[config] # "resolved"

\* When a wallet's answer has selected a transport, and every promise reaction has
\* run, one of the calls goes on, whatever was aborted or started again meanwhile.
PairingStartsACall == Idle /\ transport # None => \E c \in Calls : call[c] = "going"

\* The alert is used as PairingAlert takes it to be: it is opened once for each attempt,
\* and each code settles once.
AlertIsUsedAsAssumed == [][ClientStep]_<<rootVars, codes>>

\* A WalletConnect URI that is shown is alive, and its session would be noticed.
ShownURIIsHeard ==
    Usable /\ config \notin closing /\ CodeReady(<<config, "wc">>) =>
        proposal = config /\ Heard("wc")

\* makeRequest "makes sure that the DAppClient is initialized and connected to the
\* transport": the promise it would wait for can still be resolved.
InitCanEnd == initPromise # None => stage[initPromise] # "stuck"

=============================================================================
