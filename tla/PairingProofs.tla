--------------------------- MODULE PairingProofs ---------------------------
(***************************************************************************)
(* Theorems about Pairing for any number of calls, attempts, generations   *)
(* of transports and codes taken: what listens while the alert shows codes *)
(* to the user, which transport is selected, and who goes on when a wallet *)
(* has answered; and about PairingAlert: the code a view shows fits the    *)
(* wallet it is shown for.                                                 *)
(***************************************************************************)
EXTENDS Pairing, PairingAlert, TLAPS

-----------------------------------------------------------------------------
(***************************************************************************)
(* The inductive invariant                                                 *)
(***************************************************************************)

AlertTypes ==
    /\ root \in {"none", "creating", "there"}
    /\ isOpen \in BOOLEAN /\ mount \in BOOLEAN
    /\ config \in Attempts \cup {Info, None}
    /\ fades \in Nat /\ errors \in Nat

CodeTypes ==
    /\ codes \in [Attempts -> [Types -> {"pending", "ready", "empty"}]]
    /\ given \subseteq Codes /\ taken \subseteq Codes
    /\ closing \subseteq Attempts /\ proposal \in Attempts \cup {None}

Stages == {"none", "connecting", "account", "p2p", "wc", "select", "stuck", "listening", "resolved"}
CallStates == {"idle", "restarting", "loading", "waiting", "going"}

CallTypes ==
    /\ call \in [Calls -> CallStates] /\ waits \in [Calls -> Attempts \cup {None}]
    /\ initPromise \in Attempts \cup {None} /\ initPending \in BOOLEAN
    /\ stage \in [Attempts -> Stages]

TransportTypes ==
    /\ listener \in [Generations -> [Types -> Attempts \cup {None}]]
    /\ captured \in [Attempts -> [Types -> Generations \cup {None}]]
    /\ current \in [Types -> Generations \cup {None}]
    /\ built \in 0..NGenerations
    /\ hears \subseteq Generations \X Types /\ starting \subseteq Attempts
    /\ transport \in (Generations \X Types) \cup {None}
    /\ opening \subseteq Generations \X Types /\ selecting \subseteq Types

\* Whoever opens or answers a code had an alert to take it from.
ThereIsAnAlert ==
    /\ isOpen => root = "there"
    /\ given # {} \/ opening # {} \/ selecting # {} => root = "there"

\* The alert is open or will be when React renders it.
Showing == isOpen \/ root = "creating"

\* The alert is of an attempt that listens: it has a listener on the transports its
\* codes belong to, and post messages are heard.
ShownAttemptListens ==
    config \in Attempts =>
        /\ stage[config] \in {"listening", "resolved"}
        /\ Showing =>
              /\ stage[config] = "listening"
              /\ \A t \in {"pm", "p2p"} : /\ captured[config][t] \in Generations
                                          /\ listener[captured[config][t]][t] # None
              /\ <<captured[config]["pm"], "pm">> \in hears

Listening(a) == stage[a] \in {"listening", "resolved"}

\* An attempt gets its codes once it has its alert, and no P2P code while it starts
\* the client.
CodesFollowAlerts ==
    /\ \A a \in Attempts : ~Listening(a) => \A t \in Types : codes[a][t] = "pending"
    /\ \A a \in starting : a \in Opened /\ codes[a]["p2p"] = "pending"

\* A P2P transport that an attempt uses is connected: it hears, it starts, or it was
\* not reached.
Served(g) == \/ <<g, "p2p">> \in hears
             \/ \E a \in starting : captured[a]["p2p"] = g
             \/ Unreached(g)
UsedIsServed ==
    /\ \A a \in Attempts : captured[a]["p2p"] # None => Served(captured[a]["p2p"])
    /\ \A a \in starting : captured[a]["p2p"] \in Generations

Building(a) == stage[a] \in {"p2p", "wc"}

\* One attempt at a time builds transports, from post message to WalletConnect.
BuiltInOrder ==
    /\ \A a \in Attempts : Building(a) =>
          /\ captured[a]["pm"] \in Generations /\ current["pm"] = captured[a]["pm"]
          /\ current["wc"] = None
          /\ stage[a] = "p2p" => current["p2p"] = None
    /\ \A a, b \in Attempts : Building(a) /\ Building(b) => a = b

\* Every attempt has a call that waits for it or went on, and only attempts that were
\* made are waited for or listen.
Awaited ==
    /\ \A c \in Calls : call[c] \in {"waiting", "going"} => waits[c] \in Made
    /\ initPromise # None => initPromise \in Made
    /\ \A a \in Made : \E c \in Calls : waits[c] = a /\ call[c] \in {"waiting", "going"}
    /\ \A g \in Generations, t \in Types : listener[g][t] # None => listener[g][t] \in Made

GoesOn(c) == call[c] = "going" \/ (call[c] = "waiting" /\ stage[waits[c]] = "resolved")

\* A transport is selected for a call that goes on, at once or when it is told.
SelectedForACall == transport # None \/ selecting # {} => \E c \in Calls : GoesOn(c)

IInv ==
    /\ AlertTypes
    /\ CodeTypes
    /\ CallTypes
    /\ TransportTypes
    /\ ThereIsAnAlert
    /\ ShownAttemptListens
    /\ CodesFollowAlerts
    /\ UsedIsServed
    /\ BuiltInOrder
    /\ SelectedTransportIsCurrent
    /\ Awaited
    /\ SelectedForACall

LEMMA TypesAreTypeOK == TypeOK <=> AlertTypes /\ CodeTypes /\ CallTypes /\ TransportTypes
BY DEF TypeOK, RootTypeOK, AlertTypes, CodeTypes, CallTypes, TransportTypes, Stages, CallStates

LEMMA NumbersAreNotNone ==
    /\ None \notin Attempts /\ None \notin Generations /\ Info \notin Attempts
    /\ Attempts \subseteq Nat /\ Generations \subseteq Nat
BY AttemptsAssumption, PairingAssumption DEF Attempts, Generations, Info

LEMMA IInvImplies ==
    IInv => /\ TypeOK /\ ShownCodesAreHeard /\ SelectedTransportIsCurrent
            /\ PairedAlertIsClosed /\ PairingStartsACall
<1>. SUFFICES ASSUME IInv
              PROVE  /\ TypeOK /\ ShownCodesAreHeard /\ SelectedTransportIsCurrent
                     /\ PairedAlertIsClosed /\ PairingStartsACall
  OBVIOUS
<1>1. TypeOK /\ SelectedTransportIsCurrent
  BY TypesAreTypeOK DEF IInv
<1>2. ShownCodesAreHeard
  <2>. SUFFICES ASSUME Usable, NEW t \in {"pm", "p2p"}, CodeReady(<<config, t>>)
                PROVE  Heard(t) \/ (t = "p2p" /\ Unreached(captured[config][t]))
    BY DEF ShownCodesAreHeard
  <2>1. isOpen /\ config \in Attempts /\ codes[config][t] = "ready"
    BY DEF Usable, CodeReady
  <2>2. /\ captured[config][t] \in Generations /\ listener[captured[config][t]][t] # None
        /\ t = "pm" => <<captured[config][t], t>> \in hears
    BY <2>1 DEF IInv, ShownAttemptListens, Showing
  <2>3. t = "p2p" => Served(captured[config][t])
    BY <2>1, <2>2, NumbersAreNotNone DEF IInv, UsedIsServed
  <2>. QED
    BY <2>2, <2>3 DEF Heard, Served
<1>3. PairedAlertIsClosed
  BY DEF IInv, ShownAttemptListens, Showing, PairedAlertIsClosed
<1>4. PairingStartsACall
  <2>. SUFFICES ASSUME Idle, transport # None PROVE \E c \in Calls : call[c] = "going"
    BY DEF PairingStartsACall
  <2>1. PICK c \in Calls : GoesOn(c)
    BY DEF IInv, SelectedForACall
  <2>. QED
    BY <2>1 DEF GoesOn, Idle
<1>. QED
  BY <1>1, <1>2, <1>3, <1>4

LEMMA InitIInv == Init => IInv
<1>. SUFFICES ASSUME Init PROVE IInv
  OBVIOUS
<1>1. AlertTypes
  BY DEF Init, RootInit, AlertTypes
<1>2. CodeTypes
  BY DEF Init, RootInit, CodeTypes
<1>3. CallTypes
  BY DEF Init, CallTypes, CallStates, Stages
<1>4. TransportTypes
  BY PairingAssumption DEF Init, TransportTypes, NoListener, NoTransports
<1>5. ThereIsAnAlert /\ ShownAttemptListens
  BY NumbersAreNotNone DEF Init, RootInit, ThereIsAnAlert, ShownAttemptListens
<1>6. BuiltInOrder /\ SelectedTransportIsCurrent
  BY DEF Init, BuiltInOrder, Building, SelectedTransportIsCurrent
<1>7. CodesFollowAlerts /\ UsedIsServed
  BY DEF Init, RootInit, CodesFollowAlerts, UsedIsServed, NoTransports, Types
<1>8. Awaited
  <2>1. Made = {}
    BY DEF Init, Made
  <2>2. \A g \in Generations, t \in Types : listener[g][t] = None
    BY DEF Init, NoListener
  <2>. QED
    BY <2>1, <2>2 DEF Init, Awaited
<1>9. SelectedForACall
  BY DEF Init, SelectedForACall
<1>. QED
  BY <1>1, <1>2, <1>3, <1>4, <1>5, <1>6, <1>7, <1>8, <1>9 DEF IInv

-----------------------------------------------------------------------------
(***************************************************************************)
(* What a step does to one part of the state                               *)
(***************************************************************************)

LEMMA OpenStep ==
    ASSUME IInv, NEW c \in Attempts \cup {Info}, OpenAlert(c), errors' \in Nat
    PROVE  /\ AlertTypes'
           /\ (root = "there" => root' = "there") /\ (isOpen' => root' = "there")
           /\ config' = c \/ UNCHANGED rootVars
<1>0. AlertTypes /\ (isOpen => root = "there")
  BY DEF IInv, ThereIsAnAlert
<1>1. mount' \in BOOLEAN
  <2>1. (mount \/ ~isOpen) \in BOOLEAN /\ mount \in BOOLEAN
    BY <1>0 DEF AlertTypes
  <2>. QED
    BY <2>1 DEF OpenAlert, rootVars
<1>2. /\ root' \in {"none", "creating", "there"} /\ isOpen' \in BOOLEAN
      /\ config' \in Attempts \cup {Info, None} /\ fades' \in Nat
  BY <1>0 DEF OpenAlert, rootVars, AlertTypes
<1>3. /\ (root = "there" => root' = "there") /\ (isOpen' => root' = "there")
      /\ config' = c \/ UNCHANGED rootVars
  BY <1>0 DEF OpenAlert, rootVars, AlertTypes
<1>. QED
  BY <1>1, <1>2, <1>3 DEF AlertTypes

LEMMA CloseStep ==
    ASSUME IInv, CloseAlert, errors' \in Nat
    PROVE  /\ AlertTypes' /\ root' = root /\ config' = config
           /\ (isOpen' => isOpen) /\ (root = "there" => ~isOpen')
<1>0. AlertTypes
  BY DEF IInv
<1>1. CASE root = "there" /\ isOpen
  <2>1. /\ isOpen' = FALSE /\ fades' = fades + 1
        /\ root' = root /\ config' = config /\ mount' = mount
    BY <1>1 DEF CloseAlert
  <2>2. fades' \in Nat
    BY <1>0, <2>1 DEF AlertTypes
  <2>3. isOpen' \in BOOLEAN /\ mount' \in BOOLEAN
    BY <1>0, <2>1 DEF AlertTypes
  <2>4. AlertTypes'
    BY <1>0, <2>1, <2>2, <2>3 DEF AlertTypes
  <2>. QED
    BY <2>1, <2>4
<1>2. CASE ~(root = "there" /\ isOpen)
  BY <1>0, <1>2 DEF CloseAlert, AlertTypes, rootVars
<1>. QED
  BY <1>1, <1>2

LEMMA StageMoves ==
    ASSUME IInv, NEW a \in Attempts, NEW s \in Stages, stage' = [stage EXCEPT ![a] = s]
    PROVE  /\ stage' \in [Attempts -> Stages] /\ stage'[a] = s
           /\ \A b \in Attempts : b # a => stage'[b] = stage[b]
BY DEF IInv, CallTypes

\* The alert shows what it showed, or nothing, and what listened goes on to.
LEMMA ShownStays ==
    ASSUME IInv, config' = config, Showing' => Showing,
           config \in Attempts =>
              stage'[config] = stage[config] /\ captured'[config] = captured[config],
           \A g \in Generations, t \in Types : listener[g][t] # None => listener'[g][t] # None,
           \A g \in Generations, t \in {"pm", "p2p"} : <<g, t>> \in hears => <<g, t>> \in hears'
    PROVE  ShownAttemptListens'
BY DEF IInv, ShownAttemptListens, Types

\* The codes are as they were, and so are the P2P transports the attempts use.
LEMMA CodesAreKept ==
    ASSUME IInv, UNCHANGED <<codes, starting>>,
           \A a \in Attempts : Listening(a) => Listening(a)',
           \A a \in Attempts : captured'[a]["p2p"] = captured[a]["p2p"],
           \A g \in Generations, t \in {"pm", "p2p"} : <<g, t>> \in hears => <<g, t>> \in hears'
    PROVE  CodesFollowAlerts' /\ UsedIsServed'
<1>1. CodesFollowAlerts'
  BY DEF IInv, CodesFollowAlerts, Opened, CodeKnown
<1>2. ASSUME NEW a \in Attempts, captured[a]["p2p"] # None
      PROVE  Served(captured[a]["p2p"])'
  <2>1. captured[a]["p2p"] \in Generations /\ Served(captured[a]["p2p"])
    BY <1>2 DEF IInv, TransportTypes, UsedIsServed, Types
  <2>2. starting \subseteq Attempts
    BY DEF IInv, TransportTypes
  <2>. QED
    BY <2>1, <2>2 DEF Served, Unreached
<1>3. \A a \in starting : captured'[a]["p2p"] \in Generations
  BY DEF IInv, TransportTypes, UsedIsServed
<1>. QED
  BY <1>1, <1>2, <1>3 DEF UsedIsServed

\* A code that comes.
LEMMA CodeStep ==
    ASSUME IInv, NEW a \in Opened, NEW t \in {"p2p", "wc"}, NEW is \in {"ready", "empty"},
           CodeOf(a, t, is)
    PROVE  /\ codes' \in [Attempts -> [Types -> {"pending", "ready", "empty"}]]
           /\ a \in Attempts /\ Listening(a) /\ codes'[a][t] = is
           /\ \A b \in Attempts, x \in Types : b # a \/ x # t => codes'[b][x] = codes[b][x]
           /\ Opened \subseteq Opened'
<1>1. codes \in [Attempts -> [Types -> {"pending", "ready", "empty"}]] /\ t \in Types /\ "pm" \in Types
  BY DEF IInv, CodeTypes, Types
<1>2. a \in Attempts /\ codes[a]["pm"] # "pending"
  BY DEF Opened, CodeKnown
<1>3. Listening(a)
  BY <1>1, <1>2 DEF IInv, CodesFollowAlerts
<1>4. /\ codes' \in [Attempts -> [Types -> {"pending", "ready", "empty"}]]
      /\ codes'[a][t] = is
      /\ \A b \in Attempts, x \in Types : b # a \/ x # t => codes'[b][x] = codes[b][x]
  BY <1>1, <1>2 DEF CodeOf
<1>5. Opened \subseteq Opened'
  BY <1>1, <1>4 DEF Opened, CodeKnown
<1>. QED
  BY <1>2, <1>3, <1>4, <1>5

\* A code that comes to an attempt that did not start a client.
LEMMA CodeKeepsServed ==
    ASSUME IInv, NEW a \in Opened, NEW t \in {"p2p", "wc"}, NEW is \in {"ready", "empty"},
           CodeOf(a, t, is), codes[a][t] = "pending", t = "wc" \/ a \notin starting,
           UNCHANGED <<stage, captured, starting, hears>>
    PROVE  CodesFollowAlerts' /\ UsedIsServed'
<1>1. /\ a \in Attempts /\ Listening(a) /\ Opened \subseteq Opened'
      /\ \A b \in Attempts, x \in Types : b # a \/ x # t => codes'[b][x] = codes[b][x]
  BY CodeStep
<1>2. starting \subseteq Attempts /\ "p2p" \in Types /\ CodesFollowAlerts /\ UsedIsServed
  BY DEF IInv, TransportTypes, Types
<1>3. CodesFollowAlerts'
  BY <1>1, <1>2 DEF CodesFollowAlerts, Listening
<1>4. \A b \in Attempts : codes[b]["p2p"] = "empty" => codes'[b]["p2p"] = "empty"
  BY <1>1, <1>2
<1>5. \A g : Served(g) => Served(g)'
  BY <1>4 DEF Served, Unreached
<1>. QED
  BY <1>2, <1>3, <1>5 DEF UsedIsServed

\* An attempt whose alert is shown has left the stages before.
LEMMA ShownIsListening ==
    ASSUME IInv, NEW a \in Attempts, stage[a] \notin {"listening", "resolved"}
    PROVE  config # a
BY DEF IInv, ShownAttemptListens

\* Attempts that wait for what they waited for keep their calls.
LEMMA MadeStays ==
    ASSUME IInv, UNCHANGED <<call, waits>>, initPromise' \in {initPromise, None},
           \A a \in Attempts : stage'[a] = "none" <=> stage[a] = "none",
           \A g \in Generations, t \in Types : listener'[g][t] \in {listener[g][t], None}
    PROVE  Awaited'
<1>1. Made' = Made
  BY DEF Made
<1>. QED
  BY <1>1 DEF IInv, Awaited

LEMMA CallsGoOn ==
    ASSUME IInv, UNCHANGED <<call, waits>>,
           transport' # None => transport # None \/ selecting # {}, selecting' \subseteq selecting,
           \A a \in Attempts : stage[a] = "resolved" => stage'[a] = "resolved"
    PROVE  SelectedForACall'
<1>. SUFFICES ASSUME transport' # None \/ selecting' # {}
              PROVE  \E c \in Calls : GoesOn(c)'
  BY DEF SelectedForACall
<1>1. PICK c \in Calls : GoesOn(c)
  BY DEF IInv, SelectedForACall
<1>2. call[c] = "waiting" => waits[c] \in Attempts
  BY DEF IInv, Awaited, Made
<1>3. GoesOn(c)'
  BY <1>1, <1>2 DEF GoesOn
<1>. QED
  BY <1>3

LEMMA CallInitStep ==
    ASSUME IInv, NEW c \in Calls, NEW p \in Made \cup {None}, CallInit(c, p),
           call[c] \in {"idle", "restarting"},
           UNCHANGED <<stage, listener, transport, selecting>>
    PROVE  CallTypes' /\ Awaited' /\ SelectedForACall'
<1>0. CallTypes /\ Awaited /\ Made \subseteq Attempts /\ Made' = Made
  BY DEF IInv, Made
<1>1. PICK s \in {"waiting", "loading"} :
        /\ call' = [call EXCEPT ![c] = s] /\ (s = "waiting" => p # None)
        /\ waits' = IF s = "waiting" THEN [waits EXCEPT ![c] = p] ELSE waits
  BY DEF CallInit
<1>2. /\ call' \in [Calls -> CallStates] /\ call'[c] = s
      /\ \A d \in Calls : d # c => call'[d] = call[d]
  BY <1>0, <1>1 DEF CallTypes, CallStates
<1>3. /\ waits' \in [Calls -> Attempts \cup {None}] /\ (s = "waiting" => waits'[c] = p)
      /\ \A d \in Calls : d # c => waits'[d] = waits[d]
  BY <1>0, <1>1 DEF CallTypes
<1>4. initPending' \in BOOLEAN /\ initPromise' = p
  BY DEF CallInit
<1>5. CallTypes'
  BY <1>0, <1>2, <1>3, <1>4 DEF CallTypes
<1>6. Awaited'
  <2>1. \A d \in Calls : call'[d] \in {"waiting", "going"} => waits'[d] \in Made
    BY <1>0, <1>1, <1>2, <1>3 DEF Awaited
  <2>2. ASSUME NEW a \in Made
        PROVE  \E d \in Calls : waits'[d] = a /\ call'[d] \in {"waiting", "going"}
    <3>1. PICK d \in Calls : waits[d] = a /\ call[d] \in {"waiting", "going"}
      BY <1>0 DEF Awaited
    <3>. QED
      BY <3>1, <1>2, <1>3
  <2>. QED
    BY <1>0, <1>4, <2>1, <2>2 DEF Awaited
<1>7. SelectedForACall'
  <2>. SUFFICES ASSUME transport # None \/ selecting # {}
                PROVE  \E d \in Calls : GoesOn(d)'
    BY DEF SelectedForACall
  <2>1. PICK d \in Calls : GoesOn(d)
    BY DEF IInv, SelectedForACall
  <2>2. d # c /\ GoesOn(d)'
    BY <2>1, <1>2, <1>3 DEF GoesOn
  <2>. QED
    BY <2>2
<1>. QED
  BY <1>5, <1>6, <1>7

LEMMA WCClosedStep ==
    ASSUME IInv, NEW wc, WCClosed(wc)
    PROVE  /\ hears' \subseteq hears /\ proposal' \in Attempts \cup {None}
           /\ \A g \in Generations, t \in {"pm", "p2p"} : <<g, t>> \in hears => <<g, t>> \in hears'
<1>1. CASE wc = None
  BY <1>1 DEF WCClosed, IInv, CodeTypes
<1>2. CASE wc # None
  BY <1>2 DEF WCClosed
<1>. QED
  BY <1>1, <1>2

-----------------------------------------------------------------------------
(***************************************************************************)
(* Calls                                                                   *)
(***************************************************************************)

LEMMA MakeRequestStep == ASSUME IInv, NEW c \in Calls, MakeRequest(c) PROVE IInv'
<1>0. /\ call[c] = "idle"
      /\ UNCHANGED <<root, isOpen, mount, config, fades, codes, given>>
      /\ UNCHANGED <<stage, listener, captured, current, built, starting, transport,
                     opening, selecting, closing, errors, taken>>
  BY DEF MakeRequest, alertVars, rootVars, Others
<1>1. /\ hears' \subseteq hears /\ proposal' \in Attempts \cup {None}
      /\ \A g \in Generations, t \in {"pm", "p2p"} : <<g, t>> \in hears => <<g, t>> \in hears'
  BY WCClosedStep DEF MakeRequest, IInv, CodeTypes
<1>2. AlertTypes' /\ CodeTypes' /\ TransportTypes'
  BY <1>0, <1>1 DEF IInv, AlertTypes, CodeTypes, TransportTypes
<1>3. ThereIsAnAlert' /\ BuiltInOrder' /\ SelectedTransportIsCurrent'
  BY <1>0 DEF IInv, ThereIsAnAlert, BuiltInOrder, Building, SelectedTransportIsCurrent
<1>4. ShownAttemptListens'
  BY <1>0, <1>1, ShownStays DEF Showing
<1>5. CallTypes' /\ Awaited' /\ SelectedForACall'
  <2>1. CASE initPromise # None /\ initPending
    <3>1. /\ call' = [call EXCEPT ![c] = "restarting"]
          /\ UNCHANGED <<waits, initPromise, initPending>>
      BY <2>1 DEF MakeRequest
    <3>2. /\ call' \in [Calls -> CallStates]
          /\ \A d \in Calls : call[d] \in {"waiting", "going"} \/ call'[d] \in {"waiting", "going"}
                                => call'[d] = call[d]
      BY <1>0, <3>1 DEF IInv, CallTypes, CallStates
    <3>3. Made' = Made
      BY <1>0 DEF Made
    <3>4. CallTypes'
      BY <1>0, <3>1, <3>2 DEF IInv, CallTypes
    <3>5. Awaited'
      BY <1>0, <3>1, <3>2, <3>3 DEF IInv, Awaited
    <3>6. SelectedForACall'
      BY <1>0, <3>1, <3>2 DEF IInv, SelectedForACall, GoesOn
    <3>. QED
      BY <3>4, <3>5, <3>6
  <2>2. CASE ~(initPromise # None /\ initPending)
    BY <1>0, <2>2, CallInitStep DEF MakeRequest, IInv, Awaited
  <2>. QED
    BY <2>1, <2>2
<1>6. CodesFollowAlerts' /\ UsedIsServed'
  BY <1>0, <1>1, CodesAreKept DEF Listening
<1>. QED
  BY <1>2, <1>3, <1>4, <1>5, <1>6 DEF IInv

LEMMA RestartStep == ASSUME IInv, NEW c \in Calls, Restart(c) PROVE IInv'
<1>0. /\ call[c] = "restarting" /\ CallInit(c, None)
      /\ UNCHANGED <<root, isOpen, mount, config, fades, codes, given>>
      /\ UNCHANGED <<stage, listener, captured, current, built, starting, transport,
                     opening, selecting, closing, errors, taken, hears, proposal>>
  BY DEF Restart, alertVars, rootVars, Others
<1>1. AlertTypes' /\ CodeTypes' /\ TransportTypes'
  BY <1>0 DEF IInv, AlertTypes, CodeTypes, TransportTypes
<1>2. ThereIsAnAlert' /\ BuiltInOrder' /\ SelectedTransportIsCurrent'
  BY <1>0 DEF IInv, ThereIsAnAlert, BuiltInOrder, Building, SelectedTransportIsCurrent
<1>3. ShownAttemptListens'
  BY <1>0, ShownStays DEF Showing
<1>4. CallTypes' /\ Awaited' /\ SelectedForACall'
  BY <1>0, CallInitStep
<1>5. CodesFollowAlerts' /\ UsedIsServed'
  BY <1>0, CodesAreKept DEF Listening
<1>. QED
  BY <1>1, <1>2, <1>3, <1>4, <1>5 DEF IInv

LEMMA LoadedStep == ASSUME IInv, NEW c \in Calls, Loaded(c) PROVE IInv'
<1>1. PICK a \in Attempts \ Made :
        /\ call' = [call EXCEPT ![c] = "waiting"] /\ waits' = [waits EXCEPT ![c] = a]
        /\ initPromise' = a
        /\ stage' = [stage EXCEPT ![a] = IF transport # None THEN "connecting" ELSE "account"]
  BY DEF Loaded
<1>2. /\ call[c] = "loading"
      /\ UNCHANGED <<root, isOpen, mount, config, fades, codes, given, initPending>>
      /\ UNCHANGED <<listener, captured, current, built, starting, transport, hears, proposal,
                     opening, selecting, closing, errors, taken>>
  BY DEF Loaded, alertVars, rootVars
<1>3. /\ stage[a] = "none" /\ stage' \in [Attempts -> Stages]
      /\ stage'[a] \in {"connecting", "account"}
      /\ \A b \in Attempts : b # a => stage'[b] = stage[b]
  BY <1>1 DEF IInv, CallTypes, Stages, Made
<1>4. /\ call' \in [Calls -> CallStates] /\ call'[c] = "waiting"
      /\ waits' \in [Calls -> Attempts \cup {None}] /\ waits'[c] = a
      /\ \A d \in Calls : d # c => call'[d] = call[d] /\ waits'[d] = waits[d]
  BY <1>1 DEF IInv, CallTypes, CallStates
<1>5. Made' = Made \cup {a}
  BY <1>3 DEF Made
<1>6. AlertTypes' /\ CodeTypes' /\ TransportTypes' /\ CallTypes'
  BY <1>1, <1>2, <1>3, <1>4 DEF IInv, AlertTypes, CodeTypes, TransportTypes, CallTypes
<1>7. ThereIsAnAlert' /\ SelectedTransportIsCurrent'
  BY <1>2 DEF IInv, ThereIsAnAlert, SelectedTransportIsCurrent
<1>8. BuiltInOrder'
  BY <1>2, <1>3 DEF IInv, BuiltInOrder, Building
<1>9. ShownAttemptListens'
  BY <1>2, <1>3, ShownIsListening, ShownStays DEF Showing
<1>10. Awaited'
  <2>1. \A d \in Calls : call'[d] \in {"waiting", "going"} => waits'[d] \in Made'
    BY <1>4, <1>5 DEF IInv, Awaited
  <2>2. ASSUME NEW b \in Made'
        PROVE  \E d \in Calls : waits'[d] = b /\ call'[d] \in {"waiting", "going"}
    <3>1. CASE b = a
      BY <3>1, <1>4
    <3>2. CASE b # a
      <4>1. PICK d \in Calls : waits[d] = b /\ call[d] \in {"waiting", "going"}
        BY <2>2, <3>2, <1>5 DEF IInv, Awaited
      <4>. QED
        BY <4>1, <1>2, <1>4
    <3>. QED
      BY <3>1, <3>2
  <2>. QED
    BY <1>1, <1>2, <1>5, <2>1, <2>2 DEF IInv, Awaited
<1>11. SelectedForACall'
  <2>. SUFFICES ASSUME transport # None \/ selecting # {}
                PROVE  \E d \in Calls : GoesOn(d)'
    BY <1>2 DEF SelectedForACall
  <2>1. PICK d \in Calls : GoesOn(d)
    BY DEF IInv, SelectedForACall
  <2>2. d # c /\ (call[d] = "waiting" => waits[d] \in Attempts /\ waits[d] # a)
    BY <2>1, <1>2, <1>3 DEF GoesOn, IInv, Awaited, Made
  <2>3. GoesOn(d)'
    BY <2>1, <2>2, <1>3, <1>4 DEF GoesOn
  <2>. QED
    BY <2>3
<1>12. CodesFollowAlerts' /\ UsedIsServed'
  BY <1>2, <1>3, CodesAreKept DEF Listening
<1>. QED
  BY <1>6, <1>7, <1>8, <1>9, <1>10, <1>11, <1>12 DEF IInv

LEMMA GoStep == ASSUME IInv, NEW c \in Calls, Go(c) PROVE IInv'
<1>1. /\ call[c] = "waiting" /\ call' = [call EXCEPT ![c] = "going"] /\ initPending' = FALSE
      /\ UNCHANGED <<root, isOpen, mount, config, fades, codes, given, waits, initPromise, stage>>
      /\ UNCHANGED <<listener, captured, current, built, starting, transport, hears, proposal,
                     opening, selecting, closing, errors, taken>>
  BY DEF Go, alertVars, rootVars
<1>2. /\ call' \in [Calls -> CallStates] /\ call'[c] = "going"
      /\ \A d \in Calls : d # c => call'[d] = call[d]
  BY <1>1 DEF IInv, CallTypes, CallStates
<1>3. AlertTypes' /\ CodeTypes' /\ TransportTypes' /\ CallTypes'
  BY <1>1, <1>2 DEF IInv, AlertTypes, CodeTypes, TransportTypes, CallTypes
<1>4. ThereIsAnAlert' /\ BuiltInOrder' /\ SelectedTransportIsCurrent'
  BY <1>1 DEF IInv, ThereIsAnAlert, BuiltInOrder, Building, SelectedTransportIsCurrent
<1>5. ShownAttemptListens'
  BY <1>1, ShownStays DEF Showing
<1>6. Awaited'
  <2>1. Made' = Made
    BY <1>1 DEF Made
  <2>2. \A d \in Calls : call'[d] \in {"waiting", "going"} <=> call[d] \in {"waiting", "going"}
    BY <1>1, <1>2
  <2>. QED
    BY <1>1, <2>1, <2>2 DEF IInv, Awaited
<1>7. SelectedForACall'
  BY <1>2 DEF SelectedForACall, GoesOn
<1>8. CodesFollowAlerts' /\ UsedIsServed'
  BY <1>1, CodesAreKept DEF Listening
<1>. QED
  BY <1>3, <1>4, <1>5, <1>6, <1>7, <1>8 DEF IInv

-----------------------------------------------------------------------------
(***************************************************************************)
(* The executor of an attempt's promise                                    *)
(***************************************************************************)

LEMMA ConnectStep == ASSUME IInv, NEW a \in Attempts, Connect(a) PROVE IInv'
<1>1. /\ stage[a] = "connecting" /\ stage' = [stage EXCEPT ![a] = "resolved"]
      /\ UNCHANGED <<root, isOpen, mount, config, fades, codes, given, call, waits,
                     initPromise, initPending>>
      /\ UNCHANGED <<listener, captured, current, built, starting, transport, proposal,
                     opening, selecting, closing, errors, taken>>
  BY DEF Connect, alertVars, rootVars
<1>2. hears \subseteq hears' /\ hears' \subseteq Generations \X Types
  <2>1. transport \in Generations \X Types
    BY DEF Connect, IInv, TransportTypes
  <2>. QED
    BY <2>1 DEF Connect, IInv, TransportTypes
<1>3. /\ stage' \in [Attempts -> Stages] /\ stage'[a] = "resolved"
      /\ \A b \in Attempts : b # a => stage'[b] = stage[b]
  BY <1>1, StageMoves DEF Stages
<1>4. AlertTypes' /\ CodeTypes' /\ TransportTypes' /\ CallTypes'
  BY <1>1, <1>2, <1>3 DEF IInv, AlertTypes, CodeTypes, TransportTypes, CallTypes
<1>5. ThereIsAnAlert' /\ SelectedTransportIsCurrent'
  BY <1>1 DEF IInv, ThereIsAnAlert, SelectedTransportIsCurrent
<1>6. BuiltInOrder'
  BY <1>1, <1>3 DEF IInv, BuiltInOrder, Building
<1>7. ShownAttemptListens'
  BY <1>1, <1>2, <1>3, ShownIsListening, ShownStays DEF Showing
<1>8. Awaited' /\ SelectedForACall'
  BY <1>1, <1>3, MadeStays, CallsGoOn
<1>9. CodesFollowAlerts' /\ UsedIsServed'
  BY <1>1, <1>2, <1>3, CodesAreKept DEF Listening
<1>. QED
  BY <1>4, <1>5, <1>6, <1>7, <1>8, <1>9 DEF IInv

LEMMA BuildTransportsStep == ASSUME IInv, NEW a \in Attempts, BuildTransports(a) PROVE IInv'
<1>1. /\ InitInternalTransports(a)
      /\ UNCHANGED <<root, isOpen, mount, config, fades, codes, given, call, waits,
                     initPromise, initPending>>
      /\ UNCHANGED <<listener, starting, transport, proposal,
                     opening, selecting, closing, errors, taken>>
  BY DEF BuildTransports, alertVars, rootVars
<1>2. PICK s \in {"p2p", "wc", "select"} :
        stage' = [stage EXCEPT ![a] = s] /\ stage[a] \in {"account", "p2p", "wc"}
  BY <1>1 DEF InitInternalTransports
<1>3. /\ stage' \in [Attempts -> Stages] /\ stage'[a] = s
      /\ \A b \in Attempts : b # a => stage'[b] = stage[b]
  BY <1>2, StageMoves DEF Stages
<1>4. /\ \A g \in Generations, t \in {"pm", "p2p"} : <<g, t>> \in hears => <<g, t>> \in hears'
      /\ \A b \in Attempts : b # a => captured'[b] = captured[b]
  BY <1>1 DEF InitInternalTransports, Constructed, IInv, TransportTypes
<1>5. TransportTypes' /\ BuiltInOrder' /\ SelectedTransportIsCurrent'
  <2>0. TransportTypes /\ BuiltInOrder /\ SelectedTransportIsCurrent
    BY DEF IInv
  <2>1. CASE stage[a] = "account" /\ \E t \in Types : current[t] # None
    <3>1. s = "select" /\ UNCHANGED <<captured, current, built, hears>>
      BY <1>1, <1>2, <1>3, <2>1 DEF InitInternalTransports
    <3>. QED
      BY <1>1, <1>3, <2>0, <3>1 DEF TransportTypes, BuiltInOrder, Building, SelectedTransportIsCurrent
  <2>2. CASE stage[a] = "account" /\ \A t \in Types : current[t] = None
    <3>1. /\ built < NGenerations /\ built' = built + 1
          /\ current' = [current EXCEPT !["pm"] = built + 1]
          /\ captured' = [captured EXCEPT ![a]["pm"] = built + 1]
          /\ stage'[a] = "p2p" /\ UNCHANGED hears
      BY <1>1, <1>3, <2>2 DEF InitInternalTransports
    <3>2. built' \in 0..NGenerations /\ built + 1 \in Generations
      BY <2>0, <3>1, PairingAssumption DEF TransportTypes, Generations
    <3>3. /\ current' \in [Types -> Generations \cup {None}] /\ current'["pm"] = built + 1
          /\ current'["p2p"] = None /\ current'["wc"] = None
      BY <2>0, <2>2, <3>1, <3>2 DEF TransportTypes, Types
    <3>4. /\ captured' \in [Attempts -> [Types -> Generations \cup {None}]]
          /\ captured'[a]["pm"] = built + 1
      BY <2>0, <3>1, <3>2 DEF TransportTypes, Types
    <3>5. TransportTypes'
      BY <1>1, <2>0, <3>1, <3>2, <3>3, <3>4 DEF TransportTypes
    <3>6. \A b \in Attempts : ~Building(b)
      BY <2>0, <2>2, NumbersAreNotNone DEF BuiltInOrder, Types
    <3>7. BuiltInOrder'
      BY <1>3, <3>2, <3>3, <3>4, <3>6 DEF BuiltInOrder, Building
    <3>8. transport = None
      BY <2>0, <2>2, NumbersAreNotNone DEF TransportTypes, SelectedTransportIsCurrent
    <3>. QED
      BY <1>1, <3>5, <3>7, <3>8 DEF SelectedTransportIsCurrent
  <2>3. ASSUME NEW t \in {"p2p", "wc"}, stage[a] = t
        PROVE  TransportTypes' /\ BuiltInOrder' /\ SelectedTransportIsCurrent'
    <3> DEFINE g == captured[a]["pm"]
    <3>1. /\ current' = [current EXCEPT ![t] = g] /\ hears' = Constructed(hears, g, t)
          /\ s = (IF t = "p2p" THEN "wc" ELSE "select")
          /\ UNCHANGED <<captured, built>>
      BY <1>1, <1>2, <1>3, <2>3 DEF InitInternalTransports
    <3>2. g \in Generations /\ current["pm"] = g /\ current[t] = None
      BY <2>0, <2>3 DEF BuiltInOrder, Building
    <3>3. /\ current' \in [Types -> Generations \cup {None}] /\ current'[t] = g
          /\ \A x \in Types : x # t => current'[x] = current[x]
      BY <2>0, <3>1, <3>2 DEF TransportTypes, Types
    <3>4. hears' \subseteq Generations \X Types
      BY <2>0, <3>1, <3>2 DEF TransportTypes, Constructed, Types
    <3>5. TransportTypes'
      BY <1>1, <2>0, <3>1, <3>3, <3>4 DEF TransportTypes
    <3>6. \A b \in Attempts : b # a => ~Building(b)
      BY <2>0, <2>3 DEF BuiltInOrder, Building
    <3>7. BuiltInOrder'
      BY <1>3, <2>0, <2>3, <3>1, <3>2, <3>3, <3>6 DEF BuiltInOrder, Building, Types
    <3>8. SelectedTransportIsCurrent'
      BY <1>1, <2>0, <3>2, <3>3, NumbersAreNotNone DEF TransportTypes, SelectedTransportIsCurrent
    <3>. QED
      BY <3>5, <3>7, <3>8
  <2>. QED
    BY <1>2, <2>1, <2>2, <2>3
<1>6. AlertTypes' /\ CodeTypes' /\ CallTypes'
  BY <1>1, <1>3 DEF IInv, AlertTypes, CodeTypes, CallTypes
<1>7. ThereIsAnAlert'
  BY <1>1 DEF IInv, ThereIsAnAlert
<1>8. ShownAttemptListens'
  BY <1>1, <1>2, <1>3, <1>4, ShownIsListening, ShownStays DEF Showing
<1>9. Awaited' /\ SelectedForACall'
  BY <1>1, <1>2, <1>3, MadeStays, CallsGoOn
<1>10. CodesFollowAlerts' /\ UsedIsServed'
  <2>1. \A b \in Attempts : captured'[b]["p2p"] = captured[b]["p2p"]
    BY <1>1 DEF InitInternalTransports, IInv, TransportTypes, Types
  <2>. QED
    BY <1>1, <1>2, <1>3, <1>4, <2>1, CodesAreKept DEF Listening
<1>. QED
  BY <1>5, <1>6, <1>7, <1>8, <1>9, <1>10 DEF IInv

LEMMA GivesUpStep == ASSUME IInv, NEW a \in Attempts, GivesUp(a) PROVE IInv'
<1>1. /\ stage[a] = "select" /\ stage' = [stage EXCEPT ![a] = "stuck"]
      /\ UNCHANGED <<root, isOpen, mount, config, fades, codes, given, call, waits,
                     initPromise, initPending>>
      /\ UNCHANGED <<listener, captured, current, built, starting, transport, proposal,
                     hears, opening, selecting, closing, errors, taken>>
  BY DEF GivesUp, alertVars, rootVars
<1>2. /\ stage' \in [Attempts -> Stages] /\ stage'[a] = "stuck"
      /\ \A b \in Attempts : b # a => stage'[b] = stage[b]
  BY <1>1, StageMoves DEF Stages
<1>3. AlertTypes' /\ CodeTypes' /\ TransportTypes' /\ CallTypes'
  BY <1>1, <1>2 DEF IInv, AlertTypes, CodeTypes, TransportTypes, CallTypes
<1>4. ThereIsAnAlert' /\ SelectedTransportIsCurrent'
  BY <1>1 DEF IInv, ThereIsAnAlert, SelectedTransportIsCurrent
<1>5. BuiltInOrder'
  BY <1>1, <1>2 DEF IInv, BuiltInOrder, Building
<1>6. ShownAttemptListens'
  BY <1>1, <1>2, ShownIsListening, ShownStays DEF Showing
<1>7. Awaited' /\ SelectedForACall'
  BY <1>1, <1>2, MadeStays, CallsGoOn
<1>8. CodesFollowAlerts' /\ UsedIsServed'
  BY <1>1, <1>2, CodesAreKept DEF Listening
<1>. QED
  BY <1>3, <1>4, <1>5, <1>6, <1>7, <1>8 DEF IInv

LEMMA PairInitStep == ASSUME IInv, NEW a \in Attempts, PairInit(a) PROVE IInv'
<1>0. AlertTypes /\ CodeTypes /\ TransportTypes /\ \A t \in Types : current[t] \in Generations
  BY DEF PairInit, IInv, TransportTypes
<1>1. /\ stage[a] = "select" /\ stage' = [stage EXCEPT ![a] = "listening"]
      /\ captured' = [captured EXCEPT ![a] = current] /\ listener' = ListenFor(a)
      /\ hears' = hears \cup {<<current["pm"], "pm">>}
      /\ starting' = IF Tried(current["p2p"]) THEN starting ELSE starting \cup {a}
      /\ OpenFor(a)
      /\ UNCHANGED <<given, call, waits, initPromise, initPending, current, built,
                     proposal, transport, opening, selecting, closing, errors, taken>>
  BY DEF PairInit
<1>2. OpenAlert(a) /\ codes' = [codes EXCEPT ![a]["pm"] = "ready"]
  BY <1>1, NumbersAreNotNone DEF OpenFor
<1>3. /\ stage' \in [Attempts -> Stages] /\ stage'[a] = "listening"
      /\ \A b \in Attempts : b # a => stage'[b] = stage[b]
  BY <1>1, StageMoves DEF Stages
<1>4. /\ captured' \in [Attempts -> [Types -> Generations \cup {None}]] /\ captured'[a] = current
      /\ \A b \in Attempts : b # a => captured'[b] = captured[b]
  BY <1>0, <1>1 DEF TransportTypes
<1>5. /\ listener' \in [Generations -> [Types -> Attempts \cup {None}]]
      /\ \A g \in Generations, t \in Types : listener'[g][t] \in {a, listener[g][t]}
      /\ \A t \in Types : listener'[current[t]][t] = a
  BY <1>0, <1>1 DEF ListenFor, TransportTypes
<1>6. /\ codes' \in [Attempts -> [Types -> {"pending", "ready", "empty"}]]
      /\ codes'[a]["pm"] = "ready"
      /\ \A b \in Attempts, t \in Types : b # a \/ t # "pm" => codes'[b][t] = codes[b][t]
  BY <1>0, <1>2 DEF CodeTypes, Types
<1>7. "pm" \in Types /\ "p2p" \in Types
  BY DEF Types
<1>8. hears' \subseteq Generations \X Types /\ starting' \subseteq Attempts
  BY <1>0, <1>1, <1>7 DEF TransportTypes
<1>9. /\ AlertTypes' /\ (root = "there" => root' = "there") /\ (isOpen' => root' = "there")
      /\ config' = a \/ UNCHANGED rootVars
  BY <1>0, <1>1, <1>2, OpenStep DEF AlertTypes
<1>10. CodeTypes' /\ CallTypes' /\ TransportTypes'
  BY <1>1, <1>3, <1>4, <1>5, <1>6, <1>8 DEF IInv, CodeTypes, CallTypes, TransportTypes
<1>11. ThereIsAnAlert' /\ SelectedTransportIsCurrent'
  BY <1>1, <1>9 DEF IInv, ThereIsAnAlert, SelectedTransportIsCurrent
<1>12. BuiltInOrder'
  BY <1>1, <1>3, <1>4 DEF IInv, BuiltInOrder, Building
<1>13. ShownAttemptListens'
  <2>1. CASE config' = a
    <3>1. \A t \in {"pm", "p2p"} : current[t] \in Generations /\ listener'[current[t]][t] # None
      BY <1>0, <1>5, <1>7, NumbersAreNotNone
    <3>. QED
      BY <2>1, <1>1, <1>3, <1>4, <3>1 DEF ShownAttemptListens
  <2>2. CASE config' # a
    <3>1. UNCHANGED <<root, isOpen, config>> /\ config # a
      BY <2>2, <1>9 DEF rootVars
    <3>2. \A g \in Generations, t \in Types : listener[g][t] # None => listener'[g][t] # None
      BY <1>5, NumbersAreNotNone
    <3>. QED
      BY <1>1, <1>3, <1>4, <3>1, <3>2, ShownStays DEF Showing
  <2>. QED
    BY <2>1, <2>2
<1>14. Awaited'
  <2>1. Made' = Made /\ a \in Made
    BY <1>1, <1>3 DEF Made
  <2>. QED
    BY <1>1, <1>5, <2>1 DEF IInv, Awaited
<1>15. SelectedForACall'
  BY <1>1, <1>3, CallsGoOn
<1>16. CodesFollowAlerts /\ UsedIsServed /\ starting \subseteq Attempts
  BY <1>0 DEF IInv, TransportTypes
<1>17. \A t \in Types : codes[a][t] = "pending"
  BY <1>1, <1>16 DEF CodesFollowAlerts, Listening
<1>18. a \notin starting
  BY <1>7, <1>16, <1>17 DEF CodesFollowAlerts, Opened, CodeKnown
<1>19. CodesFollowAlerts'
  <2>1. Opened' = Opened \cup {a}
    BY <1>6, <1>7 DEF Opened, CodeKnown
  <2>2. \A b \in Attempts : ~Listening(b)' => b # a /\ ~Listening(b)
    BY <1>3 DEF Listening
  <2>. QED
    BY <1>1, <1>6, <1>7, <1>16, <1>17, <2>1, <2>2 DEF CodesFollowAlerts
<1>20. UsedIsServed'
  <2>1. ASSUME NEW g, Served(g) PROVE Served(g)'
    <3>1. CASE <<g, "p2p">> \in hears
      BY <1>1, <3>1 DEF Served
    <3>2. CASE \E b \in starting : captured[b]["p2p"] = g
      BY <1>1, <1>4, <1>16, <1>18, <3>2 DEF Served
    <3>3. CASE Unreached(g)
      BY <1>4, <1>6, <1>7, <1>17, <3>3 DEF Served, Unreached
    <3>. QED
      BY <2>1, <3>1, <3>2, <3>3 DEF Served
  <2>2. PICK g : g = current["p2p"]
    OBVIOUS
  <2>3. Served(g)'
    <3>1. CASE Tried(g)
      <4>1. Served(g)
        BY <1>0, <1>7, <1>16, <2>2, <3>1, NumbersAreNotNone DEF Tried, Served, UsedIsServed
      <4>. QED
        BY <2>1, <4>1
    <3>2. CASE ~Tried(g)
      BY <1>1, <1>4, <2>2, <3>2 DEF Served
    <3>. QED
      BY <3>1, <3>2
  <2>4. ASSUME NEW b \in Attempts, NEW x, x = captured'[b]["p2p"], x # None
        PROVE  Served(x)'
    BY <1>4, <1>16, <2>1, <2>2, <2>3, <2>4 DEF UsedIsServed
  <2>5. \A b \in starting' : captured'[b]["p2p"] \in Generations
    BY <1>0, <1>1, <1>4, <1>7, <1>16 DEF UsedIsServed
  <2>. QED
    BY <2>4, <2>5 DEF UsedIsServed
<1>. QED
  BY <1>9, <1>10, <1>11, <1>12, <1>13, <1>14, <1>15, <1>19, <1>20 DEF IInv

LEMMA P2PStartedStep == ASSUME IInv, NEW a \in Attempts, P2PStarted(a) PROVE IInv'
<1>0. /\ CodeTypes /\ TransportTypes /\ CodesFollowAlerts /\ UsedIsServed
      /\ starting \subseteq Attempts /\ "p2p" \in Types
  BY DEF IInv, TransportTypes, Types
<1>1. /\ starting' = starting \ {a} /\ hears' = hears \cup {<<captured[a]["p2p"], "p2p">>}
      /\ CodeOf(a, "p2p", "ready")
      /\ UNCHANGED <<root, isOpen, mount, config, fades, given, call, waits, initPromise,
                     initPending, stage>>
      /\ UNCHANGED <<listener, captured, current, built, proposal, transport, opening,
                     selecting, closing, errors, taken>>
  BY DEF P2PStarted, rootVars
<1>2. a \in starting /\ a \in Opened /\ captured[a]["p2p"] \in Generations
  BY <1>0 DEF P2PStarted, CodesFollowAlerts, UsedIsServed
<1>3. /\ codes' \in [Attempts -> [Types -> {"pending", "ready", "empty"}]]
      /\ Listening(a) /\ Opened \subseteq Opened'
      /\ \A b \in Attempts, x \in Types : b # a \/ x # "p2p" => codes'[b][x] = codes[b][x]
  BY <1>1, <1>2, CodeStep
<1>4. AlertTypes' /\ CodeTypes' /\ CallTypes' /\ TransportTypes'
  <2>1. hears' \subseteq Generations \X Types /\ starting' \subseteq Attempts
    BY <1>0, <1>1, <1>2 DEF TransportTypes
  <2>. QED
    BY <1>1, <1>3, <2>1 DEF IInv, AlertTypes, CodeTypes, CallTypes, TransportTypes
<1>5. ThereIsAnAlert' /\ BuiltInOrder' /\ SelectedTransportIsCurrent'
  BY <1>1 DEF IInv, ThereIsAnAlert, BuiltInOrder, Building, SelectedTransportIsCurrent
<1>6. ShownAttemptListens'
  BY <1>1, ShownStays DEF Showing
<1>7. Awaited' /\ SelectedForACall'
  BY <1>1, MadeStays, CallsGoOn
<1>8. CodesFollowAlerts'
  BY <1>0, <1>1, <1>3 DEF CodesFollowAlerts, Listening
<1>9. UsedIsServed'
  <2>1. codes[a]["p2p"] = "pending"
    BY <1>0, <1>2 DEF CodesFollowAlerts
  <2>2. ASSUME NEW g, Served(g) PROVE Served(g)'
    BY <1>0, <1>1, <1>3, <2>1, <2>2 DEF Served, Unreached
  <2>. QED
    BY <1>0, <1>1, <2>2 DEF UsedIsServed
<1>. QED
  BY <1>4, <1>5, <1>6, <1>7, <1>8, <1>9 DEF IInv

LEMMA P2PCodeStep == ASSUME IInv, NEW a \in Attempts, P2PCode(a) PROVE IInv'
<1>1. /\ a \in Opened /\ a \notin starting /\ codes[a]["p2p"] = "pending"
      /\ CodeOf(a, "p2p", "ready")
      /\ UNCHANGED <<root, isOpen, mount, config, fades, given, call, waits, initPromise,
                     initPending, stage>>
      /\ UNCHANGED <<listener, captured, current, built, hears, starting, proposal, transport,
                     opening, selecting, closing, errors, taken>>
  BY DEF P2PCode, rootVars, initVars
<1>2. codes' \in [Attempts -> [Types -> {"pending", "ready", "empty"}]]
  BY <1>1, CodeStep
<1>3. AlertTypes' /\ CodeTypes' /\ CallTypes' /\ TransportTypes'
  BY <1>1, <1>2 DEF IInv, AlertTypes, CodeTypes, CallTypes, TransportTypes
<1>4. ThereIsAnAlert' /\ BuiltInOrder' /\ SelectedTransportIsCurrent'
  BY <1>1 DEF IInv, ThereIsAnAlert, BuiltInOrder, Building, SelectedTransportIsCurrent
<1>5. ShownAttemptListens'
  BY <1>1, ShownStays DEF Showing
<1>6. Awaited' /\ SelectedForACall'
  BY <1>1, MadeStays, CallsGoOn
<1>7. CodesFollowAlerts' /\ UsedIsServed'
  BY <1>1, CodeKeepsServed
<1>. QED
  BY <1>3, <1>4, <1>5, <1>6, <1>7 DEF IInv

LEMMA P2PFailsStep == ASSUME IInv, NEW a \in Attempts, P2PFails(a) PROVE IInv'
<1>0. /\ CodesFollowAlerts /\ UsedIsServed /\ starting \subseteq Attempts /\ "p2p" \in Types
  BY DEF IInv, TransportTypes, Types
<1>1. /\ a \in starting /\ CodeOf(a, "p2p", "empty") /\ closing' = closing \cup {a}
      /\ starting' = starting \ {a} /\ errors' = errors + 1 /\ CloseAlert
      /\ UNCHANGED <<given, call, waits, initPromise, initPending, stage>>
      /\ UNCHANGED <<listener, captured, current, built, hears, proposal, transport, opening,
                     selecting, taken>>
  BY DEF P2PFails
<1>2. errors' \in Nat
  BY <1>1 DEF IInv, AlertTypes
<1>3. /\ AlertTypes' /\ root' = root /\ config' = config
      /\ (isOpen' => isOpen) /\ (root = "there" => ~isOpen')
  BY <1>1, <1>2, CloseStep
<1>4. a \in Opened
  BY <1>0, <1>1 DEF CodesFollowAlerts
<1>5. /\ codes' \in [Attempts -> [Types -> {"pending", "ready", "empty"}]]
      /\ codes'[a]["p2p"] = "empty" /\ Opened \subseteq Opened' /\ Listening(a)
      /\ \A b \in Attempts, x \in Types : b # a \/ x # "p2p" => codes'[b][x] = codes[b][x]
  BY <1>1, <1>4, CodeStep
<1>6. CodeTypes' /\ CallTypes' /\ TransportTypes'
  BY <1>1, <1>5 DEF IInv, CodeTypes, CallTypes, TransportTypes
<1>7. ThereIsAnAlert' /\ BuiltInOrder' /\ SelectedTransportIsCurrent'
  BY <1>1, <1>3 DEF IInv, ThereIsAnAlert, BuiltInOrder, Building, SelectedTransportIsCurrent
<1>8. ShownAttemptListens'
  BY <1>1, <1>3, ShownStays DEF Showing
<1>9. Awaited' /\ SelectedForACall'
  BY <1>1, MadeStays, CallsGoOn
<1>10. CodesFollowAlerts'
  BY <1>0, <1>1, <1>5 DEF CodesFollowAlerts, Listening
<1>11. UsedIsServed'
  <2>1. ASSUME NEW g, Served(g) PROVE Served(g)'
    <3>1. CASE captured[a]["p2p"] = g
      BY <1>0, <1>1, <1>5, <3>1 DEF Served, Unreached
    <3>2. CASE captured[a]["p2p"] # g
      BY <1>0, <1>1, <1>5, <2>1, <3>2 DEF Served, Unreached
    <3>. QED
      BY <3>1, <3>2
  <2>. QED
    BY <1>0, <1>1, <2>1 DEF UsedIsServed
<1>. QED
  BY <1>3, <1>6, <1>7, <1>8, <1>9, <1>10, <1>11 DEF IInv

LEMMA ErrorAlertStep == ASSUME IInv, ErrorAlert PROVE IInv'
<1>1. /\ errors > 0 /\ errors' = errors - 1 /\ OpenAlert(Info)
      /\ UNCHANGED <<codes, given, call, waits, initPromise, initPending, stage>>
      /\ UNCHANGED <<listener, captured, current, built, hears, starting, proposal, transport,
                     opening, selecting, closing, taken>>
  BY DEF ErrorAlert, OpenFor
<1>2. errors' \in Nat
  BY <1>1 DEF IInv, AlertTypes
<1>3. /\ AlertTypes' /\ (root = "there" => root' = "there") /\ (isOpen' => root' = "there")
      /\ config' = Info \/ UNCHANGED rootVars
  BY <1>1, <1>2, OpenStep
<1>4. CodeTypes' /\ CallTypes' /\ TransportTypes'
  BY <1>1 DEF IInv, CodeTypes, CallTypes, TransportTypes
<1>5. ThereIsAnAlert' /\ BuiltInOrder' /\ SelectedTransportIsCurrent'
  BY <1>1, <1>3 DEF IInv, ThereIsAnAlert, BuiltInOrder, Building, SelectedTransportIsCurrent
<1>6. ShownAttemptListens'
  <2>1. CASE config' = Info
    BY <2>1, NumbersAreNotNone DEF ShownAttemptListens
  <2>2. CASE UNCHANGED rootVars
    BY <1>1, <2>2, ShownStays DEF Showing, rootVars
  <2>. QED
    BY <1>3, <2>1, <2>2
<1>7. Awaited' /\ SelectedForACall'
  BY <1>1, MadeStays, CallsGoOn
<1>8. CodesFollowAlerts' /\ UsedIsServed'
  BY <1>1, CodesAreKept DEF Listening
<1>. QED
  BY <1>3, <1>4, <1>5, <1>6, <1>7, <1>8 DEF IInv

LEMMA WCCodeStep == ASSUME IInv, NEW a \in Attempts, WCCode(a) PROVE IInv'
<1>1. PICK is \in {"ready", "empty"} :
        /\ a \in Opened /\ codes[a]["wc"] = "pending" /\ CodeOf(a, "wc", is)
        /\ proposal' \in {a, None}
  BY DEF WCCode
<1>2. /\ UNCHANGED <<root, isOpen, mount, config, fades, given, call, waits, initPromise,
                     initPending, stage>>
      /\ UNCHANGED <<listener, captured, current, built, hears, starting, transport, opening,
                     selecting, closing, errors, taken>>
  BY DEF WCCode, rootVars
<1>3. codes' \in [Attempts -> [Types -> {"pending", "ready", "empty"}]]
  BY <1>1, CodeStep
<1>4. AlertTypes' /\ CodeTypes' /\ CallTypes' /\ TransportTypes'
  BY <1>1, <1>2, <1>3 DEF IInv, AlertTypes, CodeTypes, CallTypes, TransportTypes
<1>5. ThereIsAnAlert' /\ BuiltInOrder' /\ SelectedTransportIsCurrent'
  BY <1>2 DEF IInv, ThereIsAnAlert, BuiltInOrder, Building, SelectedTransportIsCurrent
<1>6. ShownAttemptListens'
  BY <1>2, ShownStays DEF Showing
<1>7. Awaited' /\ SelectedForACall'
  BY <1>2, MadeStays, CallsGoOn
<1>8. CodesFollowAlerts' /\ UsedIsServed'
  BY <1>1, <1>2, CodeKeepsServed
<1>. QED
  BY <1>4, <1>5, <1>6, <1>7, <1>8 DEF IInv

-----------------------------------------------------------------------------
(***************************************************************************)
(* The user and the wallets                                                *)
(***************************************************************************)

LEMMA TakeStep == ASSUME IInv, NEW c \in Codes, Take(c) PROVE IInv'
<1>1. /\ isOpen /\ taken' = taken \cup {c} /\ given' = given \cup {c}
      /\ UNCHANGED <<root, isOpen, mount, config, fades, codes, call, waits, initPromise,
                     initPending, stage>>
      /\ UNCHANGED <<listener, captured, current, built, hears, starting, proposal, transport,
                     opening, selecting, closing, errors>>
  BY DEF Take, Usable, rootVars
<1>2. AlertTypes' /\ CodeTypes' /\ CallTypes' /\ TransportTypes'
  BY <1>1 DEF IInv, AlertTypes, CodeTypes, CallTypes, TransportTypes
<1>3. ThereIsAnAlert' /\ BuiltInOrder' /\ SelectedTransportIsCurrent'
  BY <1>1 DEF IInv, ThereIsAnAlert, BuiltInOrder, Building, SelectedTransportIsCurrent
<1>4. ShownAttemptListens'
  BY <1>1, ShownStays DEF Showing
<1>5. Awaited' /\ SelectedForACall'
  BY <1>1, MadeStays, CallsGoOn
<1>6. CodesFollowAlerts' /\ UsedIsServed'
  BY <1>1, CodesAreKept DEF Listening
<1>. QED
  BY <1>2, <1>3, <1>4, <1>5, <1>6 DEF IInv

LEMMA ApproveStep == ASSUME IInv, NEW c \in Codes, Approve(c) PROVE IInv'
<1>1. /\ c \in given /\ given' = given \ {c}
      /\ opening' \subseteq opening \cup hears /\ proposal' \in {proposal, None}
      /\ UNCHANGED <<root, isOpen, mount, config, fades, codes, call, waits, initPromise,
                     initPending, stage>>
      /\ UNCHANGED <<listener, captured, current, built, hears, starting, transport,
                     selecting, closing, errors, taken>>
  BY DEF Approve, rootVars
<1>2. AlertTypes' /\ CodeTypes' /\ CallTypes' /\ TransportTypes'
  BY <1>1 DEF IInv, AlertTypes, CodeTypes, CallTypes, TransportTypes
<1>3. ThereIsAnAlert' /\ BuiltInOrder' /\ SelectedTransportIsCurrent'
  BY <1>1 DEF IInv, ThereIsAnAlert, BuiltInOrder, Building, SelectedTransportIsCurrent
<1>4. ShownAttemptListens'
  BY <1>1, ShownStays DEF Showing
<1>5. Awaited' /\ SelectedForACall'
  BY <1>1, MadeStays, CallsGoOn
<1>6. CodesFollowAlerts' /\ UsedIsServed'
  BY <1>1, CodesAreKept DEF Listening
<1>. QED
  BY <1>2, <1>3, <1>4, <1>5, <1>6 DEF IInv

LEMMA ChannelOpenedStep ==
    ASSUME IInv, NEW g \in Generations, NEW t \in Types, ChannelOpened(g, t)
    PROVE  IInv'
<1>0. AlertTypes /\ CodeTypes /\ CallTypes /\ TransportTypes /\ root = "there"
  BY DEF ChannelOpened, IInv, ThereIsAnAlert
<1>1. /\ opening' = opening \ {<<g, t>>}
      /\ UNCHANGED <<codes, given, call, waits, initPending, captured, current, built>>
      /\ UNCHANGED <<hears, starting, proposal, closing, errors, taken>>
  BY DEF ChannelOpened
<1>2. CASE listener[g][t] = None
  <2>1. UNCHANGED <<root, isOpen, mount, config, fades, stage, listener, transport, initPromise,
                    selecting>>
    BY <1>2 DEF ChannelOpened, rootVars
  <2>2. AlertTypes' /\ CodeTypes' /\ CallTypes' /\ TransportTypes'
    BY <1>0, <1>1, <2>1 DEF AlertTypes, CodeTypes, CallTypes, TransportTypes
  <2>3. ThereIsAnAlert' /\ BuiltInOrder' /\ SelectedTransportIsCurrent'
    BY <1>1, <2>1 DEF IInv, ThereIsAnAlert, BuiltInOrder, Building, SelectedTransportIsCurrent
  <2>4. ShownAttemptListens'
    BY <1>1, <2>1, ShownStays DEF Showing
  <2>5. Awaited' /\ SelectedForACall'
    BY <1>1, <2>1, MadeStays, CallsGoOn
  <2>6. CodesFollowAlerts' /\ UsedIsServed'
    BY <1>1, <2>1, CodesAreKept DEF Listening
  <2>. QED
    BY <2>2, <2>3, <2>4, <2>5, <2>6 DEF IInv
<1>3. CASE listener[g][t] # None
  <2> DEFINE a == listener[g][t]
  <2>1. /\ CloseAlert /\ stage' = [stage EXCEPT ![a] = "resolved"]
        /\ selecting' = selecting \cup {t} /\ SetTransport(current[t], t)
        /\ listener' = [i \in Generations |-> [x \in Types |->
                           IF current[x] = i \/ <<i, x>> = <<g, t>> THEN None ELSE listener[i][x]]]
    BY <1>3 DEF ChannelOpened, Paired
  <2>2. a \in Made /\ a \in Attempts
    BY <1>3 DEF IInv, Awaited, Made
  <2>. HIDE DEF a
  <2>3. /\ stage' \in [Attempts -> Stages] /\ stage'[a] = "resolved"
        /\ \A b \in Attempts : b # a => stage'[b] = stage[b]
    BY <2>1, <2>2, StageMoves DEF Stages
  <2>4. /\ listener' \in [Generations -> [Types -> Attempts \cup {None}]]
        /\ \A i \in Generations, x \in Types : listener'[i][x] \in {listener[i][x], None}
    BY <1>0, <2>1 DEF TransportTypes
  <2>5. /\ transport' \in (Generations \X Types) \cup {None}
        /\ transport' # None => transport' = <<current[t], t>>
        /\ initPromise' \in {initPromise, None}
    BY <1>0, <2>1 DEF SetTransport, TransportTypes
  <2>6. AlertTypes' /\ root' = root /\ config' = config /\ ~isOpen'
    BY <1>0, <1>1, <2>1, CloseStep DEF AlertTypes
  <2>7. CodeTypes' /\ CallTypes' /\ TransportTypes'
    BY <1>0, <1>1, <2>1, <2>3, <2>4, <2>5 DEF CodeTypes, CallTypes, TransportTypes
  <2>8. ThereIsAnAlert' /\ SelectedTransportIsCurrent'
    BY <1>0, <1>1, <2>5, <2>6 DEF ThereIsAnAlert, SelectedTransportIsCurrent
  <2>9. BuiltInOrder'
    BY <1>1, <2>3 DEF IInv, BuiltInOrder, Building
  <2>10. ShownAttemptListens'
    BY <1>0, <2>3, <2>6 DEF IInv, ShownAttemptListens, Showing
  <2>11. Awaited'
    <3>1. \A b \in Attempts : stage'[b] = "none" <=> stage[b] = "none"
      BY <2>2, <2>3 DEF Made
    <3>. QED
      BY <1>1, <2>4, <2>5, <3>1, MadeStays
  <2>12. SelectedForACall'
    <3>1. PICK c \in Calls : waits[c] = a /\ call[c] \in {"waiting", "going"}
      BY <2>2 DEF IInv, Awaited
    <3>2. GoesOn(c)'
      BY <1>1, <2>3, <3>1 DEF GoesOn
    <3>. QED
      BY <3>2 DEF SelectedForACall
  <2>13. CodesFollowAlerts' /\ UsedIsServed'
    BY <1>1, <2>3, CodesAreKept DEF Listening
  <2>. QED
    BY <2>6, <2>7, <2>8, <2>9, <2>10, <2>11, <2>12, <2>13 DEF IInv
<1>. QED
  BY <1>2, <1>3

LEMMA SetActivePeerStep == ASSUME IInv, NEW t \in Types, SetActivePeer(t) PROVE IInv'
<1>0. TransportTypes
  BY DEF IInv
<1>1. /\ t \in selecting /\ selecting' = selecting \ {t}
      /\ UNCHANGED <<root, isOpen, mount, config, fades, codes, given, call, waits, initPending,
                     stage>>
      /\ UNCHANGED <<listener, captured, starting, proposal, opening, closing, errors, taken>>
      /\ t = "wc" => UNCHANGED <<transport, initPromise>>
      /\ t # "wc" => SetTransport(current'[t], t)
  BY DEF SetActivePeer, alertVars, rootVars
<1>2. \/ /\ \A x \in Types : current[x] = None
         /\ built < NGenerations /\ built' = built + 1
         /\ current' = [x \in Types |-> built + 1] /\ hears' = Constructed(hears, built + 1, "wc")
      \/ /\ ~\A x \in Types : current[x] = None
         /\ UNCHANGED <<built, current, hears>>
  BY DEF SetActivePeer
<1>3. /\ built' \in 0..NGenerations /\ current' \in [Types -> Generations \cup {None}]
      /\ hears' \subseteq Generations \X Types
      /\ \A g \in Generations, x \in {"pm", "p2p"} : <<g, x>> \in hears => <<g, x>> \in hears'
  <2>1. CASE /\ built < NGenerations /\ built' = built + 1
             /\ current' = [x \in Types |-> built + 1] /\ hears' = Constructed(hears, built + 1, "wc")
    <3>1. built' \in 0..NGenerations /\ built + 1 \in Generations
      BY <1>0, <2>1, PairingAssumption DEF TransportTypes, Generations
    <3>. QED
      BY <1>0, <2>1, <3>1 DEF TransportTypes, Constructed, Types
  <2>2. CASE UNCHANGED <<built, current, hears>>
    BY <1>0, <2>2 DEF TransportTypes
  <2>. QED
    BY <1>2, <2>1, <2>2
<1>4. /\ transport' \in (Generations \X Types) \cup {None}
      /\ initPromise' \in {initPromise, None}
      /\ t # "wc" /\ transport' # None => transport' = <<current'[t], t>>
  BY <1>0, <1>1, <1>3 DEF SetTransport, TransportTypes
<1>5. AlertTypes' /\ CodeTypes' /\ CallTypes' /\ TransportTypes'
  BY <1>0, <1>1, <1>3, <1>4 DEF IInv, AlertTypes, CodeTypes, CallTypes, TransportTypes
<1>6. ThereIsAnAlert'
  BY <1>1 DEF IInv, ThereIsAnAlert
<1>7. BuiltInOrder'
  <2>1. CASE \A x \in Types : current[x] = None
    <3>1. \A a \in Attempts : ~Building(a)
      BY <2>1, NumbersAreNotNone DEF IInv, BuiltInOrder, Types
    <3>. QED
      BY <1>1, <3>1 DEF BuiltInOrder, Building
  <2>2. CASE UNCHANGED current
    BY <1>1, <2>2 DEF IInv, BuiltInOrder, Building
  <2>. QED
    BY <1>2, <2>1, <2>2
<1>8. SelectedTransportIsCurrent'
  <2>1. CASE t # "wc"
    BY <1>4, <2>1 DEF SelectedTransportIsCurrent
  <2>2. CASE t = "wc"
    <3>1. \A x \in Types : current[x] = None => transport = None \/ transport[2] # x
      BY <1>0, NumbersAreNotNone DEF IInv, SelectedTransportIsCurrent, TransportTypes
    <3>. QED
      BY <1>0, <1>1, <1>2, <2>2, <3>1 DEF IInv, SelectedTransportIsCurrent, TransportTypes
  <2>. QED
    BY <2>1, <2>2
<1>9. ShownAttemptListens'
  BY <1>1, <1>3, ShownStays DEF Showing
<1>10. Awaited' /\ SelectedForACall'
  BY <1>1, <1>4, MadeStays, CallsGoOn
<1>11. CodesFollowAlerts' /\ UsedIsServed'
  BY <1>1, <1>3, CodesAreKept DEF Listening
<1>. QED
  BY <1>5, <1>6, <1>7, <1>8, <1>9, <1>10, <1>11 DEF IInv

LEMMA OnCloseStep == ASSUME IInv, OnClose PROVE IInv'
<1>1. /\ CloseAlert /\ closing' \subseteq closing \cup (Attempts \cap {config})
      /\ UNCHANGED <<codes, given, call, waits, initPromise, initPending, stage>>
      /\ UNCHANGED <<listener, captured, current, built, hears, starting, proposal, transport,
                     opening, selecting, errors, taken>>
  BY DEF OnClose
<1>2. AlertTypes' /\ root' = root /\ config' = config /\ (isOpen' => isOpen)
  BY <1>1, CloseStep DEF IInv, AlertTypes
<1>3. CodeTypes' /\ CallTypes' /\ TransportTypes'
  BY <1>1 DEF IInv, CodeTypes, CallTypes, TransportTypes
<1>4. ThereIsAnAlert' /\ BuiltInOrder' /\ SelectedTransportIsCurrent'
  BY <1>1, <1>2 DEF IInv, ThereIsAnAlert, BuiltInOrder, Building, SelectedTransportIsCurrent
<1>5. ShownAttemptListens'
  BY <1>1, <1>2, ShownStays DEF Showing
<1>6. Awaited' /\ SelectedForACall'
  BY <1>1, MadeStays, CallsGoOn
<1>7. CodesFollowAlerts' /\ UsedIsServed'
  BY <1>1, CodesAreKept DEF Listening
<1>. QED
  BY <1>2, <1>3, <1>4, <1>5, <1>6, <1>7 DEF IInv

\* Nothing is being built when an attempt is aborted: the page is idle.
LEMMA AbortStep == ASSUME IInv, NEW a \in Attempts, Idle, Abort(a) PROVE IInv'
<1>0. TransportTypes
  BY DEF IInv
<1>1. /\ closing' = closing \ {a}
      /\ current' = NoTransports /\ transport' = None /\ initPromise' = None
      /\ UNCHANGED <<root, isOpen, mount, config, fades, codes, given, call, waits, initPending,
                     stage>>
      /\ UNCHANGED <<listener, captured, built, starting, opening, selecting, errors, taken>>
  BY DEF Abort, GiveUpTransports, alertVars, rootVars
<1>2. /\ hears' \subseteq hears /\ proposal' \in Attempts \cup {None}
      /\ \A g \in Generations, t \in {"pm", "p2p"} : <<g, t>> \in hears => <<g, t>> \in hears'
  BY WCClosedStep DEF Abort
<1>3. current' \in [Types -> Generations \cup {None}]
  BY <1>1 DEF NoTransports
<1>4. AlertTypes' /\ CodeTypes' /\ CallTypes' /\ TransportTypes'
  BY <1>1, <1>2, <1>3 DEF IInv, AlertTypes, CodeTypes, CallTypes, TransportTypes
<1>5. ThereIsAnAlert' /\ SelectedTransportIsCurrent'
  BY <1>1 DEF IInv, ThereIsAnAlert, SelectedTransportIsCurrent
<1>6. BuiltInOrder'
  BY <1>1 DEF Idle, BuiltInOrder, Building
<1>7. ShownAttemptListens'
  BY <1>1, <1>2, ShownStays DEF Showing
<1>8. Awaited' /\ SelectedForACall'
  BY <1>1, MadeStays, CallsGoOn
<1>9. CodesFollowAlerts' /\ UsedIsServed'
  BY <1>1, <1>2, CodesAreKept DEF Listening
<1>. QED
  BY <1>4, <1>5, <1>6, <1>7, <1>8, <1>9 DEF IInv

\* The alert is rendered or unmounted, or nothing happens.
LEMMA AlertStep ==
    ASSUME IInv, UNCHANGED initVars, Render \/ FadeOut \/ UNCHANGED alertVars
    PROVE  IInv'
<1>1. /\ UNCHANGED <<call, waits, initPromise, initPending, stage, listener, captured, current>>
      /\ UNCHANGED <<built, hears, starting, proposal, transport, opening, selecting, closing,
                     errors, taken>>
  BY DEF initVars
<1>2. /\ UNCHANGED <<config, codes, given>>
      /\ Showing' => Showing
      /\ (isOpen => root = "there") => (isOpen' => root' = "there")
      /\ root = "there" => root' = "there"
  BY DEF Render, FadeOut, alertVars, rootVars, Showing
<1>3. AlertTypes'
  <2>1. CASE Render
    BY <1>1, <2>1 DEF IInv, AlertTypes, Render
  <2>2. CASE FadeOut
    <3>1. fades' \in Nat
      BY <2>2 DEF IInv, AlertTypes, FadeOut
    <3>2. mount' = FALSE /\ UNCHANGED <<root, isOpen, config>>
      BY <2>2 DEF FadeOut
    <3>. QED
      BY <1>1, <3>1, <3>2 DEF IInv, AlertTypes
  <2>3. CASE UNCHANGED alertVars
    BY <1>1, <2>3 DEF IInv, AlertTypes, alertVars, rootVars
  <2>. QED
    BY <2>1, <2>2, <2>3
<1>4. CodeTypes' /\ CallTypes' /\ TransportTypes'
  BY <1>1, <1>2 DEF IInv, CodeTypes, CallTypes, TransportTypes
<1>5. ThereIsAnAlert' /\ BuiltInOrder' /\ SelectedTransportIsCurrent'
  BY <1>1, <1>2 DEF IInv, ThereIsAnAlert, BuiltInOrder, Building, SelectedTransportIsCurrent
<1>6. ShownAttemptListens'
  BY <1>1, <1>2, ShownStays
<1>7. Awaited' /\ SelectedForACall'
  BY <1>1, MadeStays, CallsGoOn
<1>8. CodesFollowAlerts' /\ UsedIsServed'
  BY <1>1, <1>2, CodesAreKept DEF Listening
<1>. QED
  BY <1>3, <1>4, <1>5, <1>6, <1>7, <1>8 DEF IInv

-----------------------------------------------------------------------------
LEMMA NextKeepsIInv == IInv /\ [Next]_vars => IInv'
<1>. SUFFICES ASSUME IInv, [Next]_vars PROVE IInv'
  OBVIOUS
<1>1. CASE UNCHANGED vars
  BY <1>1, AlertStep DEF vars
<1>2. CASE \E c \in Calls : MakeRequest(c)
  BY <1>2, MakeRequestStep
<1>3. CASE React
  BY <1>3, LoadedStep, GoStep, BuildTransportsStep, GivesUpStep, PairInitStep, ChannelOpenedStep,
     SetActivePeerStep DEF React
<1>4. CASE Idle /\ Happen
  BY <1>4, AlertStep, RestartStep, ConnectStep, WCCodeStep, AbortStep, P2PStartedStep, P2PCodeStep,
     P2PFailsStep, ErrorAlertStep DEF Happen
<1>5. CASE Idle /\ User
  BY <1>5, TakeStep, ApproveStep, OnCloseStep DEF User
<1>. QED
  BY <1>1, <1>2, <1>3, <1>4, <1>5 DEF Next

-----------------------------------------------------------------------------
(***************************************************************************)
(* The theorems                                                            *)
(***************************************************************************)

LEMMA IInvHolds == Spec => []IInv
<1>1. Init => IInv
  BY InitIInv
<1>2. IInv /\ [Next]_vars => IInv'
  BY NextKeepsIInv
<1>. QED
  BY <1>1, <1>2, PTL DEF Spec

\* Every variable of the pairing and of its alert keeps its type.
THEOREM TypeCorrect == Spec => []TypeOK
<1>1. IInv => TypeOK
  BY IInvImplies
<1>. QED
  BY <1>1, IInvHolds, PTL

\* However requests, closings, failures and answers follow each other, the post
\* message and P2P codes an alert offers belong to transports that listen.
THEOREM OfferedCodesAreHeard == Spec => []ShownCodesAreHeard
<1>1. IInv => ShownCodesAreHeard
  BY IInvImplies
<1>. QED
  BY <1>1, IInvHolds, PTL

\* The transport requests go to is one of the transports the client keeps, although
\* the answer comes from a listener of any generation.
THEOREM SelectionIsCurrent == Spec => []SelectedTransportIsCurrent
<1>1. IInv => SelectedTransportIsCurrent
  BY IInvImplies
<1>. QED
  BY <1>1, IInvHolds, PTL

\* An alert that is open is of an attempt that still awaits its wallet.
THEOREM AnsweredAlertsClose == Spec => []PairedAlertIsClosed
<1>1. IInv => PairedAlertIsClosed
  BY IInvImplies
<1>. QED
  BY <1>1, IInvHolds, PTL

\* A wallet's answer that selects a transport lets a call go on.
THEOREM AnswersStartACall == Spec => []PairingStartsACall
<1>1. IInv => PairingStartsACall
  BY IInvImplies
<1>. QED
  BY <1>1, IInvHolds, PTL

-----------------------------------------------------------------------------
(***************************************************************************)
(* The pairing as the environment of the alert                             *)
(***************************************************************************)

\* One code that was pending.
LEMMA CodeOfComes ==
    ASSUME NEW a \in Opened, NEW t \in {"p2p", "wc"}, NEW is \in {"ready", "empty"},
           codes[a][t] = "pending", CodeOf(a, t, is)
    PROVE  CodeComes
<1>1. ~CodeKnown(<<a, t>>)
  BY DEF CodeKnown
<1>. QED
  BY <1>1 DEF CodeComes

LEMMA PairingIsClient == IInv /\ [Next]_vars => [ClientStep]_<<rootVars, codes>>
<1>. SUFFICES ASSUME IInv, [Next]_vars PROVE ClientStep \/ UNCHANGED <<rootVars, codes>>
  OBVIOUS
<1>0. CodesFollowAlerts /\ starting \subseteq Attempts /\ "pm" \in Types
  BY DEF IInv, TransportTypes, Types
<1>1. CASE \/ UNCHANGED vars
           \/ \E c \in Calls : \/ MakeRequest(c) \/ Loaded(c) \/ Go(c) \/ Restart(c)
           \/ \E a \in Attempts : BuildTransports(a) \/ GivesUp(a) \/ Connect(a) \/ Abort(a)
           \/ \E t \in Types : SetActivePeer(t)
           \/ \E c \in Codes : Take(c) \/ Approve(c)
  BY <1>1 DEF vars, alertVars, rootVars, MakeRequest, Loaded, Go, Restart, BuildTransports, GivesUp,
     Connect, Abort, SetActivePeer, Take, Approve
<1>2. ASSUME NEW a \in Attempts, PairInit(a) PROVE ClientStep
  <2>1. a \notin Opened
    BY <1>0, <1>2 DEF PairInit, CodesFollowAlerts, Listening, Opened, CodeKnown
  <2>. QED
    BY <1>2, <2>1 DEF PairInit, ClientStep
<1>3. CASE ErrorAlert
  BY <1>3 DEF ErrorAlert, ClientStep
<1>4. CASE \/ OnClose
           \/ \E g \in Generations, t \in Types : ChannelOpened(g, t)
  BY <1>4 DEF OnClose, ChannelOpened, Paired, ClientStep
<1>5. CASE (Render \/ FadeOut) /\ UNCHANGED initVars
  BY <1>5 DEF ClientStep
<1>6. ASSUME NEW a \in Attempts, P2PStarted(a) \/ P2PCode(a) \/ WCCode(a)
      PROVE  ClientStep
  <2>1. UNCHANGED rootVars
    BY <1>6 DEF P2PStarted, P2PCode, WCCode
  <2>2. PICK t \in {"p2p", "wc"}, is \in {"ready", "empty"} :
          a \in Opened /\ codes[a][t] = "pending" /\ CodeOf(a, t, is)
    BY <1>0, <1>6 DEF P2PStarted, P2PCode, WCCode, CodesFollowAlerts
  <2>. QED
    BY <2>1, <2>2, CodeOfComes DEF ClientStep
<1>7. ASSUME NEW a \in Attempts, P2PFails(a) PROVE ClientStep
  BY <1>0, <1>7, CodeOfComes DEF P2PFails, CodesFollowAlerts, ClientStep
<1>. QED
  BY <1>1, <1>2, <1>3, <1>4, <1>5, <1>6, <1>7 DEF Next, React, Happen, User

\* init() and what it starts open an alert once for each attempt and settle each of its
\* codes once and only then: what PairingAlert takes its environment to do.
THEOREM PairingUsesAlert == Spec => RootInit /\ AlertIsUsedAsAssumed
<1>1. Init => RootInit
  BY DEF Init
<1>2. IInv /\ [Next]_vars => [ClientStep]_<<rootVars, codes>>
  BY PairingIsClient
<1>. QED
  BY <1>1, <1>2, IInvHolds, PTL DEF Spec, AlertIsUsedAsAssumed

-----------------------------------------------------------------------------
(***************************************************************************)
(* The views of the alert (PairingAlert)                                   *)
(***************************************************************************)


Chooses(h) == h.live /\ h.do \in {"click", "link"}
Choosing == \E h \in awaits : Chooses(h)

\* The handlers of the first view do not overlap: all but a phone's long list is
\* disabled while one runs.
Orderly == ~(IsMobile /\ LongList)

\* Handlers that can still set the state, and codes that are shown, are of the
\* attempt whose alert it is.
CodesAreOfTheAlert ==
    /\ ui.view # "top-wallets" => config \in Attempts
    /\ ui.view = "install" => ui.wallet \in Wallets
    /\ ui.qr \in Codes => ui.qr[1] = config /\ CodeReady(ui.qr)
    /\ ui.other # "selection" => config \in Attempts /\ CodeReady(<<config, ui.other>>)
    /\ \A h \in awaits : h.live => h.code[1] = config /\ ui.wallet \in Wallets

HandlersFit ==
    /\ ui.extra => device = "phone"
    /\ \A h \in awaits :
        /\ h.do \in {"click", "link"} => h.code[2] = Standard(h.wallet)
        /\ h.do = "link" => device = "phone"
        /\ h.do = "showqr" => h.code[2] = "wc" /\ CodeReady(h.code) /\ device = "phone"

\* A WalletConnect wallet has its own view when its code has come.
InstallIsKnown ==
    ui.view = "install" /\ Standard(ui.wallet) = "wc" =>
        /\ CodeKnown(<<config, "wc">>)
        /\ ui.working <=> CodeReady(<<config, "wc">>)

ShowsCode == ui.view = "install" \/ (ui.view = "qr" /\ ui.extra)

ChoiceFits(h) ==
    /\ h.wallet = ui.wallet /\ ui.loading
    /\ ~(ui.view = "qr" /\ ui.extra)
    /\ ui.view = "install" => h.do = "click" /\ h.code[2] = "p2p"

ShowFits(h) == h.wallet = ui.wallet /\ Standard(h.wallet) = "wc" /\ ~Choosing

OneChoice ==
    /\ ui.view # "wallets"
    /\ device = "phone" /\ ui.view = "qr" => ui.extra
    /\ \A h \in awaits : Chooses(h) => ChoiceFits(h)
    /\ \A h, k \in awaits : Chooses(h) /\ Chooses(k) => h = k
    /\ \A h \in awaits : h.live /\ h.do = "showqr" => ShowFits(h)
    /\ ShowsCode /\ ui.qr \in Codes /\ ui.qr[2] # Standard(ui.wallet) => Choosing

ViewInv ==
    /\ AlertTypeOK
    /\ CodesAreOfTheAlert
    /\ HandlersFit
    /\ InstallIsKnown
    /\ Orderly => OneChoice

LEMMA ViewInvShows == ViewInv => ShownCodeFits
<1>. SUFFICES ASSUME ViewInv, NEW s \in Shown
              PROVE  /\ s.code[1] = config /\ CodeReady(s.code)
                     /\ s.for # s.code[2] => (IsMobile /\ LongList) \/ \E h \in awaits : h.live
  BY DEF ShownCodeFits
<1>1. Usable
  BY DEF Shown
<1>2. CASE \E q \in Codes : /\ q = ui.qr /\ ShowsOwnCode
                            /\ s = [code |-> q, for |-> Standard(ui.wallet)]
  <2>1. s.code = ui.qr /\ s.for = Standard(ui.wallet) /\ ui.qr \in Codes /\ ShowsOwnCode
    BY <1>2
  <2>. QED
    BY <2>1 DEF ViewInv, CodesAreOfTheAlert, OneChoice, ShowsOwnCode, ShowsCode, Choosing, Chooses, Orderly
<1>3. CASE \E t \in Types : /\ t = ui.other /\ ui.view = "qr" /\ ~ui.extra
                            /\ s = [code |-> <<config, t>>, for |-> t]
  <2>1. s.code = <<config, ui.other>> /\ s.for = ui.other /\ ui.other # "selection"
    BY <1>3 DEF Types
  <2>. QED
    BY <2>1 DEF ViewInv, CodesAreOfTheAlert
<1>. QED
  BY <1>1, <1>2, <1>3 DEF Shown

LEMMA AlertInitViewInv == AlertInit => ViewInv
<1>. SUFFICES ASSUME AlertInit PROVE ViewInv
  OBVIOUS
<1>. USE DEF AlertInit, RootInit
<1>1. FreshUI \in UI /\ NoCode \notin Codes
  BY DEF FreshUI, UI, Views, NoCode, Codes, Attempts
<1>2. AlertTypeOK
  <2>1. RootTypeOK
    BY DEF RootTypeOK
  <2>. QED
    BY <1>1, <2>1, ViewAssumption DEF AlertTypeOK
<1>3. CodesAreOfTheAlert /\ HandlersFit /\ InstallIsKnown
  BY <1>1 DEF CodesAreOfTheAlert, HandlersFit, InstallIsKnown, FreshUI
<1>4. OneChoice
  BY <1>1 DEF OneChoice, FreshUI, ShowsCode
<1>. QED
  BY <1>2, <1>3, <1>4 DEF ViewInv

-----------------------------------------------------------------------------

\* What is known of a code stays known.
CodesStay ==
    /\ \A c \in Codes : /\ CodeKnown(c) => CodeKnown(c)'
                        /\ CodeReady(c) => CodeReady(c)'
    /\ \A a \in Attempts : CodeKnown(<<a, "wc">>) =>
                              (CodeReady(<<a, "wc">>)' <=> CodeReady(<<a, "wc">>))

LEMMA SameStateStep ==
    ASSUME ViewInv, RootTypeOK', alerts' \in 0..MaxAlerts, CodesStay,
           UNCHANGED <<config, device, ui, awaits>>
    PROVE  ViewInv'
<1>. USE DEF ViewInv
<1>1. AlertTypeOK'
  BY DEF AlertTypeOK
<1>2. \A c \in Codes : c = <<c[1], c[2]>> /\ c[1] \in Attempts /\ c[2] \in Types
  BY DEF Codes
<1>3. CodesAreOfTheAlert'
  <2>1. (ui.qr \in Codes => ui.qr[1] = config /\ CodeReady(ui.qr))'
    BY DEF CodesAreOfTheAlert, CodesStay
  <2>2. ui.other # "selection" => <<config, ui.other>> \in Codes
    BY DEF CodesAreOfTheAlert, AlertTypeOK, UI, Codes, Types
  <2>3. (ui.other # "selection" => config \in Attempts /\ CodeReady(<<config, ui.other>>))'
    BY <2>2 DEF CodesAreOfTheAlert, CodesStay
  <2>. QED
    BY <2>1, <2>3 DEF CodesAreOfTheAlert
<1>4. HandlersFit'
  <2>1. \A h \in awaits : h.code \in Codes
    BY DEF AlertTypeOK, Handler
  <2>2. \A w : Standard(w)' = Standard(w)
    OBVIOUS
  <2>. QED
    BY <2>1, <2>2 DEF HandlersFit, CodesStay
<1>5. InstallIsKnown'
  <2>1. SUFFICES ASSUME ui.view = "install", Standard(ui.wallet) = "wc"
                 PROVE  /\ CodeKnown(<<config, "wc">>)'
                        /\ ui.working <=> CodeReady(<<config, "wc">>)'
    BY DEF InstallIsKnown
  <2>2. config \in Attempts /\ <<config, "wc">> \in Codes
    BY <2>1 DEF CodesAreOfTheAlert, Codes, Types
  <2>. QED
    BY <2>1, <2>2 DEF InstallIsKnown, CodesStay
<1>6. (Orderly => OneChoice)'
  BY DEF Orderly, OneChoice, IsMobile, ShowsCode, Choosing, Chooses, ChoiceFits, ShowFits
<1>. QED
  BY <1>1, <1>3, <1>4, <1>5, <1>6

LEMMA FreshStep ==
    ASSUME ViewInv, RootTypeOK', alerts' \in 0..MaxAlerts, CodesStay, UNCHANGED device,
           ui' = FreshUI, awaits' = {[h EXCEPT !.live = FALSE] : h \in awaits}
    PROVE  ViewInv'
<1>. USE DEF ViewInv
<1>1. FreshUI \in UI /\ NoCode \notin Codes
  BY DEF FreshUI, UI, Views, NoCode, Codes, Attempts
<1>2. \A h \in awaits : /\ [h EXCEPT !.live = FALSE] \in Handler
                        /\ [h EXCEPT !.live = FALSE].live = FALSE
                        /\ [h EXCEPT !.live = FALSE].do = h.do
                        /\ [h EXCEPT !.live = FALSE].code = h.code
                        /\ [h EXCEPT !.live = FALSE].wallet = h.wallet
  BY DEF AlertTypeOK, Handler
<1>3. AlertTypeOK'
  BY <1>1, <1>2 DEF AlertTypeOK
<1>4. \A h \in awaits' : h.live = FALSE
  BY <1>2
<1>5. CodesAreOfTheAlert'
  BY <1>1, <1>4 DEF CodesAreOfTheAlert, FreshUI
<1>6. HandlersFit'
  <2>1. \A h \in awaits : h.code \in Codes
    BY DEF AlertTypeOK, Handler
  <2>2. \A w : Standard(w)' = Standard(w)
    OBVIOUS
  <2>3. \A h \in awaits' : \E k \in awaits : h.do = k.do /\ h.code = k.code /\ h.wallet = k.wallet
    BY <1>2
  <2>4. ui'.extra = FALSE
    BY DEF FreshUI
  <2>. QED
    BY <2>1, <2>2, <2>3, <2>4 DEF HandlersFit, CodesStay
<1>7. InstallIsKnown'
  BY DEF InstallIsKnown, FreshUI
<1>8. OneChoice'
  BY <1>1, <1>4 DEF OneChoice, FreshUI, ShowsCode, Chooses
<1>. QED
  BY <1>3, <1>5, <1>6, <1>7, <1>8

LEMMA RerenderedStep ==
    ASSUME ViewInv, RootTypeOK', alerts' \in 0..MaxAlerts, CodesStay, UNCHANGED device,
           Rerendered
    PROVE  ViewInv'
<1>1. CASE UNCHANGED <<config, ui, awaits>>
  BY <1>1, SameStateStep
<1>2. CASE ui' = FreshUI /\ awaits' = {[h EXCEPT !.live = FALSE] : h \in awaits}
  BY <1>2, FreshStep
<1>. QED
  BY <1>1, <1>2 DEF Rerendered

-----------------------------------------------------------------------------
(* The environment: DAppClient opens and closes the alert. *)

LEMMA CodesSameStay == ASSUME UNCHANGED codes PROVE CodesStay
BY DEF CodesStay, CodeKnown, CodeReady

LEMMA OpenAlertTypes ==
    ASSUME RootTypeOK, NEW c \in Attempts \cup {Info}, OpenAlert(c)
    PROVE  /\ mount' \in BOOLEAN
           /\ root' \in {"none", "creating", "there"} /\ isOpen' \in BOOLEAN
           /\ config' \in Attempts \cup {Info, None} /\ fades' \in Nat
<1>1. mount' \in BOOLEAN
  <2>1. (mount \/ ~isOpen) \in BOOLEAN /\ mount \in BOOLEAN
    BY DEF RootTypeOK
  <2>. QED
    BY <2>1 DEF OpenAlert, rootVars
<1>2. /\ root' \in {"none", "creating", "there"} /\ isOpen' \in BOOLEAN
      /\ config' \in Attempts \cup {Info, None} /\ fades' \in Nat
  BY DEF OpenAlert, rootVars, RootTypeOK
<1>. QED
  BY <1>1, <1>2

LEMMA CloseAlertTypes ==
    ASSUME RootTypeOK, CloseAlert
    PROVE  /\ root' \in {"none", "creating", "there"} /\ isOpen' \in BOOLEAN /\ mount' \in BOOLEAN
           /\ config' \in Attempts \cup {Info, None} /\ fades' \in Nat
<1>1. CASE isOpen' = FALSE /\ fades' = fades + 1 /\ UNCHANGED <<root, config, mount>>
  <2>1. isOpen' \in BOOLEAN
    BY <1>1
  <2>2. /\ root' \in {"none", "creating", "there"} /\ mount' \in BOOLEAN
        /\ config' \in Attempts \cup {Info, None} /\ fades' \in Nat
    BY <1>1 DEF RootTypeOK
  <2>. QED
    BY <2>1, <2>2
<1>2. CASE UNCHANGED rootVars
  BY <1>2 DEF RootTypeOK, rootVars
<1>. QED
  BY <1>1, <1>2 DEF CloseAlert

LEMMA CodeComesStays ==
    ASSUME RootTypeOK, CodeComes
    PROVE  CodesStay /\ codes' \in [Attempts -> [Types -> {"pending", "ready", "empty"}]]
<1>1. PICK a \in Opened, x \in {"p2p", "wc"}, is \in {"ready", "empty"} :
        ~CodeKnown(<<a, x>>) /\ CodeOf(a, x, is)
  BY DEF CodeComes
<1>2. /\ a \in Attempts /\ x \in Types /\ codes[a][x] = "pending"
      /\ codes' = [codes EXCEPT ![a][x] = is]
  BY <1>1 DEF CodeKnown, CodeOf, Opened, Types
<1>3. codes' \in [Attempts -> [Types -> {"pending", "ready", "empty"}]]
  BY <1>2 DEF RootTypeOK
<1>4. \A b \in Attempts, y \in Types : codes[b][y] # "pending" => codes'[b][y] = codes[b][y]
  BY <1>2 DEF RootTypeOK
<1>5. \A k \in Codes : k[1] \in Attempts /\ k[2] \in Types
  BY DEF Codes
<1>. QED
  BY <1>3, <1>4, <1>5 DEF CodesStay, CodeKnown, CodeReady, Types

LEMMA ClosingStep ==
    ASSUME ViewInv, CloseAlert, Rerendered, UNCHANGED codes \/ CodeComes,
           UNCHANGED <<given, device, alerts>>
    PROVE  ViewInv'
<1>1. RootTypeOK /\ alerts \in 0..MaxAlerts
  BY DEF ViewInv, AlertTypeOK
<1>2. CodesStay /\ codes' \in [Attempts -> [Types -> {"pending", "ready", "empty"}]]
  <2>1. CASE UNCHANGED codes
    BY <1>1, <2>1, CodesSameStay DEF RootTypeOK
  <2>. QED
    BY <1>1, <2>1, CodeComesStays
<1>3. RootTypeOK'
  BY <1>1, <1>2, CloseAlertTypes DEF RootTypeOK
<1>. QED
  BY <1>1, <1>2, <1>3, RerenderedStep

LEMMA RootStep == ASSUME ViewInv, Root PROVE ViewInv'
<1>1. RootTypeOK /\ alerts \in 0..MaxAlerts
  BY DEF ViewInv, AlertTypeOK
<1>2. RootTypeOK'
  <2>1. CASE Render
    BY <1>1, <2>1 DEF Render, RootTypeOK
  <2>2. CASE FadeOut
    <3>1. fades' \in Nat
      BY <1>1, <2>2 DEF FadeOut, RootTypeOK
    <3>2. mount' \in BOOLEAN
      BY <2>2 DEF FadeOut
    <3>. QED
      BY <1>1, <2>2, <3>1, <3>2 DEF FadeOut, RootTypeOK
  <2>. QED
    BY <2>1, <2>2 DEF Root
<1>3. CodesStay /\ alerts' \in 0..MaxAlerts
  BY <1>1, CodesSameStay DEF Root, Render, FadeOut
<1>. QED
  BY <1>2, <1>3, RerenderedStep DEF Root

LEMMA OpenViewStep ==
    ASSUME ViewInv, NEW c \in (Attempts \ Opened) \cup {Info}, Open(c)
    PROVE  ViewInv'
<1>1. RootTypeOK /\ alerts \in 0..MaxAlerts
  BY DEF ViewInv, AlertTypeOK
<1>2. alerts' \in 0..MaxAlerts
  BY <1>1, ViewAssumption DEF Open
<1>3. CASE codes' = codes
  <2>1. RootTypeOK'
    BY <1>1, <1>3, OpenAlertTypes DEF Open, OpenFor, RootTypeOK
  <2>. QED
    BY <1>2, <1>3, <2>1, CodesSameStay, RerenderedStep DEF Open
<1>4. CASE c \in Attempts /\ codes' = [codes EXCEPT ![c]["pm"] = "ready"]
  <2>1. codes' \in [Attempts -> [Types -> {"pending", "ready", "empty"}]]
    BY <1>1, <1>4 DEF RootTypeOK, Types
  <2>2. RootTypeOK'
    BY <1>1, <2>1, OpenAlertTypes DEF Open, OpenFor, RootTypeOK
  <2>3. \A a \in Attempts, t \in Types : codes'[a][t] \in {codes[a][t], "ready"}
    BY <1>1, <1>4 DEF RootTypeOK
  <2>4. \A a \in Attempts : codes'[a]["wc"] = codes[a]["wc"]
    BY <1>1, <1>4 DEF RootTypeOK, Types
  <2>5. \A k \in Codes : k[1] \in Attempts /\ k[2] \in Types
    BY DEF Codes
  <2>6. CodesStay
    BY <2>3, <2>4, <2>5 DEF CodesStay, CodeKnown, CodeReady
  <2>. QED
    BY <1>2, <2>2, <2>6, RerenderedStep DEF Open
<1>. QED
  BY <1>3, <1>4 DEF Open, OpenFor

LEMMA ProvideStep == ASSUME ViewInv, Provide PROVE ViewInv'
<1>1. RootTypeOK /\ alerts \in 0..MaxAlerts
  BY DEF ViewInv, AlertTypeOK
<1>2. CodesStay /\ codes' \in [Attempts -> [Types -> {"pending", "ready", "empty"}]]
  BY <1>1, CodeComesStays DEF Provide
<1>3. RootTypeOK'
  BY <1>1, <1>2 DEF Provide, rootVars, RootTypeOK
<1>. QED
  BY <1>1, <1>2, <1>3, SameStateStep DEF Provide, rootVars, uiVars

LEMMA ScanStep == ASSUME ViewInv, NEW s \in Shown, Scan(s) PROVE ViewInv'
<1>1. RootTypeOK /\ alerts \in 0..MaxAlerts /\ ui \in UI
  BY DEF ViewInv, AlertTypeOK
<1>2. s.code \in Codes
  <2>1. CASE \E q \in Codes : s = [code |-> q, for |-> Standard(ui.wallet)]
    BY <2>1
  <2>2. CASE config \in Attempts /\ \E t \in Types : s = [code |-> <<config, t>>, for |-> t]
    BY <2>2 DEF Codes
  <2>. QED
    BY <2>1, <2>2 DEF Shown, Usable
<1>3. RootTypeOK'
  BY <1>1, <1>2 DEF Scan, rootVars, RootTypeOK
<1>. QED
  BY <1>1, <1>3, CodesSameStay, SameStateStep DEF Scan, rootVars, uiVars

LEMMA DAppStep == ASSUME ViewInv, DApp PROVE ViewInv'
BY RootStep, OpenViewStep, ProvideStep, ClosingStep DEF DApp, Hide

-----------------------------------------------------------------------------
(* The user: only the state of the view changes. *)

LEMMA SetViewFields ==
    ASSUME ui \in UI, NEW v \in Views, ui' = [ui EXCEPT !.view = v, !.other = "selection"]
    PROVE  /\ ui' \in UI /\ ui'.view = v /\ ui'.other = "selection"
           /\ ui'.wallet = ui.wallet /\ ui'.loading = ui.loading /\ ui'.qr = ui.qr
           /\ ui'.extra = ui.extra /\ ui'.working = ui.working
BY DEF UI

\* A button that leads to another view than the list of what a wallet offers.
LEMMA SetViewStep ==
    ASSUME ViewInv, config \in Attempts, NEW v \in Views \ {"install"}, SetView(v),
           Orderly => v # "wallets", v = "qr" => ~IsMobile \/ ~Orderly,
           UNCHANGED <<rootVars, codes, given, device, alerts, awaits>>
    PROVE  ViewInv'
<1>. USE DEF ViewInv
<1>1. ui \in UI /\ RootTypeOK
  BY DEF AlertTypeOK
<1>2. /\ ui' \in UI /\ ui'.view = v /\ ui'.other = "selection"
      /\ ui'.wallet = ui.wallet /\ ui'.loading = ui.loading /\ ui'.qr = ui.qr
      /\ ui'.extra = ui.extra /\ ui'.working = ui.working
  BY <1>1, SetViewFields DEF SetView
<1>3. UNCHANGED <<root, isOpen, mount, config, fades>>
  BY DEF rootVars
<1>4. AlertTypeOK'
  BY <1>1, <1>2, <1>3 DEF AlertTypeOK, RootTypeOK
<1>5. CodesAreOfTheAlert'
  BY <1>2, <1>3 DEF CodesAreOfTheAlert, CodeReady
<1>6. HandlersFit'
  BY <1>2 DEF HandlersFit, CodeReady
<1>7. InstallIsKnown'
  BY <1>2 DEF InstallIsKnown
<1>8. ASSUME Orderly PROVE OneChoice'
  <2>1. ~(v = "qr" /\ ui.extra)
    BY <1>8 DEF HandlersFit, IsMobile
  <2>2. \A h : Chooses(h)' <=> Chooses(h)
    BY DEF Chooses
  <2>3. Choosing' <=> Choosing
    BY <2>2 DEF Choosing
  <2>4. \A h \in awaits : Chooses(h) => ChoiceFits(h)'
    BY <1>2, <1>8, <2>1 DEF OneChoice, ChoiceFits
  <2>5. \A h \in awaits : h.live /\ h.do = "showqr" => ShowFits(h)'
    BY <1>2, <1>8, <2>3 DEF OneChoice, ShowFits
  <2>6. ~ShowsCode'
    BY <1>2, <2>1 DEF ShowsCode
  <2>7. ui'.view # "wallets" /\ (device = "phone" /\ ui'.view = "qr" => ui'.extra)
    BY <1>2, <1>8 DEF IsMobile
  <2>. QED
    BY <1>8, <2>2, <2>4, <2>5, <2>6, <2>7 DEF OneChoice
<1>9. (Orderly => OneChoice)'
  BY <1>8 DEF Orderly, IsMobile
<1>. QED
  BY <1>4, <1>5, <1>6, <1>7, <1>9

LEMMA OtherFields ==
    ASSUME ui \in UI, NEW t \in {"p2p", "wc"}, ui' = [ui EXCEPT !.other = t]
    PROVE  /\ ui' \in UI /\ ui'.view = ui.view /\ ui'.other = t
           /\ ui'.wallet = ui.wallet /\ ui'.loading = ui.loading /\ ui'.qr = ui.qr
           /\ ui'.extra = ui.extra /\ ui'.working = ui.working
BY DEF UI

LEMMA SelectOtherStep ==
    ASSUME ViewInv, NEW t \in {"p2p", "wc"}, SelectOther(t) PROVE ViewInv'
<1>. USE DEF ViewInv
<1>1. /\ ui \in UI /\ RootTypeOK /\ config \in Attempts /\ CodeReady(<<config, t>>)
      /\ ui' = [ui EXCEPT !.other = t]
      /\ UNCHANGED <<root, isOpen, mount, config, fades, codes, given, device, alerts, awaits>>
  BY DEF AlertTypeOK, SelectOther, Button, Usable, rootVars
<1>2. /\ ui' \in UI /\ ui'.view = ui.view /\ ui'.other = t
      /\ ui'.wallet = ui.wallet /\ ui'.loading = ui.loading /\ ui'.qr = ui.qr
      /\ ui'.extra = ui.extra /\ ui'.working = ui.working
  BY <1>1, OtherFields
<1>3. AlertTypeOK'
  BY <1>1, <1>2 DEF AlertTypeOK, RootTypeOK
<1>4. CodesAreOfTheAlert' /\ HandlersFit' /\ InstallIsKnown'
  BY <1>1, <1>2 DEF CodesAreOfTheAlert, HandlersFit, InstallIsKnown, CodeReady, CodeKnown
<1>5. (Orderly => OneChoice)'
  BY <1>1, <1>2 DEF Orderly, OneChoice, IsMobile, ShowsCode, Choosing, Chooses, ChoiceFits, ShowFits
<1>. QED
  BY <1>3, <1>4, <1>5

LEMMA NavigationStep ==
    ASSUME ViewInv, HandleClickOther \/ OtherWallets \/ Back \/ LearnMore PROVE ViewInv'
<1>1. config \in Attempts
  BY DEF HandleClickOther, OtherWallets, Back, LearnMore, Button, Usable
<1>2. CASE HandleClickOther
  <2>1. ~IsMobile \/ ~Orderly
    BY <1>2 DEF ViewInv, OneChoice, HandleClickOther, Button
  <2>. QED
    BY <1>1, <1>2, <2>1, SetViewStep DEF HandleClickOther, Button, Views
<1>3. CASE OtherWallets
  BY <1>1, <1>3, SetViewStep DEF OtherWallets, Button, Views, Orderly
<1>4. CASE Back
  BY <1>1, <1>4, SetViewStep DEF Back, Button, Views
<1>5. CASE LearnMore
  BY <1>1, <1>5, SetViewStep DEF LearnMore, Button, Views
<1>. QED
  BY <1>2, <1>3, <1>4, <1>5

-----------------------------------------------------------------------------
(* The buttons of what a wallet offers, whose handlers await a code. *)

\* At most the loading changes.
SameButLoading ==
    /\ ui' \in UI /\ ui'.view = ui.view /\ ui'.other = ui.other /\ ui'.wallet = ui.wallet
    /\ ui'.qr = ui.qr /\ ui'.extra = ui.extra /\ ui'.working = ui.working

LEMMA LoadingFields ==
    ASSUME ui \in UI, NEW b \in BOOLEAN, ui' = [ui EXCEPT !.loading = b]
    PROVE  SameButLoading /\ ui'.loading = b
BY DEF UI, SameButLoading

LEMMA AwaitStep ==
    ASSUME ViewInv, Usable, ui.view = "install", NEW do \in Handlers \ {"click", "link"},
           NEW type \in Types, Await(do, ui.wallet, type), SameButLoading,
           ui'.loading # ui.loading => ui'.loading \/ (Orderly => ~Choosing),
           do = "showqr" => /\ type = "wc" /\ CodeReady(<<config, "wc">>) /\ device = "phone"
                            /\ Standard(ui.wallet) = "wc" /\ (Orderly => ~Choosing),
           UNCHANGED <<rootVars, codes, given, device, alerts>>
    PROVE  ViewInv'
<1>. USE DEF ViewInv
<1>1. /\ ui \in UI /\ RootTypeOK /\ config \in Attempts /\ awaits \subseteq Handler
      /\ ui.wallet \in Wallets /\ do \in Handlers
      /\ UNCHANGED <<root, isOpen, mount, config, fades, codes, given, device, alerts>>
  BY DEF AlertTypeOK, Usable, rootVars, CodesAreOfTheAlert
<1>0. PICK h : h = [do |-> do, wallet |-> ui.wallet, code |-> <<config, type>>, live |-> TRUE]
  OBVIOUS
<1>a. <<config, type>> \in Codes
  BY <1>1 DEF Codes
<1>2. /\ h \in Handler /\ h.do = do /\ h.wallet = ui.wallet /\ h.code = <<config, type>>
      /\ h.live = TRUE /\ h.code[1] = config /\ h.code[2] = type
  BY <1>0, <1>1, <1>a DEF Handler
<1>b. awaits' = awaits \cup {h}
  BY <1>0 DEF Await
<1>. USE DEF SameButLoading
<1>3. AlertTypeOK'
  BY <1>1, <1>2, <1>b DEF AlertTypeOK, RootTypeOK
<1>4. CodesAreOfTheAlert' /\ HandlersFit' /\ InstallIsKnown'
  BY <1>1, <1>2, <1>b DEF CodesAreOfTheAlert, HandlersFit, InstallIsKnown, CodeReady, CodeKnown
<1>5. ASSUME Orderly PROVE OneChoice'
  <2>1. /\ \A k : Chooses(k)' <=> Chooses(k)
        /\ ~Chooses(h) /\ (Choosing' <=> Choosing)
    BY <1>2, <1>b DEF Chooses, Choosing
  <2>2. \A k \in awaits : Chooses(k) => ChoiceFits(k)'
    BY <1>5, <2>1 DEF OneChoice, ChoiceFits, Choosing, UI
  <2>3. \A k \in awaits' : k.live /\ k.do = "showqr" => ShowFits(k)'
    BY <1>2, <1>b, <1>5, <2>1 DEF OneChoice, ShowFits
  <2>4. (ShowsCode /\ ui.qr \in Codes /\ ui.qr[2] # Standard(ui.wallet))' => Choosing'
    BY <1>1, <1>5, <2>1 DEF OneChoice, ShowsCode, Codes, Attempts
  <2>. QED
    BY <1>1, <1>2, <1>b, <1>5, <2>1, <2>2, <2>3, <2>4 DEF OneChoice
<1>6. (Orderly => OneChoice)'
  BY <1>1, <1>5 DEF Orderly, IsMobile
<1>. QED
  BY <1>3, <1>4, <1>6

\* A WalletConnect wallet has its own view when no choice is under way.
LEMMA NoChoiceInCard ==
    ASSUME ViewInv, Orderly, ui.view = "install", Standard(ui.wallet) = "wc"
    PROVE  ~Choosing
BY DEF ViewInv, OneChoice, ChoiceFits, Choosing, HandlersFit, Chooses

LEMMA InstallStep ==
    ASSUME ViewInv, \/ HandleNewTab \/ HandleClickConnectExtension \/ HandleClickOpenDesktopApp
                    \/ HandleDeepLinking \/ ShowQRCode
    PROVE  ViewInv'
<1>1. ui \in UI
  BY DEF ViewInv, AlertTypeOK
<1>2. \A w : TabStandard(w) \in Types
  BY DEF TabStandard, Standard, Types
<1>3. ui' = ui => SameButLoading /\ ui'.loading = ui.loading
  BY <1>1 DEF SameButLoading
<1>. USE DEF Button, Types, Handlers
<1>4. CASE HandleNewTab
  BY <1>1, <1>2, <1>4, LoadingFields, AwaitStep DEF HandleNewTab
<1>5. CASE HandleClickConnectExtension
  BY <1>3, <1>5, AwaitStep DEF HandleClickConnectExtension
<1>6. CASE HandleClickOpenDesktopApp
  BY <1>3, <1>6, AwaitStep DEF HandleClickOpenDesktopApp
<1>7. CASE HandleDeepLinking
  <2>1. SameButLoading
    BY <1>1, <1>7, LoadingFields DEF HandleDeepLinking, Closed
  <2>. QED
    BY <1>7, <2>1, NoChoiceInCard, AwaitStep DEF HandleDeepLinking, MobileCard
<1>8. CASE ShowQRCode
  <2>1. SameButLoading
    BY <1>1, <1>8, LoadingFields DEF ShowQRCode, Closed
  <2>2. CodeReady(<<config, "wc">>)
    BY <1>8 DEF ShowQRCode, MobileCard, ViewInv, InstallIsKnown
  <2>. QED
    BY <1>8, <2>1, <2>2, NoChoiceInCard, AwaitStep DEF ShowQRCode, MobileCard
<1>. QED
  BY <1>4, <1>5, <1>6, <1>7, <1>8

-----------------------------------------------------------------------------
(* A click on a wallet, which begins a choice. *)

LEMMA KnownIsResumed == ASSUME ViewInv, AlertIdle, NEW h \in awaits PROVE h.do # "showqr"
BY DEF ViewInv, HandlersFit, AlertIdle, CodeReady, CodeKnown

LEMMA ChoiceStep ==
    ASSUME ViewInv, AlertIdle, Usable, ListEnabled, NEW w \in Wallets,
           NEW do \in {"newtab", "click", "link"}, NEW type \in Types, Await(do, w, type),
           ui' \in UI, ui'.wallet = w, ui'.loading = TRUE,
           ui'.other = ui.other, ui'.extra = ui.extra, ui'.working = ui.working,
           ui'.qr = ui.qr \/ ui'.qr \notin Codes,
           \/ ui'.view = ui.view
           \/ ui'.view = "install" /\ do = "click" /\ type = "p2p",
           do # "newtab" => type = Standard(w), do = "link" => device = "phone",
           UNCHANGED <<rootVars, codes, given, device, alerts>>
    PROVE  ViewInv'
<1>. USE DEF ViewInv
<1>1. /\ ui \in UI /\ RootTypeOK /\ config \in Attempts /\ awaits \subseteq Handler
      /\ ui.view \in {"top-wallets", "wallets"} /\ do \in Handlers
      /\ UNCHANGED <<root, isOpen, mount, config, fades, codes, given, device, alerts>>
  BY DEF AlertTypeOK, Usable, rootVars, ListEnabled, Handlers
<1>0. PICK h : h = [do |-> do, wallet |-> w, code |-> <<config, type>>, live |-> TRUE]
  OBVIOUS
<1>a. <<config, type>> \in Codes
  BY <1>1 DEF Codes
<1>2. /\ h \in Handler /\ h.do = do /\ h.wallet = w /\ h.code = <<config, type>>
      /\ h.live = TRUE /\ h.code[1] = config /\ h.code[2] = type
  BY <1>0, <1>1, <1>a DEF Handler
<1>b. awaits' = awaits \cup {h}
  BY <1>0 DEF Await
<1>3. AlertTypeOK'
  BY <1>1, <1>2, <1>b DEF AlertTypeOK, RootTypeOK
<1>4. CodesAreOfTheAlert'
  BY <1>1, <1>2, <1>b DEF CodesAreOfTheAlert, CodeReady
<1>5. HandlersFit'
  BY <1>1, <1>2, <1>b DEF HandlersFit, CodeReady
<1>6. InstallIsKnown'
  BY <1>1 DEF InstallIsKnown
<1>7. ASSUME Orderly PROVE OneChoice'
  <2>1. ui.view = "top-wallets" /\ ~ui.loading
    BY <1>7 DEF ListEnabled, OneChoice
  <2>2. ~Choosing
    BY <1>7, <2>1 DEF Choosing, OneChoice, ChoiceFits
  <2>a. \A k : Chooses(k)' <=> Chooses(k)
    BY DEF Chooses
  <2>b. do # "newtab" => Chooses(h)
    BY <1>2 DEF Chooses
  <2>3. /\ \A k \in awaits' : Chooses(k)' => k = h
        /\ do # "newtab" => Chooses(h)'
    BY <1>b, <2>2, <2>a, <2>b DEF Choosing
  <2>4. \A k \in awaits' : Chooses(k)' => ChoiceFits(k)'
    BY <1>1, <1>2, <1>b, <2>1, <2>3 DEF ChoiceFits, Chooses
  <2>5. \A k \in awaits' : k.do # "showqr"
    BY <1>2, <1>b, KnownIsResumed
  <2>6. (ShowsCode)' => Choosing'
    <3>1. h \in awaits'
      BY <1>b
    <3>2. ShowsCode' => do = "click"
      BY <2>1 DEF ShowsCode
    <3>. QED
      BY <2>3, <3>1, <3>2 DEF Choosing
  <2>7. ui'.view \notin {"wallets", "qr"}
    BY <2>1
  <2>. QED
    BY <2>3, <2>4, <2>5, <2>6, <2>7 DEF OneChoice
<1>8. (Orderly => OneChoice)'
  BY <1>1, <1>7 DEF Orderly, IsMobile
<1>. QED
  BY <1>3, <1>4, <1>5, <1>6, <1>8

LEMMA ChoiceFields ==
    ASSUME ui \in UI, NEW w \in Wallets, NEW u, u = [ui EXCEPT !.wallet = w, !.loading = TRUE]
    PROVE  /\ u \in UI /\ u.wallet = w /\ u.loading = TRUE /\ u.view = ui.view
           /\ u.qr = ui.qr /\ u.other = ui.other /\ u.extra = ui.extra /\ u.working = ui.working
BY DEF UI

LEMMA QRFields ==
    ASSUME NEW u \in UI, NEW q \in Codes \cup {NoCode, EmptyCode, ErrorCode},
           NEW v, v = [u EXCEPT !.qr = q]
    PROVE  /\ v \in UI /\ v.wallet = u.wallet /\ v.loading = u.loading /\ v.view = u.view
           /\ v.qr = q /\ v.other = u.other /\ v.extra = u.extra /\ v.working = u.working
BY DEF UI

LEMMA InstallFields ==
    ASSUME NEW u \in UI, NEW w, NEW v, v = InstallView(u, w)
    PROVE  /\ v \in UI /\ v.wallet = u.wallet /\ v.loading = u.loading
           /\ v.view \in {u.view, "install"}
           /\ v.qr = u.qr /\ v.other = u.other /\ v.extra = u.extra /\ v.working = u.working
<1>1. CASE v = u
  BY <1>1
<1>2. CASE v = [u EXCEPT !.view = "install"]
  BY <1>2 DEF UI, Views
<1>. QED
  BY <1>1, <1>2 DEF InstallView

LEMMA ClickWalletStep ==
    ASSUME ViewInv, AlertIdle, NEW w \in Wallets, ClickWallet(w) PROVE ViewInv'
<1>1. /\ ui \in UI /\ Usable /\ ListEnabled
      /\ UNCHANGED <<rootVars, codes, given, device, alerts>>
  BY DEF ViewInv, AlertTypeOK, ClickWallet
<1>. DEFINE u == [ui EXCEPT !.wallet = w, !.loading = TRUE]
<1>2. /\ u \in UI /\ u.wallet = w /\ u.loading = TRUE /\ u.view = ui.view
      /\ u.qr = ui.qr /\ u.other = ui.other /\ u.extra = ui.extra /\ u.working = ui.working
  BY <1>1, ChoiceFields
<1>3. EmptyCode \notin Codes
  BY DEF EmptyCode, Codes, Attempts
<1>4. Standard(w) \in {"wc", "p2p"} /\ TabStandard(w) \in Types /\ "wc" \in Types /\ "p2p" \in Types
  BY DEF Standard, TabStandard, Types
<1>5. \/ ui' = u /\ Await("newtab", w, TabStandard(w))
      \/ Standard(w) = "wc" /\ ui' = u /\ Await("click", w, "wc")
      \/ /\ Standard(w) = "p2p" /\ device = "phone"
         /\ ui' = [u EXCEPT !.qr = EmptyCode] /\ Await("link", w, "p2p")
      \/ Standard(w) = "p2p" /\ ui' = InstallView(u, w) /\ Await("click", w, "p2p")
  BY <1>4 DEF ClickWallet
<1>. HIDE DEF u
<1>6. CASE ui' = u /\ Await("newtab", w, TabStandard(w))
  BY <1>1, <1>2, <1>4, <1>6, ChoiceStep
<1>7. CASE Standard(w) = "wc" /\ ui' = u /\ Await("click", w, "wc")
  BY <1>1, <1>2, <1>4, <1>7, ChoiceStep
<1>8. CASE /\ Standard(w) = "p2p" /\ device = "phone"
           /\ ui' = [u EXCEPT !.qr = EmptyCode] /\ Await("link", w, "p2p")
  <2>1. /\ ui' \in UI /\ ui'.wallet = w /\ ui'.loading = TRUE /\ ui'.view = ui.view
        /\ ui'.qr = EmptyCode /\ ui'.other = ui.other /\ ui'.extra = ui.extra
        /\ ui'.working = ui.working
    BY <1>2, <1>8, QRFields
  <2>. QED
    BY <1>1, <1>3, <1>4, <1>8, <2>1, ChoiceStep
<1>9. CASE Standard(w) = "p2p" /\ ui' = InstallView(u, w) /\ Await("click", w, "p2p")
  <2>1. /\ ui' \in UI /\ ui'.wallet = w /\ ui'.loading = TRUE
        /\ ui'.view \in {ui.view, "install"}
        /\ ui'.qr = ui.qr /\ ui'.other = ui.other /\ ui'.extra = ui.extra
        /\ ui'.working = ui.working
    BY <1>2, <1>9, InstallFields
  <2>. QED
    BY <1>1, <1>4, <1>9, <2>1, ChoiceStep
<1>. QED
  BY <1>5, <1>6, <1>7, <1>8, <1>9

-----------------------------------------------------------------------------
(* A handler is resumed. *)

\* One whose component is gone sets nothing.
LEMMA ResumeDeadStep ==
    ASSUME ViewInv, RootTypeOK', NEW h \in awaits, ~h.live, awaits' = awaits \ {h},
           UNCHANGED <<ui, rootVars, codes, device, alerts>>
    PROVE  ViewInv'
<1>. USE DEF ViewInv
<1>1. UNCHANGED <<root, isOpen, mount, config, fades, codes, ui, device, alerts>>
  BY DEF rootVars
<1>2. AlertTypeOK'
  BY <1>1 DEF AlertTypeOK
<1>3. CodesAreOfTheAlert' /\ HandlersFit' /\ InstallIsKnown'
  BY <1>1 DEF CodesAreOfTheAlert, HandlersFit, InstallIsKnown, CodeReady, CodeKnown
<1>4. ASSUME Orderly PROVE OneChoice'
  <2>1. (\A k : Chooses(k)' <=> Chooses(k)) /\ ~Chooses(h)
    BY DEF Chooses
  <2>2. Choosing' <=> Choosing
    BY <2>1 DEF Choosing
  <2>. QED
    BY <1>1, <1>4, <2>1, <2>2 DEF OneChoice, ChoiceFits, ShowFits, ShowsCode
<1>5. (Orderly => OneChoice)'
  BY <1>1, <1>4 DEF Orderly, IsMobile
<1>. QED
  BY <1>2, <1>3, <1>5

\* What all the others have in common.
LEMMA ResumeLiveStep ==
    ASSUME ViewInv, RootTypeOK', NEW h \in awaits, h.live, CodeKnown(h.code),
           awaits' = awaits \ {h}, UNCHANGED <<rootVars, codes, device, alerts>>,
           ui' \in UI, ui'.wallet = ui.wallet, ui'.other = ui.other,
           ui'.view \in {ui.view, "install", "qr"},
           ui'.qr \in Codes => ui'.qr = ui.qr \/ (ui'.qr = h.code /\ CodeReady(h.code)),
           ui'.extra => ui.extra \/ device = "phone",
           ui'.view = "install" /\ Standard(ui.wallet) = "wc" =>
               \/ h.code[2] = "wc" /\ ui'.working = CodeReady(h.code)
               \/ ui.view = "install" /\ ui'.working = ui.working,
           h.do \in {"newtab", "deeplink", "extension", "desktop"} =>
               /\ ui'.view = ui.view /\ ui'.loading = ui.loading /\ ui'.extra = ui.extra
               /\ ui'.qr = ui.qr,
           h.do # "showqr" => ui'.view # "qr" \/ (ui.view = "qr" /\ ui'.extra = ui.extra),
           h.do = "showqr" => ui'.view = "qr" /\ ui'.extra,
           Orderly => \/ h.do \in {"newtab", "deeplink", "extension", "desktop"}
                      \/ ShowsCode' /\ ui'.qr \in Codes => ui'.qr[2] = Standard(ui.wallet)
    PROVE  ViewInv'
<1>. USE DEF ViewInv
<1>1. UNCHANGED <<root, isOpen, mount, config, fades, codes, device, alerts>>
  BY DEF rootVars
<1>2. AlertTypeOK'
  BY <1>1 DEF AlertTypeOK
<1>3. /\ h \in Handler /\ h.code \in Codes /\ h.code[1] = config /\ ui.wallet \in Wallets
      /\ h.code = <<h.code[1], h.code[2]>> /\ config \in Attempts
  BY DEF AlertTypeOK, Handler, CodesAreOfTheAlert, Codes
<1>4. CodesAreOfTheAlert'
  BY <1>1, <1>3 DEF CodesAreOfTheAlert, CodeReady
<1>5. HandlersFit'
  BY <1>1 DEF HandlersFit, CodeReady
<1>6. InstallIsKnown'
  <2>1. SUFFICES ASSUME ui'.view = "install", Standard(ui.wallet) = "wc"
                 PROVE  /\ CodeKnown(<<config, "wc">>)
                        /\ ui'.working <=> CodeReady(<<config, "wc">>)
    BY <1>1 DEF InstallIsKnown, CodeKnown, CodeReady
  <2>2. CASE h.code[2] = "wc" /\ ui'.working = CodeReady(h.code)
    BY <1>3, <2>2
  <2>3. CASE ui.view = "install" /\ ui'.working = ui.working
    BY <2>1, <2>3 DEF InstallIsKnown
  <2>. QED
    BY <2>1, <2>2, <2>3
<1>7. ASSUME Orderly PROVE OneChoice'
  <2>1. \A k : Chooses(k)' <=> Chooses(k)
    BY DEF Chooses
  <2>2. ui'.view # "wallets" /\ (device = "phone" /\ ui'.view = "qr" => ui'.extra)
    BY <1>7 DEF OneChoice
  <2>3. CASE h.do \in {"newtab", "deeplink", "extension", "desktop"}
    <3>1. ~Chooses(h)
      BY <2>3 DEF Chooses
    <3>2. Choosing' <=> Choosing
      BY <2>1, <3>1 DEF Choosing
    <3>. QED
      BY <1>7, <2>1, <2>2, <2>3, <3>2 DEF OneChoice, ChoiceFits, ShowFits, ShowsCode
  <2>4. CASE h.do \in {"click", "link", "showqr"}
    <3>1. \A k \in awaits' : ~Chooses(k)
      BY <1>7, <2>4 DEF OneChoice, Chooses, ShowFits, Choosing
    <3>2. ~Choosing'
      BY <2>1, <3>1 DEF Choosing
    <3>3. (ShowsCode /\ ui.qr \in Codes /\ ui.qr[2] # Standard(ui.wallet) => Choosing)'
      BY <1>7, <2>4
    <3>4. \A k \in awaits' : k.live /\ k.do = "showqr" => ShowFits(k)'
      BY <1>7, <3>2 DEF OneChoice, ShowFits
    <3>. QED
      BY <2>1, <2>2, <3>1, <3>3, <3>4 DEF OneChoice
  <2>5. h.do \in Handlers
    BY <1>3 DEF Handler
  <2>. QED
    BY <2>3, <2>4, <2>5 DEF Handlers
<1>8. (Orderly => OneChoice)'
  BY <1>1, <1>7 DEF Orderly, IsMobile
<1>. QED
  BY <1>2, <1>4, <1>5, <1>6, <1>8

LEMMA CheckedFields ==
    ASSUME ui \in UI, NEW h \in Handler, NEW v, v = Checked(h)
    PROVE  /\ v \in UI /\ v.wallet = ui.wallet /\ v.loading = ui.loading /\ v.view = ui.view
           /\ v.qr = ui.qr /\ v.other = ui.other /\ v.extra = ui.extra
           /\ v.working = IF h.code[2] = "wc" THEN CodeReady(h.code) ELSE ui.working
<1>1. PICK b : b = IF h.code[2] = "wc" THEN CodeReady(h.code) ELSE ui.working
  OBVIOUS
<1>2. b \in BOOLEAN
  <2>1. CodeReady(h.code) \in BOOLEAN /\ ui.working \in BOOLEAN
    BY DEF CodeReady, UI
  <2>. QED
    BY <1>1, <2>1
<1>3. v = [ui EXCEPT !.working = b]
  BY <1>1 DEF Checked
<1>4. v \in UI /\ v.working = b
  BY <1>2, <1>3 DEF UI
<1>5. /\ v.wallet = ui.wallet /\ v.loading = ui.loading /\ v.view = ui.view
      /\ v.qr = ui.qr /\ v.other = ui.other /\ v.extra = ui.extra
  BY <1>3 DEF UI
<1>. QED
  BY <1>1, <1>4, <1>5

LEMMA ClosedFields ==
    ASSUME NEW u \in UI, NEW v, v = Closed(u)
    PROVE  /\ v \in UI /\ v.wallet = u.wallet /\ v.view = u.view /\ v.qr = u.qr
           /\ v.other = u.other /\ v.extra = u.extra /\ v.working = u.working
BY DEF UI, Closed

\* What is known of the only choice.
LEMMA ChoiceIsSelected ==
    ASSUME ViewInv, Orderly, NEW h \in awaits, h.live, h.do \in {"click", "link"}
    PROVE  /\ h.code[2] = Standard(ui.wallet)
           /\ ~(ui.view = "qr" /\ ui.extra)
           /\ ui.view = "install" => h.do = "click" /\ h.code[2] = "p2p"
BY DEF ViewInv, OneChoice, ChoiceFits, Chooses, HandlersFit

LEMMA AfterURIStep ==
    ASSUME ViewInv, RootTypeOK', NEW h \in awaits, h.live, CodeKnown(h.code),
           h.do = "click", h.code[2] = "wc", ui' = Closed(AfterURI(h)),
           awaits' = awaits \ {h}, UNCHANGED <<rootVars, codes, device, alerts>>
    PROVE  ViewInv'
<1>1. ui \in UI /\ h \in Handler /\ h.code \in Codes
  BY DEF ViewInv, AlertTypeOK, Handler
<1>2. PICK u : u = Checked(h)
  OBVIOUS
<1>3. /\ u \in UI /\ u.wallet = ui.wallet /\ u.view = ui.view
      /\ u.qr = ui.qr /\ u.other = ui.other /\ u.extra = ui.extra
      /\ u.working = CodeReady(h.code)
  BY <1>1, <1>2, CheckedFields
<1>4. ErrorCode \notin Codes /\ ErrorCode \in Codes \cup {NoCode, EmptyCode, ErrorCode}
      /\ h.code \in Codes \cup {NoCode, EmptyCode, ErrorCode}
  BY <1>1 DEF ErrorCode, Codes, Attempts
<1>5. Orderly => /\ Standard(ui.wallet) = "wc" /\ ui.view # "install"
                 /\ ~(ui.view = "qr" /\ ui.extra)
  BY ChoiceIsSelected
<1>6. CASE AfterURI(h) = u
  <2>1. /\ ui' \in UI /\ ui'.wallet = ui.wallet /\ ui'.view = ui.view /\ ui'.qr = ui.qr
        /\ ui'.other = ui.other /\ ui'.extra = ui.extra /\ ui'.working = CodeReady(h.code)
    BY <1>3, <1>6, ClosedFields
  <2>2. Orderly => ~ShowsCode'
    BY <1>5, <2>1 DEF ShowsCode
  <2>. QED
    BY <2>1, <2>2, ResumeLiveStep
<1>7. ASSUME NEW q \in Codes \cup {NoCode, EmptyCode, ErrorCode},
             q \in Codes => q = h.code /\ CodeReady(h.code),
             AfterURI(h) = InstallView([u EXCEPT !.qr = q], h.wallet)
      PROVE  ViewInv'
  <2>1. PICK v : v = [u EXCEPT !.qr = q]
    OBVIOUS
  <2>2. /\ v \in UI /\ v.wallet = ui.wallet /\ v.view = ui.view
        /\ v.qr = q /\ v.other = ui.other /\ v.extra = ui.extra /\ v.working = CodeReady(h.code)
    BY <1>3, <1>4, <1>7, <2>1, QRFields
  <2>3. PICK w : w = InstallView(v, h.wallet)
    OBVIOUS
  <2>4. /\ w \in UI /\ w.wallet = ui.wallet /\ w.view \in {ui.view, "install"}
        /\ w.qr = q /\ w.other = ui.other /\ w.extra = ui.extra /\ w.working = CodeReady(h.code)
    BY <2>2, <2>3, InstallFields
  <2>5. ui' = Closed(w)
    BY <1>7, <2>1, <2>3
  <2>6. /\ ui' \in UI /\ ui'.wallet = ui.wallet /\ ui'.view \in {ui.view, "install"} /\ ui'.qr = q
        /\ ui'.other = ui.other /\ ui'.extra = ui.extra /\ ui'.working = CodeReady(h.code)
    BY <2>4, <2>5, ClosedFields
  <2>7. q \in Codes => q = h.code /\ CodeReady(h.code)
    BY <1>7
  <2>8. Orderly => (ShowsCode' /\ ui'.qr \in Codes => ui'.qr[2] = Standard(ui.wallet))
    BY <1>5, <2>6, <2>7
  <2>. QED
    BY <2>6, <2>7, <2>8, ResumeLiveStep
<1>8. \/ AfterURI(h) = u
      \/ CodeReady(h.code) /\ AfterURI(h) = InstallView([u EXCEPT !.qr = h.code], h.wallet)
      \/ ~CodeReady(h.code) /\ AfterURI(h) = InstallView([u EXCEPT !.qr = ErrorCode], h.wallet)
  BY <1>2 DEF AfterURI
<1>9. CASE ~CodeReady(h.code) /\ AfterURI(h) = InstallView([u EXCEPT !.qr = ErrorCode], h.wallet)
  BY <1>4, <1>7, <1>9
<1>10. CASE CodeReady(h.code) /\ AfterURI(h) = InstallView([u EXCEPT !.qr = h.code], h.wallet)
  BY <1>4, <1>7, <1>10
<1>. QED
  BY <1>6, <1>8, <1>9, <1>10

LEMMA ResumeStep == ASSUME ViewInv, NEW h \in awaits, Resume(h) PROVE ViewInv'
<1>1. /\ ui \in UI /\ RootTypeOK /\ h \in Handler /\ h.code \in Codes /\ h.do \in Handlers
      /\ CodeKnown(h.code) /\ awaits' = awaits \ {h}
      /\ UNCHANGED <<rootVars, codes, device, alerts>>
  BY DEF ViewInv, AlertTypeOK, Handler, Resume
<1>2. RootTypeOK'
  <2>1. given' \subseteq Codes
    BY <1>1 DEF Resume, RootTypeOK
  <2>. QED
    BY <1>1, <2>1 DEF rootVars, RootTypeOK
<1>3. CASE ~h.live
  BY <1>1, <1>2, <1>3, ResumeDeadStep DEF Resume
<1>4. ASSUME h.live PROVE ViewInv'
  <2>1. ui' = AfterAwait(h)
    BY <1>4 DEF Resume
  <2>2. CASE h.do = "click" /\ h.code[2] = "wc"
    <3>1. ui' = Closed(AfterURI(h))
      BY <2>1, <2>2 DEF AfterAwait
    <3>. QED
      BY <1>1, <1>2, <1>4, <2>2, <3>1, AfterURIStep
  <2>3. CASE h.do = "click" /\ h.code[2] # "wc"
    <3>1. PICK q : q = IF CodeReady(h.code) THEN h.code ELSE EmptyCode
      OBVIOUS
    <3>2. EmptyCode \notin Codes /\ q \in Codes \cup {NoCode, EmptyCode, ErrorCode}
      BY <1>1, <3>1 DEF EmptyCode, Codes, Attempts
    <3>3. q \in Codes => q = h.code /\ CodeReady(h.code)
      BY <3>1, <3>2
    <3>4. PICK u : u = [ui EXCEPT !.qr = q]
      OBVIOUS
    <3>5. /\ u \in UI /\ u.wallet = ui.wallet /\ u.view = ui.view
          /\ u.qr = q /\ u.other = ui.other /\ u.extra = ui.extra /\ u.working = ui.working
      BY <1>1, <3>2, <3>4, QRFields
    <3>6. ui' = Closed(u)
      BY <2>1, <2>3, <3>1, <3>4 DEF AfterAwait
    <3>7. /\ ui' \in UI /\ ui'.wallet = ui.wallet /\ ui'.view = ui.view /\ ui'.qr = q
          /\ ui'.other = ui.other /\ ui'.extra = ui.extra /\ ui'.working = ui.working
      BY <3>5, <3>6, ClosedFields
    <3>8. Orderly => h.code[2] = Standard(ui.wallet)
      BY <1>4, <2>3, ChoiceIsSelected
    <3>. QED
      BY <1>1, <1>2, <1>4, <2>3, <3>3, <3>7, <3>8, ResumeLiveStep
  <2>4. CASE h.do = "link"
    <3>1. ui' = Closed(ui)
      BY <2>1, <2>4 DEF AfterAwait
    <3>2. /\ ui' \in UI /\ ui'.wallet = ui.wallet /\ ui'.view = ui.view /\ ui'.qr = ui.qr
          /\ ui'.other = ui.other /\ ui'.extra = ui.extra /\ ui'.working = ui.working
      BY <1>1, <3>1, ClosedFields
    <3>3. Orderly => ~ShowsCode'
      BY <1>4, <2>4, <3>2, ChoiceIsSelected DEF ShowsCode
    <3>. QED
      BY <1>1, <1>2, <1>4, <2>4, <3>2, <3>3, ResumeLiveStep
  <2>5. CASE h.do = "newtab"
    <3>1. ui' = Checked(h)
      BY <2>1, <2>5 DEF AfterAwait
    <3>2. /\ ui' \in UI /\ ui'.wallet = ui.wallet /\ ui'.loading = ui.loading
          /\ ui'.view = ui.view /\ ui'.qr = ui.qr /\ ui'.other = ui.other /\ ui'.extra = ui.extra
          /\ ui'.working = IF h.code[2] = "wc" THEN CodeReady(h.code) ELSE ui.working
      BY <1>1, <3>1, CheckedFields
    <3>3. \/ h.code[2] = "wc" /\ ui'.working = CodeReady(h.code)
          \/ ui'.working = ui.working
      BY <3>2
    <3>. QED
      BY <1>1, <1>2, <1>4, <2>5, <3>2, <3>3, ResumeLiveStep
  <2>6. CASE h.do = "showqr"
    <3>1. ui' = [ui EXCEPT !.qr = h.code, !.view = "qr", !.extra = TRUE]
      BY <2>1, <2>6 DEF AfterAwait
    <3>2. /\ ui' \in UI /\ ui'.wallet = ui.wallet /\ ui'.view = "qr" /\ ui'.qr = h.code
          /\ ui'.other = ui.other /\ ui'.extra = TRUE
      BY <1>1, <3>1 DEF UI, Views
    <3>3. h.code[2] = "wc" /\ CodeReady(h.code) /\ device = "phone"
      BY <2>6 DEF ViewInv, HandlersFit
    <3>4. Orderly => Standard(ui.wallet) = "wc"
      BY <1>4, <2>6 DEF ViewInv, OneChoice, ShowFits
    <3>. QED
      BY <1>1, <1>2, <1>4, <2>6, <3>2, <3>3, <3>4, ResumeLiveStep
  <2>7. CASE h.do \in {"deeplink", "extension", "desktop"}
    <3>1. ui' = ui
      BY <2>1, <2>7 DEF AfterAwait
    <3>. QED
      BY <1>1, <1>2, <1>4, <2>7, <3>1, ResumeLiveStep
  <2>. QED
    BY <1>1, <2>2, <2>3, <2>4, <2>5, <2>6, <2>7 DEF Handlers
<1>. QED
  BY <1>3, <1>4

LEMMA AlertUserStep == ASSUME ViewInv, AlertIdle, AlertUser PROVE ViewInv'
<1>1. CASE Close
  BY <1>1, ClosingStep DEF Close
<1>2. CASE \E w \in Wallets : ClickWallet(w)
  BY <1>2, ClickWalletStep
<1>3. CASE \/ HandleNewTab \/ HandleClickConnectExtension \/ HandleClickOpenDesktopApp
           \/ HandleDeepLinking \/ ShowQRCode
  BY <1>3, InstallStep
<1>4. CASE HandleClickOther \/ OtherWallets \/ Back \/ LearnMore
  BY <1>4, NavigationStep
<1>5. CASE \E t \in {"p2p", "wc"} : SelectOther(t)
  BY <1>5, SelectOtherStep
<1>6. CASE \E s \in Shown : Scan(s)
  BY <1>6, ScanStep
<1>. QED
  BY <1>1, <1>2, <1>3, <1>4, <1>5, <1>6 DEF AlertUser

LEMMA AlertNextKeepsViewInv == ViewInv /\ [AlertNext]_viewVars => ViewInv'
<1>. SUFFICES ASSUME ViewInv, [AlertNext]_viewVars PROVE ViewInv'
  OBVIOUS
<1>1. CASE UNCHANGED viewVars
  <2>1. RootTypeOK' /\ alerts' \in 0..MaxAlerts
    BY <1>1 DEF ViewInv, AlertTypeOK, RootTypeOK, viewVars, alertVars, uiVars
  <2>. QED
    BY <1>1, <2>1, CodesSameStay, SameStateStep DEF viewVars, alertVars, uiVars
<1>2. CASE \E h \in awaits : Resume(h)
  BY <1>2, ResumeStep
<1>3. CASE AlertIdle /\ DApp
  BY <1>3, DAppStep
<1>4. CASE AlertIdle /\ AlertUser
  BY <1>4, AlertUserStep
<1>. QED
  BY <1>1, <1>2, <1>3, <1>4 DEF AlertNext

LEMMA ViewInvHolds == AlertSpec => []ViewInv
<1>1. AlertInit => ViewInv
  BY AlertInitViewInv
<1>2. ViewInv /\ [AlertNext]_viewVars => ViewInv'
  BY AlertNextKeepsViewInv
<1>. QED
  BY <1>1, <1>2, PTL DEF AlertSpec

\* Every variable of the alert's views, and every handler that waits for a code, keeps
\* its type.
THEOREM AlertTypeCorrect == AlertSpec => []AlertTypeOK
<1>1. ViewInv => AlertTypeOK
  BY DEF ViewInv
<1>. QED
  BY <1>1, ViewInvHolds, PTL

\* However codes come, wallets are chosen and alerts are replaced, a QR code that is
\* shown is one there is, of the attempt whose alert it is; and once no handler runs
\* it is of the standard of the wallet it is shown for.
THEOREM ShownCodesFit == AlertSpec => []ShownCodeFits
BY ViewInvShows, ViewInvHolds, PTL

=============================================================================
