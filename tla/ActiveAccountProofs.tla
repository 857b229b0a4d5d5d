------------------------ MODULE ActiveAccountProofs ------------------------
(***************************************************************************)
(* Theorems about ActiveAccount for any number of tabs, accounts, wallets  *)
(* and calls.                                                              *)
(***************************************************************************)
EXTENDS ActiveAccount, TLAPS

-----------------------------------------------------------------------------
(***************************************************************************)
(* What the steps of a call do to the calls                                *)
(***************************************************************************)

\* To takes one call to another step.
LEMMA ToMoves ==
  ASSUME calls \in [Calls -> Call], NEW c \in Calls, NEW step \in Steps
  PROVE  /\ To(c, step) \in [Calls -> Call]
         /\ To(c, step)[c].at = step
         /\ To(c, step)[c].tab = calls[c].tab
         /\ To(c, step)[c].grant = calls[c].grant
         /\ To(c, step)[c].account = calls[c].account
         /\ To(c, step)[c].peer = calls[c].peer
         /\ \A d \in Calls : d # c => To(c, step)[d] = calls[d]
  BY DEF To, Call

\* The same when the call takes note of another account.
LEMMA ToMovesWith ==
  ASSUME calls \in [Calls -> Call], NEW c \in Calls, NEW step \in Steps,
         NEW a \in Accounts \cup {None},
         calls' = [calls EXCEPT ![c].at = step, ![c].account = a]
  PROVE  /\ calls' \in [Calls -> Call]
         /\ calls'[c].at = step
         /\ calls'[c].tab = calls[c].tab
         /\ calls'[c].grant = calls[c].grant
         /\ calls'[c].account = a
         /\ calls'[c].peer = calls[c].peer
         /\ \A d \in Calls : d # c => calls'[d] = calls[d]
  BY DEF Call

\* The same when it comes to wait to set the active account.
LEMMA ToMovesAside ==
  ASSUME calls \in [Calls -> Call], NEW c \in Calls,
         calls' = [calls EXCEPT ![c].at = "waiting", ![c].peer = None]
  PROVE  /\ calls' \in [Calls -> Call]
         /\ calls'[c].at = "waiting"
         /\ calls'[c].tab = calls[c].tab
         /\ calls'[c].grant = calls[c].grant
         /\ calls'[c].account = calls[c].account
         /\ calls'[c].peer = None
         /\ \A d \in Calls : d # c => calls'[d] = calls[d]
  BY DEF Call, Steps

\* The same when it takes note of the accounts it removed.
LEMMA ToMovesWithIds ==
  ASSUME calls \in [Calls -> Call], NEW c \in Calls, NEW step \in Steps,
         NEW ids \in SUBSET Accounts,
         calls' = [calls EXCEPT ![c].at = step, ![c].ids = ids]
  PROVE  /\ calls' \in [Calls -> Call]
         /\ calls'[c].at = step
         /\ calls'[c].tab = calls[c].tab
         /\ calls'[c].grant = calls[c].grant
         /\ calls'[c].account = calls[c].account
         /\ calls'[c].peer = calls[c].peer
         /\ \A d \in Calls : d # c => calls'[d] = calls[d]
  BY DEF Call

\* A call that is finished is at no step, and the others are as they were.
LEMMA FinishedMoves ==
  ASSUME calls \in [Calls -> Call], NEW c \in Calls
  PROVE  /\ Finished(c) \in [Calls -> Call]
         /\ Finished(c)[c].at = "done"
         /\ Finished(c)[c].grant = FALSE
         /\ \A d \in Calls : d # c => Finished(c)[d] = calls[d]
  BY DEF Finished, NoCall, Call

\* A call that is made was at no step before.
LEMMA StartMoves ==
  ASSUME calls \in [Calls -> Call], NEW c \in Calls, NEW t \in Tabs,
         NEW step \in Steps, NEW grant \in BOOLEAN,
         NEW a \in Accounts \cup {None}, NEW p \in Peers \cup {None},
         Start(c, t, step, grant, a, p)
  PROVE  /\ calls' \in [Calls -> Call]
         /\ calls[c].at = "idle"
         /\ calls'[c].at = step
         /\ calls'[c].tab = t
         /\ calls'[c].grant = grant
         /\ calls'[c].account = a
         /\ calls'[c].peer = p
         /\ \A d \in Calls : d # c => calls'[d] = calls[d]
  BY DEF Start, Call, At

\* Woken changes the calls of one tab that wait, and nothing but their step.
LEMMA WokenMoves ==
  ASSUME calls \in [Calls -> Call], NEW t \in Tabs
  PROVE  /\ Woken(t) \in [Calls -> Call]
         /\ \A d \in Calls : /\ Woken(t)[d].tab = calls[d].tab
                             /\ Woken(t)[d].grant = calls[d].grant
                             /\ Woken(t)[d].account = calls[d].account
                             /\ Woken(t)[d].peer = calls[d].peer
                             /\ Woken(t)[d].ids = calls[d].ids
                             /\ Woken(t)[d] # calls[d] =>
                                  calls[d].at = "waiting" /\ Woken(t)[d].at = "woken"
                             /\ calls[d].at # "waiting" => Woken(t)[d] = calls[d]
                             /\ Woken(t)[d].at = "waiting" =>
                                  calls[d].at = "waiting" /\ calls[d].tab # t
                             /\ Woken(t)[d].at = "opening" =>
                                  calls[d].at = "opening"
  BY DEF Woken, Call, At, Steps

\* A call that sets the transport wakes the calls that wait in its tab.
LEMMA SetTransportMoves ==
  ASSUME calls \in [Calls -> Call], NEW c \in Calls, calls[c].tab \in Tabs,
         NEW step \in Steps, step # "waiting", step # "opening",
         calls[c].at # "waiting", SetTransport(c, step)
  PROVE  /\ calls' \in [Calls -> Call]
         /\ calls'[c].at = step
         /\ \A d \in Calls : /\ calls'[d].tab = calls[d].tab
                             /\ calls'[d].grant = calls[d].grant
                             /\ calls'[d].account = calls[d].account
                             /\ calls'[d].peer = calls[d].peer
                             /\ d # c /\ calls'[d] # calls[d] =>
                                  calls[d].at = "waiting" /\ calls'[d].at = "woken"
                             /\ calls'[d].at = "waiting" =>
                                  /\ calls[d].at = "waiting"
                                  /\ calls[d].tab # calls[c].tab
                             /\ d # c /\ calls[d].at # "waiting" =>
                                  calls'[d] = calls[d]
<1>. DEFINE w == Woken(calls[c].tab)
<1>1. calls' = [w EXCEPT ![c].at = step]
  BY DEF SetTransport
<1>2. w \in [Calls -> Call]
  BY WokenMoves
<1>3. /\ [w EXCEPT ![c].at = step] \in [Calls -> Call]
      /\ [w EXCEPT ![c].at = step][c].at = step
      /\ [w EXCEPT ![c].at = step][c].tab = w[c].tab
      /\ [w EXCEPT ![c].at = step][c].grant = w[c].grant
      /\ [w EXCEPT ![c].at = step][c].account = w[c].account
      /\ [w EXCEPT ![c].at = step][c].peer = w[c].peer
      /\ \A d \in Calls : d # c => [w EXCEPT ![c].at = step][d] = w[d]
  <2>. HIDE DEF w
  <2>. QED
    BY <1>2 DEF Call
<1>4. \A d \in Calls : /\ w[d].tab = calls[d].tab
                       /\ w[d].grant = calls[d].grant
                       /\ w[d].account = calls[d].account
                       /\ w[d].peer = calls[d].peer
                       /\ w[d] # calls[d] =>
                            calls[d].at = "waiting" /\ w[d].at = "woken"
                       /\ calls[d].at # "waiting" => w[d] = calls[d]
                       /\ w[d].at = "waiting" =>
                            calls[d].at = "waiting" /\ calls[d].tab # calls[c].tab
  BY WokenMoves
<1>. HIDE DEF w
<1>. QED
  BY <1>1, <1>3, <1>4

-----------------------------------------------------------------------------
(***************************************************************************)
(* The invariant                                                           *)
(***************************************************************************)

(***************************************************************************)
(* A call that is under way has a tab, and a permission request has the    *)
(* account it was granted: this is what Add puts into the storage.         *)
(***************************************************************************)
Formed(k) ==
  /\ k.at \in Steps => k.tab \in Tabs
  /\ k.at \in {"granted", "confirmed"} => k.grant
  /\ k.grant => /\ k.account \in Accounts
                /\ k.peer = None
                /\ k.at \notin {"removing", "checking", "looking"}

IInv == TypeOK /\ \A c \in Calls : Formed(calls[c])

\* When the pages have been loaded, no call has been made yet.
LEMMA InitIInv == Init => IInv
<1>. SUFFICES ASSUME Init PROVE IInv
  OBVIOUS
<1>. USE ActiveAccountAssumption DEF Init
<1>1. /\ accounts \subseteq Accounts
      /\ peers \subseteq Peers
      /\ stored \in Accounts \cup {None}
      /\ overlapped \in BOOLEAN
      /\ handled \subseteq Tabs
  OBVIOUS
<1>2. /\ active \in [Tabs -> Accounts \cup {None}]
      /\ activePeer \in [Tabs -> Peers \cup {None}]
      /\ transport \in [Tabs -> BOOLEAN]
  BY <1>1
<1>3. events \in [Tabs -> Seq(Accounts \cup {None})]
  OBVIOUS
<1>4. NoCall \in Call
  BY DEF NoCall, Call
<1>5. calls \in [Calls -> Call]
  BY <1>4
<1>6. \A c \in Calls : calls[c].at = "idle" /\ ~calls[c].grant
  BY DEF NoCall
<1>. QED
  BY <1>1, <1>2, <1>3, <1>5, <1>6 DEF IInv, TypeOK, Formed, Steps

-----------------------------------------------------------------------------
(***************************************************************************)
(* The invariant is kept                                                   *)
(***************************************************************************)

\* What IInv says of the calls.
CallsInv ==
  /\ calls \in [Calls -> Call]
  /\ \A c \in Calls : Formed(calls[c])
  /\ \A c \in Calls : calls[c].at = "waiting" => ~transport[calls[c].tab]

\* What TypeOK says of the rest.
TypedInv ==
  /\ handled \subseteq Tabs
  /\ active \in [Tabs -> Accounts \cup {None}]
  /\ activePeer \in [Tabs -> Peers \cup {None}]
  /\ transport \in [Tabs -> BOOLEAN]
  /\ stored \in Accounts \cup {None}
  /\ accounts \subseteq Accounts
  /\ peers \subseteq Peers
  /\ events \in [Tabs -> Seq(Accounts \cup {None})]
  /\ overlapped \in BOOLEAN

\* A call that is made keeps it, if the transports are left alone.
LEMMA StartKeeps ==
  ASSUME IInv, NEW c \in Calls, NEW t \in Tabs, NEW step \in Steps,
         NEW grant \in BOOLEAN, NEW a \in Accounts \cup {None},
         NEW p \in Peers \cup {None}, Start(c, t, step, grant, a, p),
         step \notin {"woken", "confirmed"}, step = "waiting" => ~transport[t],
         grant <=> step = "granted", grant => a \in Accounts /\ p = None,
         transport' = transport
  PROVE  CallsInv'
<1>1. calls \in [Calls -> Call]
  BY DEF IInv, TypeOK
<1>2. /\ calls' \in [Calls -> Call]
      /\ calls'[c].at = step
      /\ calls'[c].tab = t
      /\ calls'[c].grant = grant
      /\ calls'[c].account = a
      /\ calls'[c].peer = p
      /\ \A d \in Calls : d # c => calls'[d] = calls[d]
  BY <1>1, StartMoves
<1>3. Formed(calls'[c])
  BY <1>2 DEF Formed
<1>. QED
  BY <1>2, <1>3 DEF CallsInv, IInv, TypeOK

(***************************************************************************)
(* A call that goes on keeps it, if it does not come to wait and no        *)
(* transport comes to be where another call waits for it.                  *)
(***************************************************************************)
LEMMA MoveKeeps ==
  ASSUME IInv, NEW c \in Calls, calls' \in [Calls -> Call], calls[c].at \in Steps,
         calls'[c].at # "waiting", Formed(calls'[c]),
         \A d \in Calls : d # c => calls'[d] = calls[d],
         \A t \in Tabs : transport'[t] => transport[t]
  PROVE  CallsInv'
<1>1. \A d \in Calls : Formed(calls'[d])
  BY DEF IInv
<1>2. \A d \in Calls : calls[d].at = "waiting" =>
                         calls[d].tab \in Tabs /\ ~transport[calls[d].tab]
  BY DEF IInv, TypeOK, Formed, Steps
<1>3. \A d \in Calls : calls'[d].at = "waiting" => ~transport'[calls'[d].tab]
  BY <1>2
<1>. QED
  BY <1>1, <1>3 DEF CallsInv

\* A call that sets the transport and wakes those that wait keeps it.
LEMMA SetTransportKeeps ==
  ASSUME IInv, NEW c \in Calls, NEW step \in {"connecting", "saving"},
         calls[c].at \in {"opening", "choosing"}, SetTransport(c, step)
  PROVE  CallsInv' /\ transport' \in [Tabs -> BOOLEAN]
<1>1. /\ calls \in [Calls -> Call]
      /\ transport \in [Tabs -> BOOLEAN]
      /\ calls[c].tab \in Tabs
  BY DEF IInv, TypeOK, Formed, Steps
<1>2. step \in Steps /\ step # "waiting" /\ step # "opening"
  BY DEF Steps
<1>3. /\ calls' \in [Calls -> Call]
      /\ calls'[c].at = step
      /\ \A d \in Calls : /\ calls'[d].tab = calls[d].tab
                          /\ calls'[d].grant = calls[d].grant
                          /\ calls'[d].account = calls[d].account
                          /\ calls'[d].peer = calls[d].peer
                          /\ d # c /\ calls'[d] # calls[d] =>
                               calls[d].at = "waiting" /\ calls'[d].at = "woken"
                          /\ calls'[d].at = "waiting" =>
                               /\ calls[d].at = "waiting"
                               /\ calls[d].tab # calls[c].tab
  BY <1>1, <1>2, SetTransportMoves
<1>4. transport' = [transport EXCEPT ![calls[c].tab] = TRUE]
  BY DEF SetTransport
<1>5. ASSUME NEW d \in Calls
      PROVE  Formed(calls'[d])
  <2>1. Formed(calls[d]) /\ Formed(calls[c])
    BY DEF IInv
  <2>. QED
    BY <1>3, <2>1 DEF Formed, Steps
<1>6. ASSUME NEW d \in Calls, calls'[d].at = "waiting"
      PROVE  ~transport'[calls'[d].tab]
  <2>1. /\ calls[d].at = "waiting"
        /\ calls[d].tab # calls[c].tab
        /\ calls'[d].tab = calls[d].tab
    BY <1>3, <1>6
  <2>2. calls[d].tab \in Tabs /\ ~transport[calls[d].tab]
    BY <2>1 DEF IInv, TypeOK, Formed, Steps
  <2>. QED
    BY <1>1, <1>4, <2>1, <2>2
<1>. QED
  BY <1>1, <1>3, <1>4, <1>5, <1>6 DEF CallsInv

\* Resetting the active account keeps it, and the rest of the tabs' state.
LEMMA ClearingKeeps ==
  ASSUME IInv, NEW c \in Calls, calls[c].at \in {"set", "checking", "woken"},
         ~calls[c].grant, Clearing(c)
  PROVE  /\ CallsInv'
         /\ handled' \subseteq Tabs
         /\ active' \in [Tabs -> Accounts \cup {None}]
         /\ activePeer' \in [Tabs -> Peers \cup {None}]
         /\ transport' \in [Tabs -> BOOLEAN]
<1>. DEFINE t == calls[c].tab
<1>1. /\ calls \in [Calls -> Call]
      /\ handled \subseteq Tabs
      /\ active \in [Tabs -> Accounts \cup {None}]
      /\ activePeer \in [Tabs -> Peers \cup {None}]
      /\ transport \in [Tabs -> BOOLEAN]
      /\ t \in Tabs
      /\ calls[c].at \in Steps
  BY DEF IInv, TypeOK, Formed, Steps
<1>2. /\ active' = [active EXCEPT ![t] = None]
      /\ activePeer' = [activePeer EXCEPT ![t] = None]
      /\ transport' = [transport EXCEPT ![t] = FALSE]
      /\ calls' = [calls EXCEPT ![c].at = "saving", ![c].account = None]
      /\ handled' = handled
  BY DEF Clearing
<1>3. /\ calls' \in [Calls -> Call]
      /\ calls'[c].at = "saving"
      /\ calls'[c].tab = t
      /\ calls'[c].grant = calls[c].grant
      /\ \A d \in Calls : d # c => calls'[d] = calls[d]
  BY <1>1, <1>2, ToMovesWith DEF Steps
<1>4. Formed(calls'[c])
  BY <1>1, <1>3 DEF Formed
<1>5. \A u \in Tabs : transport'[u] => transport[u]
  BY <1>1, <1>2
<1>6. CallsInv'
  BY <1>1, <1>3, <1>4, <1>5, MoveKeeps
<1>. QED
  BY <1>1, <1>2, <1>6

\* A call that comes to wait to set the active account keeps it: there is no transport.
LEMMA WaitingKeeps ==
  ASSUME IInv, NEW c \in Calls, calls[c].at \in {"set", "checking"},
         ~transport[calls[c].tab],
         calls' = [calls EXCEPT ![c].at = "waiting", ![c].peer = None],
         transport' = transport
  PROVE  CallsInv'
<1>1. calls \in [Calls -> Call] /\ calls[c].tab \in Tabs
  BY DEF IInv, TypeOK, Formed, Steps
<1>2. /\ calls' \in [Calls -> Call]
      /\ calls'[c].at = "waiting"
      /\ calls'[c].tab = calls[c].tab
      /\ calls'[c].grant = calls[c].grant
      /\ calls'[c].account = calls[c].account
      /\ calls'[c].peer = None
      /\ \A d \in Calls : d # c => calls'[d] = calls[d]
  BY <1>1, ToMovesAside
<1>3. Formed(calls'[c])
  BY <1>1, <1>2 DEF IInv, Formed
<1>4. \A d \in Calls : Formed(calls'[d])
  BY <1>2, <1>3 DEF IInv
<1>5. ASSUME NEW d \in Calls, calls'[d].at = "waiting"
      PROVE  ~transport'[calls'[d].tab]
  BY <1>2, <1>5 DEF IInv, TypeOK
<1>. QED
  BY <1>2, <1>4, <1>5 DEF CallsInv

(***************************************************************************)
(* Clearing the active account keeps it: a call waits only if there is no  *)
(* transport.                                                              *)
(***************************************************************************)
LEMMA ClearActiveKeeps ==
  ASSUME IInv, NEW c \in Calls, calls[c].at \in {"set", "checking"},
         ~calls[c].grant, ClearActive(c)
  PROVE  /\ CallsInv'
         /\ handled' \subseteq Tabs
         /\ active' \in [Tabs -> Accounts \cup {None}]
         /\ activePeer' \in [Tabs -> Peers \cup {None}]
         /\ transport' \in [Tabs -> BOOLEAN]
<1>1. CASE /\ ~transport[calls[c].tab] /\ UNCHANGED tabVars
           /\ calls' = [calls EXCEPT ![c].at = "waiting", ![c].peer = None]
  <2>1. UNCHANGED <<handled, active, activePeer, transport>>
    BY <1>1 DEF tabVars
  <2>2. CallsInv'
    BY <1>1, <2>1, WaitingKeeps
  <2>. QED
    BY <2>1, <2>2 DEF IInv, TypeOK
<1>2. CASE Clearing(c)
  BY <1>2, ClearingKeeps
<1>. QED
  BY <1>1, <1>2 DEF ClearActive

\* A call that comes to its end keeps it.
LEMMA FinishKeeps ==
  ASSUME IInv, NEW c \in Calls, calls[c].at \in Steps, calls' = Finished(c),
         transport' = transport
  PROVE  CallsInv'
<1>1. /\ calls' \in [Calls -> Call]
      /\ calls'[c].at = "done"
      /\ ~calls'[c].grant
      /\ \A d \in Calls : d # c => calls'[d] = calls[d]
  BY FinishedMoves DEF IInv, TypeOK
<1>2. Formed(calls'[c])
  BY <1>1 DEF Formed, Steps
<1>. QED
  BY <1>1, <1>2, MoveKeeps

\* A call that just takes its next step keeps it.
LEMMA ToKeeps ==
  ASSUME IInv, NEW c \in Calls, calls[c].at \in Steps,
         NEW step \in {"set", "opening", "choosing", "saving", "confirmed"},
         step = "confirmed" => calls[c].grant,
         calls' = To(c, step), transport' = transport
  PROVE  CallsInv'
<1>1. calls \in [Calls -> Call] /\ step \in Steps
  BY DEF IInv, TypeOK, Steps
<1>2. /\ calls' \in [Calls -> Call]
      /\ calls'[c].at = step
      /\ calls'[c].tab = calls[c].tab
      /\ calls'[c].grant = calls[c].grant
      /\ calls'[c].account = calls[c].account
      /\ calls'[c].peer = calls[c].peer
      /\ \A d \in Calls : d # c => calls'[d] = calls[d]
  BY <1>1, ToMoves
<1>3. Formed(calls'[c])
  BY <1>2 DEF Formed, IInv
<1>. QED
  BY <1>2, <1>3, MoveKeeps

\* Replacing the active account keeps it.
LEMMA ReplacingKeeps ==
  ASSUME IInv, NEW c \in Calls, calls[c].at \in {"set", "woken"}, Replacing(c)
  PROVE  /\ CallsInv'
         /\ UNCHANGED <<handled, activePeer, transport>>
         /\ active' \in [Tabs -> Accounts \cup {None}]
<1>1. /\ calls \in [Calls -> Call] /\ calls[c].at \in Steps
      /\ active \in [Tabs -> Accounts \cup {None}]
      /\ calls[c].account \in Accounts \cup {None}
  BY DEF IInv, TypeOK, Steps, Call
<1>2. /\ calls' = To(c, "opening") /\ UNCHANGED <<handled, activePeer, transport>>
      /\ active' = [active EXCEPT ![calls[c].tab] = calls[c].account]
  BY DEF Replacing
<1>3. CallsInv'
  BY <1>1, <1>2, ToKeeps
<1>. QED
  BY <1>1, <1>2, <1>3

-----------------------------------------------------------------------------
\* No step of the system takes it away.
LEMMA NextIInv == IInv /\ [Next]_vars => IInv'
<1>. SUFFICES ASSUME IInv, [Next]_vars PROVE IInv'
  OBVIOUS
<1>t. TypedInv /\ calls \in [Calls -> Call]
  BY DEF IInv, TypeOK, TypedInv
<1>f. \A c \in Calls : Formed(calls[c]) /\ calls[c].account \in Accounts \cup {None}
  BY <1>t DEF IInv, Call
<1>. SUFFICES CallsInv' /\ TypedInv'
  BY DEF IInv, TypeOK, CallsInv, TypedInv
<1>. USE DEF TypedInv, tabVars, storageVars
<1>1. ASSUME NEW c \in Calls, LookUp(c)
      PROVE  CallsInv' /\ TypedInv'
  <2>. DEFINE a == IF calls[c].account \in accounts THEN calls[c].account ELSE None
  <2>1. calls' = [calls EXCEPT ![c].at = "set", ![c].account = a]
    BY <1>1, <1>t DEF LookUp, Call
  <2>2. a \in Accounts \cup {None}
    BY <1>t
  <2>3. /\ calls' \in [Calls -> Call]
        /\ calls'[c].at = "set"
        /\ calls'[c].tab = calls[c].tab
        /\ calls'[c].grant = calls[c].grant
        /\ \A d \in Calls : d # c => calls'[d] = calls[d]
    <3>1. "set" \in Steps
      BY DEF Steps
    <3>. HIDE DEF a
    <3>. QED
      BY <2>1, <2>2, <3>1, <1>t, ToMovesWith
  <2>4. calls[c].at \in Steps /\ calls[c].at = "looking"
    BY <1>1 DEF LookUp, At, Steps
  <2>5. Formed(calls'[c])
    BY <2>3, <2>4, <1>f DEF Formed
  <2>6. CallsInv'
    BY <1>1, <2>3, <2>4, <2>5, MoveKeeps DEF LookUp
  <2>. QED
    BY <1>1, <1>t, <2>6 DEF LookUp
<1>2. ASSUME NEW c \in Calls, SetActive(c)
      PROVE  CallsInv' /\ TypedInv'
  <2>1. calls[c].at = "set" /\ UNCHANGED <<storageVars, overlapped>>
    BY <1>2 DEF SetActive, At
  <2>2. CASE calls[c].account = None /\ ClearActive(c)
    <3>1. ~calls[c].grant
      BY <2>2, <1>f, ActiveAccountAssumption DEF Formed
    <3>. QED
      BY <1>t, <2>1, <2>2, <3>1, ClearActiveKeeps
  <2>3. CASE Replacing(c)
    BY <1>t, <2>1, <2>3, ReplacingKeeps
  <2>4. CASE /\ ~transport[calls[c].tab] /\ UNCHANGED tabVars
             /\ calls' = [calls EXCEPT ![c].at = "waiting", ![c].peer = None]
    <3>1. CallsInv'
      BY <2>1, <2>4, WaitingKeeps
    <3>. QED
      BY <1>t, <2>1, <2>4, <3>1
  <2>. QED
    BY <1>2, <2>2, <2>3, <2>4 DEF SetActive
<1>3. ASSUME NEW c \in Calls, GoOnSetting(c)
      PROVE  CallsInv' /\ TypedInv'
  <2>1. calls[c].at = "woken" /\ calls[c].at \in Steps /\ UNCHANGED <<storageVars, overlapped>>
    BY <1>3 DEF GoOnSetting, At, Steps
  <2>2. CASE calls' = Finished(c) /\ UNCHANGED tabVars
    <3>1. CallsInv'
      BY <2>1, <2>2, FinishKeeps
    <3>. QED
      BY <1>t, <2>1, <2>2, <3>1
  <2>3. CASE calls[c].account = None /\ Clearing(c)
    <3>1. ~calls[c].grant
      BY <2>3, <1>f, ActiveAccountAssumption DEF Formed
    <3>. QED
      BY <1>t, <2>1, <2>3, <3>1, ClearingKeeps
  <2>4. CASE Replacing(c)
    BY <1>t, <2>1, <2>4, ReplacingKeeps
  <2>. QED
    BY <1>3, <2>2, <2>3, <2>4 DEF GoOnSetting
<1>r. ASSUME NEW c \in Calls, GoOnRemoving(c)
      PROVE  CallsInv' /\ TypedInv'
  <2>1. /\ calls[c].at = "woken" /\ calls[c].at \in Steps /\ "removing" \in Steps
        /\ calls' = To(c, "removing") /\ ~calls[c].grant
    BY <1>r, <1>f DEF GoOnRemoving, At, Steps, Formed
  <2>2. /\ calls' \in [Calls -> Call]
        /\ calls'[c].at = "removing"
        /\ calls'[c].tab = calls[c].tab
        /\ calls'[c].grant = calls[c].grant
        /\ \A d \in Calls : d # c => calls'[d] = calls[d]
    BY <2>1, <1>t, ToMoves
  <2>3. Formed(calls'[c])
    BY <2>1, <2>2, <1>f DEF Formed
  <2>4. CallsInv'
    BY <1>r, <2>1, <2>2, <2>3, MoveKeeps DEF GoOnRemoving
  <2>. QED
    BY <1>r, <1>t, <2>4 DEF GoOnRemoving
<1>4. ASSUME NEW c \in Calls, OpenTransport(c)
      PROVE  CallsInv' /\ TypedInv'
  <2>1. CallsInv' /\ transport' \in [Tabs -> BOOLEAN]
    BY <1>4, SetTransportKeeps DEF OpenTransport, At
  <2>. QED
    BY <1>4, <1>t, <2>1 DEF OpenTransport
<1>5. ASSUME NEW c \in Calls, ChooseTransport(c)
      PROVE  CallsInv' /\ TypedInv'
  <2>1. CallsInv' /\ transport' \in [Tabs -> BOOLEAN]
    BY <1>5, SetTransportKeeps DEF ChooseTransport, At
  <2>. QED
    BY <1>5, <1>t, <2>1 DEF ChooseTransport
<1>6. ASSUME NEW c \in Calls, FindPeer(c)
      PROVE  CallsInv' /\ TypedInv'
  <2>1. calls[c].at \in Steps
    BY <1>6 DEF FindPeer, At, Steps
  <2>2. PICK step \in {"choosing", "saving"} : calls' = To(c, step)
    BY <1>6 DEF FindPeer
  <2>3. PICK p \in peers \cup {None} :
          activePeer' = [activePeer EXCEPT ![calls[c].tab] = p]
    BY <1>6 DEF FindPeer
  <2>4. CallsInv'
    BY <1>6, <2>1, <2>2, ToKeeps DEF FindPeer
  <2>. QED
    BY <1>6, <1>t, <2>3, <2>4 DEF FindPeer
<1>7. ASSUME NEW c \in Calls, Save(c)
      PROVE  CallsInv' /\ TypedInv'
  <2>1. calls[c].at \in Steps /\ transport' = transport
    BY <1>7 DEF Save, At, Steps
  <2>2. calls' = IF calls[c].grant THEN To(c, "confirmed") ELSE Finished(c)
    BY <1>7 DEF Save
  <2>3. CallsInv'
    BY <2>1, <2>2, FinishKeeps, ToKeeps
  <2>4. stored' = calls[c].account
    BY <1>7 DEF Save, Saved
  <2>5. events' \in [Tabs -> Seq(Accounts \cup {None})]
    BY <1>7, <1>t, <1>f DEF Save, Saved
  <2>. QED
    BY <1>7, <1>t, <1>f, <2>3, <2>4, <2>5 DEF Save
<1>8. ASSUME NEW c \in Calls, Add(c)
      PROVE  CallsInv' /\ TypedInv'
  <2>1. calls[c].at \in Steps
    BY <1>8 DEF Add, Steps
  <2>2. \/ calls' = Finished(c)
        \/ calls' = To(c, "set")
    BY <1>8 DEF Add
  <2>3. CallsInv'
    BY <1>8, <2>1, <2>2, FinishKeeps, ToKeeps DEF Add
  <2>4. calls[c].account \in Accounts
    BY <1>8, <1>f DEF Add, Formed
  <2>. QED
    BY <1>8, <1>t, <2>3, <2>4 DEF Add
<1>9. ASSUME NEW c \in Calls, Remove(c)
      PROVE  CallsInv' /\ TypedInv'
  <2>. DEFINE ids == {a \in accounts : PeerOf[a] = calls[c].peer}
  <2>1. /\ ids \in SUBSET Accounts
        /\ calls' = [calls EXCEPT ![c].at = "checking", ![c].ids = ids]
        /\ calls[c].at = "removing" /\ calls[c].at \in Steps
    BY <1>9, <1>t DEF Remove, At, Steps
  <2>2. /\ calls' \in [Calls -> Call]
        /\ calls'[c].at = "checking"
        /\ calls'[c].tab = calls[c].tab
        /\ calls'[c].grant = calls[c].grant
        /\ \A d \in Calls : d # c => calls'[d] = calls[d]
    <3>1. "checking" \in Steps
      BY DEF Steps
    <3>. HIDE DEF ids
    <3>. QED
      BY <2>1, <3>1, <1>t, ToMovesWithIds
  <2>3. Formed(calls'[c])
    BY <2>1, <2>2, <1>f DEF Formed
  <2>4. CallsInv'
    BY <1>9, <2>1, <2>2, <2>3, MoveKeeps DEF Remove
  <2>. QED
    BY <1>9, <1>t, <2>4 DEF Remove
<1>10. ASSUME NEW c \in Calls, CheckActive(c)
       PROVE  CallsInv' /\ TypedInv'
  <2>1. calls[c].at = "checking" /\ calls[c].at \in Steps
    BY <1>10 DEF CheckActive, At, Steps
  <2>2. ~calls[c].grant
    BY <2>1, <1>f DEF Formed
  <2>3. CASE ClearActive(c)
    BY <1>10, <1>t, <2>1, <2>2, <2>3, ClearActiveKeeps DEF CheckActive
  <2>4. CASE calls' = Finished(c) /\ UNCHANGED tabVars
    <3>1. CallsInv'
      BY <2>1, <2>4, FinishKeeps
    <3>. QED
      BY <1>10, <1>t, <2>4, <3>1 DEF CheckActive
  <2>. QED
    BY <1>10, <2>3, <2>4 DEF CheckActive
<1>11. ASSUME NEW c \in Calls, NEW t \in Tabs, HandleEvent(c, t)
       PROVE  CallsInv' /\ TypedInv'
  <2>. DEFINE a == Head(events[t])
              step == IF a = None THEN "set" ELSE "looking"
  <2>1. events[t] \in Seq(Accounts \cup {None}) /\ events[t] # <<>>
    BY <1>11, <1>t DEF HandleEvent
  <2>2. /\ a \in Accounts \cup {None}
        /\ Tail(events[t]) \in Seq(Accounts \cup {None})
    BY <2>1
  <2>3. /\ Start(c, t, step, FALSE, a, None)
        /\ events' = [events EXCEPT ![t] = Tail(events[t])]
        /\ transport' = transport
    BY <1>11 DEF HandleEvent
  <2>4. step \in Steps /\ step \in {"set", "looking"}
    BY DEF Steps
  <2>5. CallsInv'
    <3>. HIDE DEF a, step
    <3>. QED
      BY <2>2, <2>3, <2>4, StartKeeps
  <2>. QED
    BY <1>11, <1>t, <2>2, <2>3, <2>5 DEF HandleEvent
<1>12. ASSUME NEW c \in Calls, NEW t \in Tabs, Clear(c, t)
       PROVE  CallsInv' /\ TypedInv'
  <2>1. CallsInv'
    BY <1>12, StartKeeps DEF Clear, Begin, Steps
  <2>. QED
    BY <1>12, <1>t, <2>1 DEF Clear, Begin
<1>13. ASSUME NEW c \in Calls, NEW t \in Tabs, NEW a \in Accounts, Select(c, t, a)
       PROVE  CallsInv' /\ TypedInv'
  <2>1. CallsInv'
    BY <1>13, StartKeeps DEF Select, Begin, Steps
  <2>. QED
    BY <1>13, <1>t, <2>1 DEF Select, Begin
<1>14. ASSUME NEW c \in Calls, NEW t \in Tabs, NEW a \in Accounts, Grant(c, t, a)
       PROVE  CallsInv' /\ TypedInv'
  <2>1. CallsInv'
    BY <1>14, StartKeeps DEF Grant, Begin, Steps
  <2>. QED
    BY <1>14, <1>t, <2>1 DEF Grant, Begin
<1>15. ASSUME NEW c \in Calls, NEW t \in Tabs, NEW p \in Peers,
              RemovePeer(c, t, p) \/ ReceiveDisconnect(c, t, p)
       PROVE  CallsInv' /\ TypedInv'
  <2>1. PICK step \in {"removing", "waiting"} :
          /\ step = "waiting" => ~transport[t]
          /\ Begin(c, t, step, FALSE, None, p)
    BY <1>15 DEF RemovePeer, ReceiveDisconnect
  <2>2. /\ UNCHANGED <<tabVars, stored, accounts, events>> /\ peers' \subseteq peers
        /\ overlapped' \in BOOLEAN
    BY <1>15 DEF RemovePeer, ReceiveDisconnect, Begin
  <2>3. CallsInv'
    BY <2>1, <2>2, StartKeeps DEF Begin, Steps
  <2>. QED
    BY <1>t, <2>2, <2>3
<1>s. ASSUME NEW t \in Tabs, Subscribe(t)
      PROVE  CallsInv' /\ TypedInv'
  BY <1>s, <1>t, <1>f DEF Subscribe, CallsInv, IInv, TypeOK
<1>16. ASSUME NEW t \in Tabs, ForgetWallet(t)
       PROVE  CallsInv' /\ TypedInv'
  <2>1. \A d \in Calls : calls[d].at = "waiting" =>
                           calls[d].tab \in Tabs /\ ~transport[calls[d].tab]
    BY DEF IInv, TypeOK, Formed, Steps
  <2>2. /\ transport' = [transport EXCEPT ![t] = FALSE]
        /\ calls' = calls
    BY <1>16 DEF ForgetWallet
  <2>3. \A d \in Calls : calls'[d].at = "waiting" => ~transport'[calls'[d].tab]
    BY <1>t, <2>1, <2>2
  <2>4. CallsInv'
    BY <1>t, <1>f, <2>2, <2>3 DEF CallsInv
  <2>. QED
    BY <1>16, <1>t, <2>4 DEF ForgetWallet
<1>17. ASSUME NEW t \in Tabs, NEW p \in Peers, Pair(t, p)
       PROVE  CallsInv' /\ TypedInv'
  <2>1. /\ transport' = [transport EXCEPT ![t] = TRUE]
        /\ calls' = Woken(t)
    BY <1>17 DEF Pair
  <2>2. /\ calls' \in [Calls -> Call]
        /\ \A d \in Calls : /\ calls'[d].tab = calls[d].tab
                            /\ calls'[d].grant = calls[d].grant
                            /\ calls'[d].account = calls[d].account
                            /\ calls'[d].peer = calls[d].peer
                            /\ calls'[d] # calls[d] =>
                                 calls[d].at = "waiting" /\ calls'[d].at = "woken"
                            /\ calls'[d].at = "waiting" =>
                                 calls[d].at = "waiting" /\ calls[d].tab # t
    BY <1>t, <2>1, WokenMoves
  <2>3. ASSUME NEW d \in Calls
        PROVE  Formed(calls'[d])
    BY <1>f, <2>2 DEF Formed, Steps
  <2>4. \A d \in Calls : calls[d].at = "waiting" =>
                           calls[d].tab \in Tabs /\ ~transport[calls[d].tab]
    BY DEF IInv, TypeOK, Formed, Steps
  <2>5. \A d \in Calls : calls'[d].at = "waiting" => ~transport'[calls'[d].tab]
    BY <1>t, <2>1, <2>2, <2>4
  <2>6. CallsInv'
    BY <2>2, <2>3, <2>5 DEF CallsInv
  <2>. QED
    BY <1>17, <1>t, <2>6 DEF Pair
<1>18. CASE UNCHANGED vars
  BY <1>18, <1>t DEF vars, IInv, TypeOK, CallsInv
<1>19. ASSUME NEW c \in Calls, Step(c)
       PROVE  CallsInv' /\ TypedInv'
  BY <1>19, <1>1, <1>2, <1>3, <1>r, <1>4, <1>5, <1>6, <1>7, <1>8, <1>9, <1>10 DEF Step
<1>. QED
  BY <1>11, <1>12, <1>13, <1>14, <1>15, <1>s, <1>16, <1>17, <1>18, <1>19,
     ActiveAccountAssumption DEF Next

(***************************************************************************)
(* The invariant holds for any tabs, accounts, wallets and number of calls,*)
(* made in any tab at any time.                                            *)
(***************************************************************************)
THEOREM InvariantHolds == Spec => []IInv
<1>. QED
  BY InitIInv, NextIInv, PTL DEF Spec

(***************************************************************************)
(* The state is well formed, and a call waits for the transport of its tab *)
(* only while that is not there.                                           *)
(***************************************************************************)
THEOREM TypeCorrect == Spec => []TypeOK
<1>1. IInv => TypeOK
  BY DEF IInv
<1>. QED
  BY <1>1, InvariantHolds, PTL

-----------------------------------------------------------------------------
(***************************************************************************)
(* The transport of an active account                                      *)
(***************************************************************************)

\* Among calls k is one that selects the transport of tab t.
Selecting(k, t) == \E c \in Calls : k[c].tab = t /\ k[c].at = "opening"

\* Call c, which waits, waits for a transport that comes, or to remove a peer in a
\* tab without an account.
Comes(c) ==
  \/ Selecting(calls, calls[c].tab)
  \/ calls[c].peer # None /\ active[calls[c].tab] = None

\* What is to be shown, and kept by each step.
Selected == TransportIsSelected /\ AwaitedTransportComes

(***************************************************************************)
(* It is kept by a call that is not the one that selects, and does not     *)
(* touch the active account and the transport.                             *)
(***************************************************************************)
LEMMA QuietCallKeeps ==
  ASSUME Selected, NEW c \in Calls, calls[c].at # "opening",
         calls'[c].at = "waiting" => Comes(c)',
         \A d \in Calls : d # c => calls'[d] = calls[d],
         UNCHANGED <<active, transport>>
  PROVE  Selected'
<1>1. ASSUME NEW t, Selecting(calls, t)
      PROVE  Selecting(calls', t)
  BY <1>1 DEF Selecting
<1>2. TransportIsSelected'
  BY <1>1 DEF Selected, TransportIsSelected, Selecting
<1>3. AwaitedTransportComes'
  <2>. SUFFICES ASSUME NEW e \in Calls, calls'[e].at = "waiting"
                PROVE  Comes(e)'
    BY DEF AwaitedTransportComes, At, Selecting, Comes
  <2>1. CASE e # c
    <3>1. calls[e].at = "waiting" /\ calls'[e] = calls[e]
      BY <2>1
    <3>2. Comes(e)
      BY <3>1 DEF Selected, AwaitedTransportComes, At, Selecting, Comes
    <3>. QED
      BY <1>1, <3>1, <3>2 DEF Comes
  <2>. QED
    BY <2>1
<1>. QED
  BY <1>2, <1>3 DEF Selected

(***************************************************************************)
(* It is kept by a call that clears the active account, or finds a         *)
(* transport to be waited for: with an active account, one is on its way.  *)
(***************************************************************************)
LEMMA ClearingCallKeeps ==
  ASSUME IInv, Selected, NEW c \in Calls, calls[c].at \in Steps \ {"opening"},
         calls' \in [Calls -> Call],
         calls'[c].tab = calls[c].tab,
         \A d \in Calls : d # c => calls'[d] = calls[d],
         \/ /\ active[calls[c].tab] # None /\ ~transport[calls[c].tab]
            /\ UNCHANGED <<active, transport>>
         \/ /\ calls'[c].at # "waiting"
            /\ active' = [active EXCEPT ![calls[c].tab] = None]
            /\ transport' = [transport EXCEPT ![calls[c].tab] = FALSE]
  PROVE  Selected'
<1>. DEFINE t == calls[c].tab
<1>0. /\ active \in [Tabs -> Accounts \cup {None}]
      /\ transport \in [Tabs -> BOOLEAN]
      /\ t \in Tabs
  BY DEF IInv, TypeOK, Formed
<1>1. ASSUME NEW u, Selecting(calls, u)
      PROVE  Selecting(calls', u)
  BY <1>1 DEF Selecting
<1>2. TransportIsSelected'
  <2>. SUFFICES ASSUME NEW u \in Tabs, active'[u] # None, ~transport'[u]
                PROVE  Selecting(calls', u)
    BY DEF TransportIsSelected, Selecting
  <2>1. active[u] # None /\ ~transport[u]
    BY <1>0
  <2>2. Selecting(calls, u)
    BY <2>1 DEF Selected, TransportIsSelected, Selecting
  <2>. QED
    BY <1>1, <2>2
<1>3. AwaitedTransportComes'
  <2>. SUFFICES ASSUME NEW e \in Calls, calls'[e].at = "waiting"
                PROVE  Comes(e)'
    BY DEF AwaitedTransportComes, At, Selecting, Comes
  <2>1. CASE e = c
    <3>1. Selecting(calls, t)
      BY <2>1, <1>0 DEF Selected, TransportIsSelected, Selecting
    <3>. QED
      BY <1>1, <2>1, <3>1 DEF Comes
  <2>2. CASE e # c
    <3>1. /\ calls[e].at = "waiting" /\ calls'[e] = calls[e]
          /\ calls[e].tab \in Tabs
      BY <2>2 DEF IInv, Formed, Steps
    <3>2. Comes(e)
      BY <3>1 DEF Selected, AwaitedTransportComes, At, Selecting, Comes
    <3>3. active[calls[e].tab] = None => active'[calls[e].tab] = None
      BY <1>0, <3>1
    <3>. QED
      BY <1>1, <3>1, <3>2, <3>3 DEF Comes
  <2>. QED
    BY <2>1, <2>2
<1>. QED
  BY <1>2, <1>3 DEF Selected

(***************************************************************************)
(* It is kept when the transport of tab t is set, whoever waited for it    *)
(* being woken, if no call of another tab stops selecting its transport.   *)
(***************************************************************************)
LEMMA SettingKeeps ==
  ASSUME IInv, Selected, NEW t \in Tabs, active' = active,
         transport' = [transport EXCEPT ![t] = TRUE],
         \A d \in Calls : /\ calls'[d].tab = calls[d].tab
                          /\ calls'[d].peer = calls[d].peer
                          /\ calls'[d].at = "waiting" =>
                               calls[d].at = "waiting" /\ calls[d].tab # t
                          /\ calls[d].at = "opening" /\ calls[d].tab # t =>
                               calls'[d].at = "opening"
  PROVE  Selected'
<1>1. ASSUME NEW u, u # t, Selecting(calls, u)
      PROVE  Selecting(calls', u)
  BY <1>1 DEF Selecting
<1>2. transport \in [Tabs -> BOOLEAN]
  BY DEF IInv, TypeOK
<1>3. TransportIsSelected'
  <2>. SUFFICES ASSUME NEW u \in Tabs, active'[u] # None, ~transport'[u]
                PROVE  Selecting(calls', u)
    BY DEF TransportIsSelected, Selecting
  <2>1. u # t /\ active[u] # None /\ ~transport[u]
    BY <1>2
  <2>. QED
    BY <1>1, <2>1 DEF Selected, TransportIsSelected, Selecting
<1>4. AwaitedTransportComes'
  <2>. SUFFICES ASSUME NEW e \in Calls, calls'[e].at = "waiting"
                PROVE  Comes(e)'
    BY DEF AwaitedTransportComes, At, Selecting, Comes
  <2>1. /\ calls[e].at = "waiting"
        /\ calls[e].tab # t
        /\ calls'[e].tab = calls[e].tab
        /\ calls'[e].peer = calls[e].peer
    OBVIOUS
  <2>2. Comes(e)
    BY <2>1 DEF Selected, AwaitedTransportComes, At, Selecting, Comes
  <2>. QED
    BY <1>1, <2>1, <2>2 DEF Comes
<1>. QED
  BY <1>3, <1>4 DEF Selected

(***************************************************************************)
(* It is kept by a call that replaces the active account: it is about to   *)
(* select the transport.                                                   *)
(***************************************************************************)
LEMMA ReplacingCallKeeps ==
  ASSUME IInv, Selected, NEW c \in Calls, calls[c].at \in Steps \ {"opening"},
         Replacing(c)
  PROVE  Selected'
<1>1. /\ calls \in [Calls -> Call] /\ active \in [Tabs -> Accounts \cup {None}]
      /\ active' = [active EXCEPT ![calls[c].tab] = calls[c].account]
      /\ transport' = transport
      /\ calls' = To(c, "opening") /\ "opening" \in Steps
  BY DEF IInv, TypeOK, Replacing, Steps
<1>2. /\ calls'[c].at = "opening"
      /\ calls'[c].tab = calls[c].tab
      /\ \A d \in Calls : d # c => calls'[d] = calls[d]
  BY <1>1, ToMoves
<1>3. \A t : Selecting(calls, t) => Selecting(calls', t)
  BY <1>2 DEF Selecting
<1>4. Selecting(calls', calls[c].tab)
  BY <1>2 DEF Selecting
<1>5. TransportIsSelected'
  <2>. SUFFICES ASSUME NEW u \in Tabs, active'[u] # None, ~transport'[u]
                PROVE  Selecting(calls', u)
    BY DEF TransportIsSelected, Selecting
  <2>1. CASE u # calls[c].tab
    <3>1. active[u] # None /\ ~transport[u]
      BY <1>1, <2>1
    <3>2. Selecting(calls, u)
      BY <3>1 DEF Selected, TransportIsSelected, Selecting
    <3>. QED
      BY <3>2, <1>3
  <2>. QED
    BY <2>1, <1>4
<1>6. AwaitedTransportComes'
  <2>. SUFFICES ASSUME NEW e \in Calls, calls'[e].at = "waiting"
                PROVE  Comes(e)'
    BY DEF AwaitedTransportComes, At, Selecting, Comes
  <2>1. /\ calls[e].at = "waiting" /\ calls'[e] = calls[e]
        /\ calls[e].tab \in Tabs
    BY <1>2 DEF IInv, Formed, Steps
  <2>2. CASE calls[e].tab = calls[c].tab
    BY <2>1, <2>2, <1>4 DEF Comes
  <2>3. CASE calls[e].tab # calls[c].tab
    <3>1. Comes(e)
      BY <2>1 DEF Selected, AwaitedTransportComes, At, Selecting, Comes
    <3>2. active'[calls[e].tab] = active[calls[e].tab]
      BY <1>1, <2>1, <2>3
    <3>. QED
      BY <1>3, <2>1, <3>1, <3>2 DEF Comes
  <2>. QED
    BY <2>2, <2>3
<1>. QED
  BY <1>5, <1>6 DEF Selected

\* No step of the system takes it away.
LEMMA NextSelected == IInv /\ Selected /\ [Next]_vars => Selected'
<1>. SUFFICES ASSUME IInv, Selected, [Next]_vars PROVE Selected'
  OBVIOUS
<1>. USE DEF tabVars
<1>t. calls \in [Calls -> Call]
  BY DEF IInv, TypeOK
<1>1. ASSUME NEW c \in Calls, NEW t \in Tabs, NEW step \in Steps \ {"waiting"},
             NEW grant \in BOOLEAN, NEW a \in Accounts \cup {None},
             NEW p \in Peers \cup {None}, Start(c, t, step, grant, a, p),
             UNCHANGED <<active, transport>>
      PROVE  Selected'
  <2>1. /\ calls[c].at = "idle"
        /\ calls'[c].at = step
        /\ \A d \in Calls : d # c => calls'[d] = calls[d]
    BY <1>1, <1>t, StartMoves
  <2>. QED
    BY <1>1, <2>1, QuietCallKeeps
<1>2. ASSUME NEW c \in Calls, calls[c].at # "opening", calls' = Finished(c),
             UNCHANGED <<active, transport>>
      PROVE  Selected'
  BY <1>2, <1>t, FinishedMoves, QuietCallKeeps
<1>3. ASSUME NEW c \in Calls, NEW step \in Steps \ {"waiting"},
             calls[c].at # "opening", calls' = To(c, step),
             UNCHANGED <<active, transport>>
      PROVE  Selected'
  BY <1>3, <1>t, ToMoves, QuietCallKeeps
<1>4. ASSUME NEW c \in Calls, calls[c].at \in Steps \ {"opening"},
             \/ Clearing(c)
             \/ /\ active[calls[c].tab] # None /\ ~transport[calls[c].tab]
                /\ calls' = [calls EXCEPT ![c].at = "waiting", ![c].peer = None]
                /\ UNCHANGED tabVars
      PROVE  Selected'
  <2>1. CASE Clearing(c)
    <3>1. /\ active' = [active EXCEPT ![calls[c].tab] = None]
          /\ transport' = [transport EXCEPT ![calls[c].tab] = FALSE]
          /\ calls' = [calls EXCEPT ![c].at = "saving", ![c].account = None]
      BY <2>1 DEF Clearing
    <3>2. /\ calls' \in [Calls -> Call]
          /\ calls'[c].at = "saving"
          /\ calls'[c].tab = calls[c].tab
          /\ \A d \in Calls : d # c => calls'[d] = calls[d]
      BY <3>1, <1>t, ToMovesWith DEF Steps
    <3>. QED
      BY <1>4, <3>1, <3>2, ClearingCallKeeps
  <2>2. CASE /\ active[calls[c].tab] # None /\ ~transport[calls[c].tab]
             /\ calls' = [calls EXCEPT ![c].at = "waiting", ![c].peer = None]
             /\ UNCHANGED tabVars
    <3>1. /\ calls' \in [Calls -> Call]
          /\ calls'[c].tab = calls[c].tab
          /\ \A d \in Calls : d # c => calls'[d] = calls[d]
      BY <2>2, <1>t, ToMovesAside
    <3>. QED
      BY <1>4, <2>2, <3>1, ClearingCallKeeps
  <2>. QED
    BY <1>4, <2>1, <2>2
<1>5. ASSUME NEW c \in Calls, NEW step \in {"connecting", "saving"},
             calls[c].at \in {"opening", "choosing"}, SetTransport(c, step),
             active' = active
      PROVE  Selected'
  <2>1. calls[c].tab \in Tabs
    BY <1>5 DEF IInv, Formed, Steps
  <2>2. \A d \in Calls : /\ calls'[d].tab = calls[d].tab
                         /\ calls'[d].peer = calls[d].peer
                         /\ calls'[d].at = "waiting" =>
                              /\ calls[d].at = "waiting"
                              /\ calls[d].tab # calls[c].tab
                         /\ d # c /\ calls[d].at # "waiting" =>
                              calls'[d] = calls[d]
    BY <1>5, <1>t, <2>1, SetTransportMoves DEF Steps
  <2>3. transport' = [transport EXCEPT ![calls[c].tab] = TRUE]
    BY <1>5 DEF SetTransport
  <2>4. \A d \in Calls : /\ calls'[d].tab = calls[d].tab
                         /\ calls'[d].peer = calls[d].peer
                         /\ calls'[d].at = "waiting" =>
                              calls[d].at = "waiting" /\ calls[d].tab # calls[c].tab
                         /\ calls[d].at = "opening" /\ calls[d].tab # calls[c].tab =>
                              calls'[d].at = "opening"
    BY <2>2
  <2>. QED
    BY <1>5, <2>1, <2>3, <2>4, SettingKeeps
<1>6. ASSUME NEW c \in Calls, LookUp(c)
      PROVE  Selected'
  <2>. DEFINE a == IF calls[c].account \in accounts THEN calls[c].account ELSE None
  <2>1. /\ calls' = [calls EXCEPT ![c].at = "set", ![c].account = a]
        /\ a \in Accounts \cup {None}
    BY <1>6, <1>t DEF LookUp, Call, IInv, TypeOK
  <2>2. "set" \in Steps
    BY DEF Steps
  <2>3. /\ calls'[c].at = "set"
        /\ \A d \in Calls : d # c => calls'[d] = calls[d]
    <3>. HIDE DEF a
    <3>. QED
      BY <2>1, <2>2, <1>t, ToMovesWith
  <2>. QED
    BY <1>6, <2>3, QuietCallKeeps DEF LookUp, At
<1>7. ASSUME NEW c \in Calls, SetActive(c)
      PROVE  Selected'
  <2>1. calls[c].at = "set" /\ calls[c].at \in Steps \ {"opening"}
    BY <1>7 DEF SetActive, At, Steps
  <2>2. \/ Replacing(c)
        \/ Clearing(c)
        \/ /\ active[calls[c].tab] # None /\ ~transport[calls[c].tab]
           /\ calls' = [calls EXCEPT ![c].at = "waiting", ![c].peer = None]
           /\ UNCHANGED tabVars
    BY <1>7 DEF SetActive, ClearActive, IsInvalidState
  <2>. QED
    BY <2>1, <2>2, <1>4, ReplacingCallKeeps
<1>8. ASSUME NEW c \in Calls, GoOnSetting(c)
      PROVE  Selected'
  <2>1. calls[c].at = "woken" /\ calls[c].at \in Steps \ {"opening"}
    BY <1>8 DEF GoOnSetting, At, Steps
  <2>2. CASE calls' = Finished(c) /\ UNCHANGED tabVars
    BY <1>2, <2>1, <2>2
  <2>3. CASE Clearing(c)
    BY <2>1, <2>3, <1>4
  <2>4. CASE Replacing(c)
    BY <2>1, <2>4, ReplacingCallKeeps
  <2>. QED
    BY <1>8, <2>2, <2>3, <2>4 DEF GoOnSetting
<1>r. ASSUME NEW c \in Calls, GoOnRemoving(c)
      PROVE  Selected'
  <2>1. /\ calls[c].at = "woken" /\ calls' = To(c, "removing")
        /\ "removing" \in Steps \ {"waiting"} /\ UNCHANGED <<active, transport>>
    BY <1>r DEF GoOnRemoving, At, Steps
  <2>. QED
    BY <2>1, <1>3
<1>9. ASSUME NEW c \in Calls, OpenTransport(c) \/ ChooseTransport(c)
      PROVE  Selected'
  BY <1>5, <1>9 DEF OpenTransport, ChooseTransport, At
<1>10. ASSUME NEW c \in Calls, FindPeer(c)
       PROVE  Selected'
  <2>1. PICK step \in {"choosing", "saving"} : calls' = To(c, step)
    BY <1>10 DEF FindPeer
  <2>. QED
    BY <1>3, <1>10, <2>1 DEF FindPeer, At, Steps
<1>11. ASSUME NEW c \in Calls, Save(c)
       PROVE  Selected'
  <2>1. calls' = IF calls[c].grant THEN To(c, "confirmed") ELSE Finished(c)
    BY <1>11 DEF Save
  <2>. QED
    BY <1>2, <1>3, <1>11, <2>1 DEF Save, At, Steps
<1>12. ASSUME NEW c \in Calls, Add(c)
       PROVE  Selected'
  <2>1. \/ calls' = Finished(c)
        \/ calls' = To(c, "set")
    BY <1>12 DEF Add
  <2>. QED
    BY <1>2, <1>3, <1>12, <2>1 DEF Add, Steps
<1>13. ASSUME NEW c \in Calls, Remove(c)
       PROVE  Selected'
  <2>. DEFINE ids == {a \in accounts : PeerOf[a] = calls[c].peer}
  <2>1. /\ calls' = [calls EXCEPT ![c].at = "checking", ![c].ids = ids]
        /\ ids \in SUBSET Accounts
    BY <1>13 DEF Remove, IInv, TypeOK
  <2>2. "checking" \in Steps
    BY DEF Steps
  <2>3. /\ calls'[c].at = "checking"
        /\ \A d \in Calls : d # c => calls'[d] = calls[d]
    <3>. HIDE DEF ids
    <3>. QED
      BY <2>1, <2>2, <1>t, ToMovesWithIds
  <2>. QED
    BY <1>13, <2>3, QuietCallKeeps DEF Remove, At
<1>14. ASSUME NEW c \in Calls, CheckActive(c)
       PROVE  Selected'
  <2>1. calls[c].at \in Steps \ {"opening"}
    BY <1>14 DEF CheckActive, At, Steps
  <2>2. CASE ClearActive(c)
    BY <2>1, <2>2, <1>4 DEF ClearActive
  <2>3. CASE calls' = Finished(c) /\ UNCHANGED tabVars
    BY <2>1, <2>3, <1>2
  <2>. QED
    BY <1>14, <2>2, <2>3 DEF CheckActive
<1>15. ASSUME NEW c \in Calls, Step(c)
       PROVE  Selected'
  BY <1>15, <1>6, <1>7, <1>8, <1>r, <1>9, <1>10, <1>11, <1>12, <1>13, <1>14 DEF Step
<1>16. ASSUME NEW c \in Calls, NEW t \in Tabs, HandleEvent(c, t)
       PROVE  Selected'
  <2>. DEFINE a == Head(events[t])
              step == IF a = None THEN "set" ELSE "looking"
  <2>1. events[t] \in Seq(Accounts \cup {None}) /\ events[t] # <<>>
    BY <1>16 DEF HandleEvent, IInv, TypeOK
  <2>2. /\ a \in Accounts \cup {None}
        /\ step \in Steps \ {"waiting"}
    BY <2>1 DEF Steps
  <2>3. /\ Start(c, t, step, FALSE, a, None)
        /\ UNCHANGED <<active, transport>>
    BY <1>16 DEF HandleEvent
  <2>. HIDE DEF a, step
  <2>. QED
    BY <2>2, <2>3, <1>1
<1>17. ASSUME NEW c \in Calls, NEW t \in Tabs, Clear(c, t)
       PROVE  Selected'
  BY <1>1, <1>17 DEF Clear, Begin, Steps
<1>18. ASSUME NEW c \in Calls, NEW t \in Tabs, NEW a \in Accounts,
              Select(c, t, a) \/ Grant(c, t, a)
       PROVE  Selected'
  BY <1>1, <1>18 DEF Select, Grant, Begin, Steps
<1>19. ASSUME NEW c \in Calls, NEW t \in Tabs, NEW p \in Peers,
              RemovePeer(c, t, p) \/ ReceiveDisconnect(c, t, p)
       PROVE  Selected'
  <2>1. PICK step \in {"removing", "waiting"} :
          /\ step = "waiting" => ~transport[t]
          /\ Begin(c, t, step, FALSE, None, p)
    BY <1>19 DEF RemovePeer, ReceiveDisconnect
  <2>2. UNCHANGED <<active, transport>>
    BY <1>19 DEF RemovePeer, ReceiveDisconnect
  <2>3. CASE step = "removing"
    BY <1>1, <2>1, <2>2, <2>3 DEF Begin, Steps
  <2>4. CASE step = "waiting"
    <3>1. /\ calls[c].at = "idle"
          /\ calls'[c].tab = t
          /\ calls'[c].peer = p
          /\ \A d \in Calls : d # c => calls'[d] = calls[d]
      <4>1. /\ "waiting" \in Steps /\ FALSE \in BOOLEAN /\ None \in Accounts \cup {None}
            /\ p \in Peers \cup {None} /\ Start(c, t, "waiting", FALSE, None, p)
        BY <2>1, <2>4 DEF Begin, Steps
      <4>. QED
        BY <1>t, <4>1, StartMoves
    <3>2. \A u : Selecting(calls, u) => Selecting(calls', u)
      BY <3>1 DEF Selecting
    <3>3. active[t] = None \/ Selecting(calls, t)
      BY <2>1, <2>4 DEF Selected, TransportIsSelected, Selecting
    <3>4. p # None
      BY ActiveAccountAssumption
    <3>5. Comes(c)'
      BY <2>2, <3>1, <3>2, <3>3, <3>4 DEF Comes
    <3>. QED
      BY <2>2, <3>1, <3>5, QuietCallKeeps
  <2>. QED
    BY <2>3, <2>4
<1>s. ASSUME NEW t \in Tabs, Subscribe(t)
      PROVE  Selected'
  BY <1>s DEF Subscribe, Selected, TransportIsSelected, AwaitedTransportComes, At
<1>20. ASSUME NEW t \in Tabs, ForgetWallet(t)
       PROVE  Selected'
  BY <1>20 DEF ForgetWallet, Selected, TransportIsSelected, AwaitedTransportComes,
               At, IInv, TypeOK
<1>21. ASSUME NEW t \in Tabs, NEW p \in Peers, Pair(t, p)
       PROVE  Selected'
  <2>1. /\ active' = active
        /\ transport' = [transport EXCEPT ![t] = TRUE]
        /\ calls' = Woken(t)
    BY <1>21 DEF Pair
  <2>2. \A d \in Calls : /\ calls'[d].tab = calls[d].tab
                         /\ calls'[d].peer = calls[d].peer
                         /\ calls[d].at # "waiting" => calls'[d] = calls[d]
                         /\ calls'[d].at = "waiting" =>
                              calls[d].at = "waiting" /\ calls[d].tab # t
    BY <1>t, <2>1, WokenMoves
  <2>. QED
    BY <2>1, <2>2, SettingKeeps
<1>22. CASE UNCHANGED vars
  BY <1>22 DEF vars, Selected, TransportIsSelected, AwaitedTransportComes, At
<1>. QED
  BY <1>15, <1>16, <1>17, <1>18, <1>19, <1>s, <1>20, <1>21, <1>22,
     ActiveAccountAssumption DEF Next

\* At the start there is a transport exactly where there is an account.
LEMMA InitSelected == Init => Selected
<1>. SUFFICES ASSUME Init PROVE Selected
  OBVIOUS
<1>1. TransportIsSelected
  <2>. SUFFICES ASSUME NEW t \in Tabs, active[t] # None PROVE transport[t]
    BY DEF TransportIsSelected
  <2>1. active[t] = stored /\ transport[t] = (stored # None)
    BY DEF Init
  <2>. QED
    BY <2>1
<1>2. AwaitedTransportComes
  BY DEF Init, NoCall, AwaitedTransportComes, At
<1>. QED
  BY <1>1, <1>2 DEF Selected

(***************************************************************************)
(* An active account without a transport is about to get one.              *)
(***************************************************************************)
THEOREM TransportsAreSelected == Spec => []TransportIsSelected
<1>1. Selected => TransportIsSelected
  BY DEF Selected
<1>. QED
  BY <1>1, InitSelected, NextSelected, InvariantHolds, PTL DEF Spec

(***************************************************************************)
(* No setActiveAccount awaits a transport that nobody will set, and a      *)
(* removePeer only does in a tab without an active account.                *)
(***************************************************************************)
THEOREM AwaitedTransportsCome == Spec => []AwaitedTransportComes
<1>1. Selected => AwaitedTransportComes
  BY DEF Selected
<1>. QED
  BY <1>1, InitSelected, NextSelected, InvariantHolds, PTL DEF Spec

-----------------------------------------------------------------------------
(***************************************************************************)
(* Calls made one after the other                                          *)
(***************************************************************************)

\* What call c, made by the user or the wallet, has come to.
LeadsAt(c) ==
  LET k == calls[c]
  IN  \/ /\ k.at \in {"granted", "removing", "checking", "set"}
         /\ active[k.tab] = stored
         /\ k.at = "granted" => PeerOf[k.account] \in peers
         /\ k.at \in {"granted", "removing"} => stored \in accounts \cup {None}
         /\ k.at = "checking" => stored \in accounts \cup k.ids \cup {None}
         /\ k.at = "set" => k.account \in accounts \cup {None}
      \/ /\ k.at \in {"waiting", "woken"}
         /\ k.peer # None
         /\ active[k.tab] = stored
         /\ stored \in accounts \cup {None}
      \/ /\ k.at \in {"opening", "connecting", "choosing", "saving"}
         /\ active[k.tab] = k.account
         /\ k.account \in accounts \cup {None}
         /\ k.at = "opening" => k.account # None

\* Call c alone is under way, and has saved nothing yet: the other tabs are as stored.
Leads(c) ==
  /\ Running = {c}
  /\ \A t \in Tabs : events[t] = <<>>
  /\ \A t \in Tabs : t # calls[c].tab => active[t] = stored
  /\ \A a \in accounts : \/ PeerOf[a] \in peers
                         \/ At(c, "removing") /\ PeerOf[a] = calls[c].peer
  /\ LeadsAt(c)

\* What was saved is on its way to tab t.
Hears(t) ==
  \/ events[t] # <<>>
  \/ \E c \in Calls : calls[c].tab = t /\ calls[c].at \in {"looking", "set"}

\* The tabs follow what was saved: all that is under way has that account.
Follow ==
  /\ \A t \in Tabs : active[t] = stored \/ Hears(t)
  /\ stored \in accounts \cup {None}
  /\ \A a \in accounts : PeerOf[a] \in peers
  /\ \A t \in Tabs : events[t] \in {<<>>, <<stored>>}
  /\ \A c \in Running :
       /\ calls[c].account = stored
       /\ calls[c].at \in {"looking", "set", "opening", "connecting", "choosing", "saving",
                           "confirmed"}
       /\ calls[c].at \in {"looking", "opening", "connecting", "choosing"} => stored # None
  /\ \A c \in Calls : calls[c].at = "opening" => active[calls[c].tab] = stored

Orderly == Follow \/ \E c \in Calls : Leads(c)

OrderInv == ~overlapped => Orderly

LEMMA OrderInvImplies == OrderInv => QuietStateAgrees
<1>. SUFFICES ASSUME OrderInv, Running = {}, ~overlapped, \A t \in Tabs : events[t] = <<>>
              PROVE  /\ \A t \in Tabs : active[t] = stored
                     /\ stored \in accounts \cup {None}
                     /\ {PeerOf[a] : a \in accounts} \subseteq peers
  BY DEF QuietStateAgrees
<1>1. Follow
  BY DEF OrderInv, Orderly, Leads
<1>2. \A t \in Tabs : ~Hears(t)
  BY DEF Hears, Running, Steps
<1>. QED
  BY <1>1, <1>2 DEF Follow

LEMMA InitOrderInv == Init => OrderInv
<1>. SUFFICES ASSUME Init PROVE Follow
  BY DEF OrderInv, Orderly
<1>1. Running = {}
  BY DEF Init, NoCall, Running, Steps
<1>2. \A c \in Calls : calls[c].at # "opening"
  BY DEF Init, NoCall
<1>. QED
  BY <1>1, <1>2 DEF Init, Follow

\* A call that is at some step is the one that leads, if one does.
LEMMA LeaderMoves ==
  ASSUME NEW c \in Calls, calls[c].at \in Steps, Orderly, ~Follow
  PROVE  Leads(c)
BY DEF Orderly, Leads, Running

\* The calls that run when one has moved.
LEMMA RunningMoves ==
  ASSUME NEW c \in Calls, \A d \in Calls : d # c => calls'[d] = calls[d]
  PROVE  /\ calls'[c].at \in Steps => Running' = Running \cup {c}
         /\ calls'[c].at = "done" => Running' = Running \ {c}
<1>1. "done" \notin Steps
  BY DEF Steps
<1>. QED
  BY <1>1 DEF Running

\* When nothing is under way, a call that is made leads.
LEMMA BeginLeads ==
  ASSUME IInv, Orderly, NEW c \in Calls, NEW t \in Tabs,
         NEW step \in {"granted", "removing", "set", "waiting"}, NEW grant \in BOOLEAN,
         NEW a \in Accounts \cup {None}, NEW p \in Peers \cup {None},
         Begin(c, t, step, grant, a, p), ~overlapped',
         UNCHANGED <<active, stored, accounts, events>>,
         peers' = IF step = "removing" THEN peers \ {p} ELSE peers,
         step = "granted" => PeerOf[a] \in peers,
         step = "set" => a \in accounts \cup {None},
         step = "waiting" => p # None
  PROVE  Leads(c)'
<1>1. Running = {} /\ \A u \in Tabs : events[u] = <<>>
  BY DEF Begin
<1>2. Follow
  BY <1>1 DEF Orderly, Leads
<1>3. \A u \in Tabs : active[u] = stored
  BY <1>1, <1>2 DEF Follow, Hears, Running, Steps
<1>4. /\ calls' \in [Calls -> Call]
      /\ calls'[c].at = step /\ calls'[c].tab = t /\ calls'[c].account = a
      /\ \A d \in Calls : d # c => calls'[d] = calls[d]
  <2>1. calls \in [Calls -> Call] /\ step \in Steps /\ Start(c, t, step, grant, a, p)
    BY DEF Begin, IInv, TypeOK, Steps
  <2>. QED
    BY <2>1, StartMoves
<1>5. calls'[c].peer = p
  BY DEF Begin, Start, IInv, TypeOK
<1>6. Running' = {c}
  BY <1>1, <1>4, RunningMoves DEF Steps
<1>7. \A b \in accounts : \/ PeerOf[b] \in peers'
                          \/ step = "removing" /\ PeerOf[b] = p
  BY <1>2 DEF Follow
<1>8. LeadsAt(c)'
  BY <1>2, <1>3, <1>4, <1>5 DEF Follow, LeadsAt
<1>. QED
  BY <1>1, <1>3, <1>4, <1>5, <1>6, <1>7, <1>8 DEF Leads, At

LEMMA HandleEventFollows ==
  ASSUME IInv, Orderly, NEW c \in Calls, NEW t \in Tabs, HandleEvent(c, t)
  PROVE  Follow'
<1>1. Follow /\ events[t] = <<stored>> /\ Head(events[t]) = stored /\ Tail(events[t]) = <<>>
  <2>1. Follow
    BY DEF HandleEvent, Orderly, Leads
  <2>2. events[t] = <<stored>>
    BY <2>1 DEF HandleEvent, Follow
  <2>. QED
    BY <2>1, <2>2
<1>2. UNCHANGED <<active, stored, accounts, peers>>
  BY DEF HandleEvent, tabVars
<1>3. /\ events'[t] = <<>> /\ \A u \in Tabs : u # t => events'[u] = events[u]
  BY <1>1 DEF HandleEvent, IInv, TypeOK
<1>4. PICK step \in {"set", "looking"} :
        /\ Start(c, t, step, FALSE, stored, None) /\ (step = "looking" => stored # None)
  BY <1>1 DEF HandleEvent
<1>5. /\ calls' \in [Calls -> Call] /\ calls[c].at = "idle"
      /\ calls'[c].at = step /\ calls'[c].tab = t /\ calls'[c].account = stored
      /\ \A d \in Calls : d # c => calls'[d] = calls[d]
  <2>1. /\ calls \in [Calls -> Call] /\ step \in Steps /\ FALSE \in BOOLEAN
        /\ stored \in Accounts \cup {None} /\ t \in Tabs \cup {None}
    BY DEF IInv, TypeOK, Steps
  <2>. QED
    BY <1>4, <2>1 DEF Start, At, Call
<1>6. Running' = Running \cup {c}
  BY <1>5, RunningMoves DEF Steps
<1>7. \A u \in Tabs : Hears(u) => Hears(u)'
  BY <1>3, <1>5 DEF Hears
<1>8. \A u \in Tabs : events'[u] \in {<<>>, <<stored>>}
  BY <1>1, <1>3 DEF Follow
<1>9. \A u \in Tabs : active'[u] = stored' \/ Hears(u)'
  BY <1>1, <1>2, <1>7 DEF Follow
<1>10. \A d \in Running' :
         /\ calls'[d].account = stored
         /\ calls'[d].at \in {"looking", "set", "opening", "connecting", "choosing", "saving",
                              "confirmed"}
         /\ calls'[d].at \in {"looking", "opening", "connecting", "choosing"} => stored # None
  <2>1. \A d \in Running : d # c /\ d \in Calls
    BY <1>5 DEF Running, Steps
  <2>. QED
    BY <1>1, <1>4, <1>5, <1>6, <2>1 DEF Follow
<1>11. \A d \in Calls : calls'[d].at = "opening" => active'[calls'[d].tab] = stored'
  BY <1>1, <1>2, <1>4, <1>5 DEF Follow
<1>. QED
  BY <1>1, <1>2, <1>8, <1>9, <1>10, <1>11 DEF Follow

\* A call that waits or is woken leads, and removes a peer.
LEMMA WaitingLeads ==
  ASSUME Orderly, NEW d \in Calls, calls[d].at \in {"waiting", "woken"}
  PROVE  Leads(d) /\ calls[d].peer # None
<1>1. d \in Running
  BY DEF Running, Steps
<1>2. ~Follow
  BY <1>1 DEF Follow
<1>3. Leads(d)
  BY <1>1, <1>2 DEF Orderly, Leads
<1>. QED
  BY <1>3 DEF Leads, LeadsAt

\* The call that leads goes on.
LEMMA LeaderGoesOn ==
  ASSUME NEW c \in Calls, Leads(c), calls'[c].at \in Steps, calls'[c].tab = calls[c].tab,
         \A d \in Calls : d # c => calls'[d] = calls[d],
         UNCHANGED <<stored, events>>,
         \A t \in Tabs : t # calls[c].tab => active'[t] = active[t],
         \A a \in accounts' : PeerOf[a] \in peers',
         LeadsAt(c)'
  PROVE  Leads(c)'
<1>1. Running' = {c}
  BY RunningMoves DEF Leads
<1>. QED
  BY <1>1 DEF Leads

\* A call that follows goes on or comes to its end: its tab has the stored account, or
\* is still about to get it.
LEMMA FollowerGoesOn ==
  ASSUME IInv, Follow, NEW c \in Calls, calls[c].at \in Steps, calls'[c].tab = calls[c].tab \/ calls'[c].at = "done",
         \A d \in Calls : d # c => calls'[d] = calls[d],
         UNCHANGED <<stored, events, peers, accounts>>,
         \A t \in Tabs : t # calls[c].tab => active'[t] = active[t],
         calls[c].tab \in Tabs,
         \/ active'[calls[c].tab] = stored
         \/ UNCHANGED active /\ calls'[c].at \in {"looking", "set"}
         \/ UNCHANGED active /\ calls[c].at \notin {"looking", "set"},
         \/ calls'[c].at = "done"
         \/ /\ calls'[c].account = stored
            /\ calls'[c].at \in {"looking", "set", "opening", "connecting", "choosing", "saving",
                                 "confirmed"}
            /\ calls'[c].at \in {"looking", "opening", "connecting", "choosing"} => stored # None
            /\ calls'[c].at = "opening" => active'[calls[c].tab] = stored
  PROVE  Follow'
<1>1. calls'[c].at \in Steps \/ calls'[c].at = "done"
  BY DEF Steps
<1>2. Running' \subseteq Running \cup {c} /\ (calls'[c].at = "done" => c \notin Running')
  BY <1>1, RunningMoves
<1>3. ASSUME NEW t \in Tabs PROVE active'[t] = stored' \/ Hears(t)'
  <2>1. CASE active[t] = stored
    BY <2>1
  <2>2. CASE events[t] # <<>>
    BY <2>2 DEF Hears
  <2>3. ASSUME NEW d \in Calls, calls[d].tab = t, calls[d].at \in {"looking", "set"}
        PROVE  active'[t] = stored' \/ Hears(t)'
    BY <2>3 DEF Hears
  <2>. QED
    BY <2>1, <2>2, <2>3 DEF Follow, Hears
<1>4. \A d \in Running' :
         /\ calls'[d].account = stored
         /\ calls'[d].at \in {"looking", "set", "opening", "connecting", "choosing", "saving",
                              "confirmed"}
         /\ calls'[d].at \in {"looking", "opening", "connecting", "choosing"} => stored # None
  BY <1>2 DEF Follow, Running
<1>5. ASSUME NEW d \in Calls, calls'[d].at = "opening"
      PROVE  active'[calls'[d].tab] = stored'
  <2>1. CASE d = c
    BY <1>5, <2>1
  <2>2. CASE d # c
    BY <1>5, <2>2 DEF Follow, IInv, Formed, Steps
  <2>. QED
    BY <2>1, <2>2
<1>. QED
  BY <1>3, <1>4, <1>5 DEF Follow

LEMMA LookUpFollows ==
  ASSUME IInv, Orderly, NEW c \in Calls, LookUp(c)
  PROVE  Follow'
<1>1. calls[c].at = "looking" /\ "looking" \in Steps /\ "set" \in Steps
  BY DEF LookUp, At, Steps
<1>2. Follow
  BY <1>1, LeaderMoves DEF Leads, LeadsAt
<1>3. calls[c].account = stored /\ stored \in accounts
  BY <1>1, <1>2 DEF Follow, Running
<1>4. /\ calls' = [calls EXCEPT ![c].at = "set", ![c].account = stored]
      /\ stored \in Accounts \cup {None} /\ calls \in [Calls -> Call]
  BY <1>3 DEF LookUp, IInv, TypeOK, Call
<1>5. /\ calls'[c].at = "set" /\ calls'[c].tab = calls[c].tab /\ calls'[c].account = stored
      /\ \A d \in Calls : d # c => calls'[d] = calls[d]
  BY <1>1, <1>4, ToMovesWith
<1>6. UNCHANGED <<active, stored, events, peers, accounts>> /\ calls[c].tab \in Tabs
  BY <1>1 DEF LookUp, tabVars, storageVars, IInv, Formed
<1>. QED
  BY <1>1, <1>2, <1>5, <1>6, FollowerGoesOn

\* A tab with an account has a transport, or a call of it that is about to select
\* one is under way beside call c.
LEMMA NeedNotWait ==
  ASSUME IInv, Selected, Orderly, NEW c \in Calls, calls[c].at \in {"set", "checking"},
         active[calls[c].tab] # None, ~transport[calls[c].tab]
  PROVE  Follow /\ calls[c].at = "set" /\ calls[c].account = stored /\ stored # None
<1>1. calls[c].tab \in Tabs
  BY DEF IInv, Formed, Steps
<1>2. PICK d \in Calls : calls[d].tab = calls[c].tab /\ calls[d].at = "opening"
  BY <1>1 DEF Selected, TransportIsSelected
<1>3. d \in Running /\ c \in Running /\ d # c
  BY <1>2 DEF Running, Steps
<1>4. Follow
  BY <1>3 DEF Orderly, Leads
<1>. QED
  BY <1>2, <1>3, <1>4 DEF Follow

\* The active account is cleared: the call need not wait for a transport, which would
\* take another call of the tab that selects it.
LEMMA ClearActiveGoesOn ==
  ASSUME IInv, Selected, Orderly, NEW c \in Calls, calls[c].at \in {"set", "checking"},
         calls[c].at = "set" => calls[c].account = None, ClearActive(c),
         UNCHANGED <<stored, events, peers, accounts>>
  PROVE  Orderly'
<1>1. /\ calls[c].at \in Steps /\ calls[c].tab \in Tabs /\ "saving" \in Steps
      /\ calls \in [Calls -> Call] /\ active \in [Tabs -> Accounts \cup {None}]
  BY DEF IInv, TypeOK, Formed, Steps
<1>2. /\ active' = [active EXCEPT ![calls[c].tab] = None]
      /\ calls' = [calls EXCEPT ![c].at = "saving", ![c].account = None]
  BY NeedNotWait DEF ClearActive, Clearing
<1>3. /\ calls'[c].at = "saving" /\ calls'[c].tab = calls[c].tab /\ calls'[c].account = None
      /\ \A d \in Calls : d # c => calls'[d] = calls[d]
  BY <1>1, <1>2, ToMovesWith
<1>4. /\ active'[calls[c].tab] = None
      /\ \A t \in Tabs : t # calls[c].tab => active'[t] = active[t]
  BY <1>1, <1>2
<1>5. CASE Follow
  <2>1. calls[c].at = "set" /\ stored = None
    BY <1>1, <1>5 DEF Follow, Running
  <2>. QED
    BY <1>1, <1>3, <1>4, <1>5, <2>1, FollowerGoesOn DEF Orderly
<1>6. CASE ~Follow
  <2>1. Leads(c)
    BY <1>1, <1>6, LeaderMoves
  <2>2. \A a \in accounts' : PeerOf[a] \in peers'
    BY <2>1 DEF Leads, At
  <2>3. LeadsAt(c)'
    BY <1>3, <1>4 DEF LeadsAt
  <2>. QED
    BY <1>1, <1>3, <1>4, <2>1, <2>2, <2>3, LeaderGoesOn DEF Orderly
<1>. QED
  BY <1>5, <1>6

LEMMA SetActiveOrderly ==
  ASSUME IInv, Selected, Orderly, NEW c \in Calls, SetActive(c)
  PROVE  Orderly'
<1>1. calls[c].at = "set" /\ UNCHANGED <<stored, events, peers, accounts>>
  BY DEF SetActive, At, storageVars
<1>2. CASE calls[c].account = None
  BY <1>1, <1>2, ClearActiveGoesOn DEF SetActive
<1>3. CASE calls[c].account # None
  <2>1. /\ calls[c].at \in Steps /\ calls[c].tab \in Tabs /\ "opening" \in Steps
        /\ calls \in [Calls -> Call] /\ active \in [Tabs -> Accounts \cup {None}]
    BY <1>1 DEF IInv, TypeOK, Formed, Steps
  <2>2. Replacing(c)
    <3>. SUFFICES ASSUME active[calls[c].tab] \notin {None, calls[c].account},
                         ~transport[calls[c].tab]
                  PROVE  FALSE
      BY <1>3 DEF SetActive, IsInvalidState
    <3>1. Follow /\ calls[c].account = stored
      BY <1>1, NeedNotWait
    <3>2. PICK d \in Calls : calls[d].tab = calls[c].tab /\ calls[d].at = "opening"
      BY <2>1 DEF Selected, TransportIsSelected
    <3>. QED
      BY <3>1, <3>2 DEF Follow
  <2>3. /\ calls'[c].at = "opening" /\ calls'[c].tab = calls[c].tab
        /\ calls'[c].account = calls[c].account
        /\ \A d \in Calls : d # c => calls'[d] = calls[d]
    BY <2>1, <2>2, ToMoves DEF Replacing
  <2>4. /\ active'[calls[c].tab] = calls[c].account
        /\ \A t \in Tabs : t # calls[c].tab => active'[t] = active[t]
    BY <2>1, <2>2 DEF Replacing
  <2>5. CASE Follow
    <3>1. calls[c].account = stored
      BY <2>1, <2>5 DEF Follow, Running
    <3>. QED
      BY <1>1, <1>3, <2>1, <2>3, <2>4, <2>5, <3>1, FollowerGoesOn DEF Orderly
  <2>6. CASE ~Follow
    <3>1. Leads(c)
      BY <2>1, <2>6, LeaderMoves
    <3>2. \A a \in accounts' : PeerOf[a] \in peers'
      BY <1>1, <3>1 DEF Leads, At
    <3>3. LeadsAt(c)'
      BY <1>1, <1>3, <2>3, <2>4, <3>1 DEF Leads, LeadsAt
    <3>. QED
      BY <1>1, <2>1, <2>3, <2>4, <3>1, <3>2, <3>3, LeaderGoesOn DEF Orderly
  <2>. QED
    BY <2>5, <2>6
<1>. QED
  BY <1>2, <1>3

\* A call that set the active account goes on to save it.
LEMMA SettingGoesOn ==
  ASSUME IInv, Orderly, NEW c \in Calls, calls[c].at \in {"opening", "connecting", "choosing"},
         calls'[c].at \in {"connecting", "choosing", "saving"}, calls'[c].tab = calls[c].tab,
         calls'[c].account = calls[c].account,
         \A d \in Calls : d # c => calls'[d] = calls[d],
         UNCHANGED <<active, stored, events, peers, accounts>>
  PROVE  Orderly'
<1>1. calls[c].at \in Steps /\ calls'[c].at \in Steps /\ calls[c].tab \in Tabs
  BY DEF IInv, Formed, Steps
<1>2. CASE Follow
  <2>1. calls[c].account = stored /\ stored # None
    BY <1>1, <1>2 DEF Follow, Running
  <2>. QED
    BY <1>1, <1>2, <2>1, FollowerGoesOn DEF Orderly
<1>3. CASE ~Follow
  <2>1. Leads(c)
    BY <1>1, <1>3, LeaderMoves
  <2>2. \A a \in accounts' : PeerOf[a] \in peers'
    BY <2>1 DEF Leads, At
  <2>3. LeadsAt(c)'
    BY <2>1 DEF Leads, LeadsAt
  <2>. QED
    BY <1>1, <2>1, <2>2, <2>3, LeaderGoesOn DEF Orderly
<1>. QED
  BY <1>2, <1>3

LEMMA SetTransportOrderly ==
  ASSUME IInv, Orderly, NEW c \in Calls, OpenTransport(c) \/ ChooseTransport(c)
  PROVE  Orderly'
<1>1. PICK step \in {"connecting", "saving"} : SetTransport(c, step)
  BY DEF OpenTransport, ChooseTransport
<1>2. /\ calls[c].at \in {"opening", "choosing"}
      /\ UNCHANGED <<active, stored, events, peers, accounts>>
  BY DEF OpenTransport, ChooseTransport, At, storageVars
<1>3. /\ calls \in [Calls -> Call] /\ calls[c].tab \in Tabs /\ step \in Steps
      /\ step # "waiting" /\ step # "opening" /\ calls[c].at # "waiting"
  BY <1>2 DEF IInv, TypeOK, Formed, Steps
<1>4. /\ calls'[c].at = step /\ calls'[c].tab = calls[c].tab
      /\ calls'[c].account = calls[c].account
      /\ \A d \in Calls : d # c /\ calls[d].at # "waiting" => calls'[d] = calls[d]
  BY <1>1, <1>3, SetTransportMoves
<1>5. \A d \in Calls : d # c => calls'[d] = calls[d]
  <2>1. ASSUME NEW d \in Calls, d # c, calls[d].at = "waiting" PROVE FALSE
    <3>1. c \in Running
      BY <1>2 DEF Running, Steps
    <3>. QED
      BY <2>1, <3>1, WaitingLeads DEF Leads
  <2>. QED
    BY <1>4, <2>1
<1>. QED
  BY <1>2, <1>4, <1>5, SettingGoesOn

LEMMA FindPeerOrderly ==
  ASSUME IInv, Orderly, NEW c \in Calls, FindPeer(c)
  PROVE  Orderly'
<1>1. PICK step \in {"choosing", "saving"} : calls' = To(c, step)
  BY DEF FindPeer
<1>2. calls[c].at = "connecting" /\ UNCHANGED <<active, stored, events, peers, accounts>>
  BY DEF FindPeer, At, storageVars
<1>3. calls \in [Calls -> Call] /\ step \in Steps
  BY DEF IInv, TypeOK, Steps
<1>4. /\ calls'[c].at = step /\ calls'[c].tab = calls[c].tab
      /\ calls'[c].account = calls[c].account
      /\ \A d \in Calls : d # c => calls'[d] = calls[d]
  BY <1>1, <1>3, ToMoves
<1>. QED
  BY <1>2, <1>4, SettingGoesOn

\* What is saved is what all tabs have or will hear of.
LEMMA SaveFollows ==
  ASSUME IInv, Orderly, NEW c \in Calls, Save(c)
  PROVE  Follow'
<1>1. /\ calls[c].at = "saving" /\ calls[c].at \in Steps /\ calls[c].tab \in Tabs
      /\ calls \in [Calls -> Call] /\ "confirmed" \in Steps
  BY DEF Save, At, IInv, TypeOK, Formed, Steps
<1>2. /\ stored' = calls[c].account /\ UNCHANGED <<active, accounts, peers>>
      /\ events' = [t \in Tabs |-> IF stored' # stored /\ t # calls[c].tab
                                   THEN Append(events[t], stored') ELSE events[t]]
  BY DEF Save, Saved, tabVars
<1>3. /\ \/ calls'[c].at = "done"
         \/ /\ calls'[c].at = "confirmed" /\ calls'[c].tab = calls[c].tab
            /\ calls'[c].account = calls[c].account
      /\ \A d \in Calls : d # c => calls'[d] = calls[d]
  <2>1. CASE calls[c].grant
    <3>1. calls' = To(c, "confirmed")
      BY <2>1 DEF Save
    <3>. QED
      BY <1>1, <3>1, ToMoves
  <2>2. CASE ~calls[c].grant
    <3>1. calls' = Finished(c)
      BY <2>2 DEF Save
    <3>. QED
      BY <1>1, <3>1, FinishedMoves
  <2>. QED
    BY <2>1, <2>2
<1>4. CASE Follow
  <2>1. stored' = stored
    BY <1>1, <1>2, <1>4 DEF Follow, Running
  <2>2. events' = events
    <3>1. \A t \in Tabs : events'[t] = events[t]
      BY <1>2, <2>1
    <3>2. events \in [Tabs -> Seq(Accounts \cup {None})]
      BY DEF IInv, TypeOK
    <3>3. events' = [t \in Tabs |-> events'[t]]
      BY <1>2
    <3>. QED
      BY <3>1, <3>2, <3>3
  <2>. QED
    BY <1>1, <1>2, <1>3, <1>4, <2>1, <2>2, FollowerGoesOn
<1>5. CASE ~Follow
  <2>1. Leads(c)
    BY <1>1, <1>5, LeaderMoves
  <2>2. active[calls[c].tab] = stored' /\ stored' \in accounts \cup {None}
    BY <1>1, <1>2, <2>1 DEF Leads, LeadsAt
  <2>3. \A t \in Tabs : events'[t] = IF stored' # stored /\ t # calls[c].tab
                                     THEN <<stored'>> ELSE <<>>
    <3>1. \A t \in Tabs : events[t] = <<>>
      BY <2>1 DEF Leads
    <3>2. Append(<<>>, stored') = <<stored'>>
      OBVIOUS
    <3>. QED
      BY <1>2, <3>1, <3>2
  <2>4. \A t \in Tabs : active'[t] = stored' \/ Hears(t)'
    BY <1>2, <2>1, <2>2, <2>3 DEF Leads, Hears
  <2>5. \A a \in accounts' : PeerOf[a] \in peers'
    BY <1>1, <1>2, <2>1 DEF Leads, At
  <2>6. Running' \subseteq {c}
    BY <1>3, <2>1, RunningMoves DEF Leads, Steps
  <2>7. \A d \in Running' : calls'[d].at = "confirmed" /\ calls'[d].account = stored'
    <3>1. "done" \notin Steps
      BY DEF Steps
    <3>. QED
      BY <1>2, <1>3, <2>6, <3>1 DEF Running
  <2>8. \A t \in Tabs : events'[t] \in {<<>>, <<stored'>>}
    BY <2>3
  <2>9. \A d \in Calls : calls'[d].at # "opening"
    <3>1. \A d \in Calls : calls'[d].at = "opening" => d \in Running'
      BY DEF Running, Steps
    <3>. QED
      BY <2>7, <3>1
  <2>. QED
    BY <1>2, <2>2, <2>4, <2>5, <2>7, <2>8, <2>9 DEF Follow
<1>. QED
  BY <1>4, <1>5

LEMMA AddOrderly ==
  ASSUME IInv, Orderly, NEW c \in Calls, Add(c)
  PROVE  Orderly'
<1>1. /\ accounts' = accounts \cup {calls[c].account} /\ UNCHANGED <<active, stored, peers, events>>
      /\ calls[c].at \in {"granted", "confirmed"}
  BY DEF Add, tabVars
<1>2. /\ calls[c].at \in Steps /\ calls[c].tab \in Tabs /\ calls \in [Calls -> Call]
      /\ "set" \in Steps /\ calls[c].account # None
  BY <1>1, ActiveAccountAssumption DEF IInv, TypeOK, Formed, Steps
<1>3. CASE calls[c].at = "granted"
  <2>1. Leads(c)
    BY <1>2, <1>3, LeaderMoves DEF Follow, Running
  <2>2. calls' = To(c, "set")
    BY <1>3 DEF Add, At
  <2>3. /\ calls'[c].at = "set" /\ calls'[c].tab = calls[c].tab
        /\ calls'[c].account = calls[c].account
        /\ \A d \in Calls : d # c => calls'[d] = calls[d]
    BY <1>2, <2>2, ToMoves
  <2>4. \A a \in accounts' : PeerOf[a] \in peers'
    BY <1>1, <1>3, <2>1 DEF Leads, LeadsAt, At
  <2>5. LeadsAt(c)'
    BY <1>1, <1>3, <2>1, <2>3 DEF Leads, LeadsAt
  <2>. QED
    BY <1>1, <1>2, <2>1, <2>3, <2>4, <2>5, LeaderGoesOn DEF Orderly
<1>4. CASE calls[c].at = "confirmed"
  <2>1. Follow
    BY <1>2, <1>4, LeaderMoves DEF Leads, LeadsAt
  <2>2. calls[c].account = stored /\ accounts' = accounts
    BY <1>1, <1>2, <2>1 DEF Follow, Running
  <2>3. calls' = Finished(c)
    BY <1>4 DEF Add, At
  <2>4. calls'[c].at = "done" /\ \A d \in Calls : d # c => calls'[d] = calls[d]
    BY <1>2, <2>3, FinishedMoves
  <2>. QED
    BY <1>1, <1>2, <1>4, <2>1, <2>2, <2>4, FollowerGoesOn DEF Orderly
<1>. QED
  BY <1>1, <1>3, <1>4

LEMMA RemoveLeads ==
  ASSUME IInv, Orderly, NEW c \in Calls, Remove(c)
  PROVE  Leads(c)'
<1>. DEFINE gone == {a \in accounts : PeerOf[a] = calls[c].peer}
<1>1. /\ calls[c].at = "removing" /\ accounts' = accounts \ gone
      /\ UNCHANGED <<active, stored, peers, events>>
      /\ calls' = [calls EXCEPT ![c].at = "checking", ![c].ids = gone]
  BY DEF Remove, At, tabVars
<1>2. /\ calls[c].at \in Steps /\ calls \in [Calls -> Call] /\ "checking" \in Steps
      /\ gone \in SUBSET Accounts
  BY <1>1 DEF IInv, TypeOK, Steps
<1>. HIDE DEF gone
<1>3. /\ calls'[c].at = "checking" /\ calls'[c].tab = calls[c].tab /\ calls'[c].ids = gone
      /\ \A d \in Calls : d # c => calls'[d] = calls[d]
  BY <1>1, <1>2 DEF Call
<1>4. Leads(c)
  BY <1>1, <1>2, LeaderMoves DEF Follow, Running
<1>5. \A a \in accounts' : PeerOf[a] \in peers'
  BY <1>1, <1>4 DEF Leads, At, gone
<1>6. LeadsAt(c)'
  BY <1>1, <1>3, <1>4 DEF Leads, LeadsAt
<1>. QED
  BY <1>1, <1>2, <1>3, <1>4, <1>5, <1>6, LeaderGoesOn

LEMMA CheckActiveOrderly ==
  ASSUME IInv, Selected, Orderly, NEW c \in Calls, CheckActive(c)
  PROVE  Orderly'
<1>1. calls[c].at = "checking" /\ UNCHANGED <<stored, events, peers, accounts>>
  BY DEF CheckActive, At, storageVars
<1>2. CASE active[calls[c].tab] \in calls[c].ids
  BY <1>1, <1>2, ClearActiveGoesOn DEF CheckActive
<1>3. CASE active[calls[c].tab] \notin calls[c].ids
  <2>1. calls' = Finished(c) /\ UNCHANGED active
    BY <1>3 DEF CheckActive, tabVars
  <2>2. calls[c].at \in Steps /\ calls \in [Calls -> Call]
    BY <1>1 DEF IInv, TypeOK, Steps
  <2>3. calls'[c].at = "done" /\ \A d \in Calls : d # c => calls'[d] = calls[d]
    BY <2>1, <2>2, FinishedMoves
  <2>4. Leads(c)
    BY <1>1, <2>2, LeaderMoves DEF Follow, Running
  <2>5. Running' = {}
    BY <2>3, <2>4, RunningMoves DEF Leads
  <2>6. stored \in accounts \cup {None} /\ \A t \in Tabs : active[t] = stored
    BY <1>1, <1>3, <2>4 DEF Leads, LeadsAt
  <2>7. \A a \in accounts : PeerOf[a] \in peers
    BY <1>1, <2>4 DEF Leads, At
  <2>8. \A t \in Tabs : events[t] = <<>>
    BY <2>4 DEF Leads
  <2>9. \A d \in Calls : calls'[d].at # "opening"
    <3>1. \A d \in Calls : calls'[d].at = "opening" => d \in Running'
      BY DEF Running, Steps
    <3>. QED
      BY <2>5, <3>1
  <2>10. Follow'
    BY <1>1, <2>1, <2>5, <2>6, <2>7, <2>8, <2>9 DEF Follow
  <2>. QED
    BY <2>10 DEF Orderly
<1>. QED
  BY <1>2, <1>3

\* The removal that waits for the transport is woken, and goes on.
LEMMA WakingOrderly ==
  ASSUME IInv, Orderly, NEW c \in Calls, calls[c].at \in {"waiting", "woken"},
         calls' \in [Calls -> Call],
         calls'[c].tab = calls[c].tab, calls'[c].peer = calls[c].peer,
         \A d \in Calls : d # c => calls'[d] = calls[d],
         UNCHANGED <<active, stored, accounts, events>>,
         \/ calls'[c].at = "woken" /\ peers \subseteq peers'
         \/ calls'[c].at = "removing" /\ peers' = peers \ {calls[c].peer}
  PROVE  Orderly'
<1>1. Leads(c) /\ calls[c].peer # None
  BY WaitingLeads
<1>2. Running' = {c}
  BY <1>1, RunningMoves DEF Leads, Steps
<1>3. LeadsAt(c)'
  BY <1>1 DEF Leads, LeadsAt
<1>4. \A a \in accounts' : \/ PeerOf[a] \in peers'
                           \/ At(c, "removing")' /\ PeerOf[a] = calls'[c].peer
  BY <1>1 DEF Leads, At
<1>5. Leads(c)'
  BY <1>1, <1>2, <1>3, <1>4 DEF Leads
<1>. QED
  BY <1>5 DEF Orderly

LEMMA PairingOrderly ==
  ASSUME IInv, Orderly, UNCHANGED <<active, stored, accounts, events, calls>>, peers \subseteq peers'
  PROVE  Orderly'
<1>1. Running' = Running
  BY DEF Running
<1>2. Follow => Follow'
  BY <1>1 DEF Follow, Hears
<1>3. ASSUME NEW c \in Calls, Leads(c) PROVE Leads(c)'
  <2>1. LeadsAt(c)'
    BY <1>3 DEF Leads, LeadsAt
  <2>. QED
    BY <1>1, <1>3, <2>1 DEF Leads, At
<1>. QED
  BY <1>2, <1>3 DEF Orderly

LEMMA NextOrderInv == IInv /\ Selected /\ OrderInv /\ [Next]_vars => OrderInv'
<1>. SUFFICES ASSUME IInv, Selected, OrderInv, [Next]_vars, ~overlapped' PROVE Orderly'
  BY DEF OrderInv
<1>0. ASSUME UNCHANGED overlapped PROVE Orderly
  BY <1>0 DEF OrderInv
<1>1. ASSUME NEW c \in Calls, Step(c) PROVE Orderly'
  <2>1. Orderly
    BY <1>0, <1>1 DEF Step, LookUp, SetActive, GoOnSetting, GoOnRemoving, OpenTransport,
                      FindPeer, ChooseTransport, Save, Add, Remove, CheckActive
  <2>2. ~GoOnSetting(c)
    BY <2>1, WaitingLeads DEF GoOnSetting, At
  <2>4. ASSUME GoOnRemoving(c) PROVE Orderly'
    <3>1. /\ calls[c].at = "woken" /\ calls' = To(c, "removing") /\ "removing" \in Steps
          /\ peers' = peers \ {calls[c].peer} /\ calls \in [Calls -> Call]
          /\ UNCHANGED <<active, stored, accounts, events>>
      BY <2>4 DEF GoOnRemoving, At, tabVars, Steps, IInv, TypeOK
    <3>2. /\ calls' \in [Calls -> Call] /\ calls'[c].at = "removing"
          /\ calls'[c].tab = calls[c].tab /\ calls'[c].peer = calls[c].peer
          /\ \A d \in Calls : d # c => calls'[d] = calls[d]
      BY <3>1, ToMoves
    <3>. QED
      BY <2>1, <3>1, <3>2, WakingOrderly
  <2>3. ASSUME LookUp(c) \/ Save(c) \/ Remove(c) PROVE Orderly'
    BY <2>1, <2>3, LookUpFollows, SaveFollows, RemoveLeads DEF Orderly
  <2>. QED
    BY <1>1, <2>1, <2>2, <2>3, <2>4, SetActiveOrderly, SetTransportOrderly, FindPeerOrderly,
       AddOrderly, CheckActiveOrderly DEF Step
<1>2. ASSUME NEW c \in Calls, NEW t \in Tabs, HandleEvent(c, t) PROVE Orderly'
  <2>1. Orderly
    BY <1>0, <1>2 DEF HandleEvent
  <2>. QED
    BY <1>2, <2>1, HandleEventFollows DEF Orderly
<1>3. ASSUME NEW c \in Calls, NEW t \in Tabs, NEW step, NEW grant, NEW a, NEW p,
             Begin(c, t, step, grant, a, p)
      PROVE  Orderly
  BY <1>3 DEF Begin, OrderInv
<1>4. ASSUME NEW c \in Calls, NEW t \in Tabs, Clear(c, t) PROVE Orderly'
  <2>1. /\ Begin(c, t, "set", FALSE, None, None)
        /\ UNCHANGED <<active, stored, accounts, peers, events>>
    BY <1>4 DEF Clear, tabVars, storageVars
  <2>. QED
    BY <1>3, <2>1, BeginLeads DEF Orderly
<1>5. ASSUME NEW c \in Calls, NEW t \in Tabs, NEW a \in Accounts, Select(c, t, a) PROVE Orderly'
  <2>1. /\ Begin(c, t, "set", FALSE, a, None) /\ a \in accounts
        /\ UNCHANGED <<active, stored, accounts, peers, events>>
    BY <1>5 DEF Select, tabVars, storageVars
  <2>. QED
    BY <1>3, <2>1, BeginLeads DEF Orderly
<1>6. ASSUME NEW c \in Calls, NEW t \in Tabs, NEW a \in Accounts, Grant(c, t, a) PROVE Orderly'
  <2>1. /\ Begin(c, t, "granted", TRUE, a, None) /\ PeerOf[a] \in peers
        /\ UNCHANGED <<active, stored, accounts, peers, events>>
    BY <1>6 DEF Grant, tabVars, storageVars
  <2>. QED
    BY <1>3, <2>1, BeginLeads DEF Orderly
<1>7. ASSUME NEW c \in Calls, NEW t \in Tabs, NEW p \in Peers,
             RemovePeer(c, t, p) \/ ReceiveDisconnect(c, t, p)
      PROVE  Orderly'
  <2>1. PICK step \in {"removing", "waiting"} :
          /\ Begin(c, t, step, FALSE, None, p)
          /\ peers' = IF step = "removing" THEN peers \ {p} ELSE peers
    BY <1>7 DEF RemovePeer, ReceiveDisconnect
  <2>2. UNCHANGED <<active, stored, accounts, events>>
    BY <1>7 DEF RemovePeer, ReceiveDisconnect, tabVars
  <2>3. /\ Orderly /\ p \in Peers \cup {None} /\ None \in Accounts \cup {None}
        /\ FALSE \in BOOLEAN /\ p # None
    BY <1>3, <2>1, ActiveAccountAssumption
  <2>4. Leads(c)'
    BY <2>1, <2>2, <2>3, BeginLeads
  <2>. QED
    BY <2>4 DEF Orderly
<1>8. ASSUME NEW t \in Tabs, NEW p \in Peers, Pair(t, p) PROVE Orderly'
  <2>1. /\ Orderly /\ UNCHANGED <<active, stored, accounts, events>> /\ peers \subseteq peers'
        /\ calls' = Woken(t)
    BY <1>0, <1>8 DEF Pair
  <2>2. calls \in [Calls -> Call]
    BY DEF IInv, TypeOK
  <2>3. CASE \A d \in Calls : calls[d].at # "waiting"
    <3>1. \A d \in Calls : Woken(t)[d] = calls[d]
      BY <2>2, <2>3, WokenMoves
    <3>2. calls' = calls
      BY <2>1, <2>2, <3>1 DEF Woken
    <3>. QED
      BY <2>1, <3>2, PairingOrderly
  <2>4. CASE \E d \in Calls : calls[d].at = "waiting"
    <3>1. PICK d \in Calls : calls[d].at = "waiting"
      BY <2>4
    <3>2. \A e \in Calls : e # d => calls[e].at # "waiting"
      <4>1. \A e \in Calls : calls[e].at = "waiting" => Leads(e)
        BY <2>1, WaitingLeads
      <4>. QED
        BY <3>1, <4>1 DEF Leads
    <3>3. \A e \in Calls : e # d => calls'[e] = calls[e]
      BY <2>1, <2>2, <3>2, WokenMoves
    <3>4. CASE calls' = calls
      BY <2>1, <3>4, PairingOrderly
    <3>5. CASE calls'[d].at = "woken"
      BY <2>1, <2>2, <3>1, <3>3, <3>5, WokenMoves, WakingOrderly
    <3>6. Woken(t)[d] # calls[d] => Woken(t)[d].at = "woken"
      BY <2>2, WokenMoves
    <3>7. Woken(t)[d] = calls[d] => calls' = calls
      BY <2>1, <2>2, <3>3 DEF Woken
    <3>. QED
      BY <2>1, <3>4, <3>5, <3>6, <3>7
  <2>. QED
    BY <2>3, <2>4
<1>s. ASSUME NEW t \in Tabs, Subscribe(t) PROVE Orderly'
  BY <1>0, <1>s, PairingOrderly DEF Subscribe, storageVars
<1>9. ASSUME NEW t \in Tabs, ForgetWallet(t) PROVE Orderly'
  BY <1>0, <1>9, PairingOrderly DEF ForgetWallet, storageVars
<1>10. CASE UNCHANGED vars
  BY <1>0, <1>10, PairingOrderly DEF vars, tabVars, storageVars
<1>. QED
  BY <1>1, <1>2, <1>4, <1>5, <1>6, <1>7, <1>8, <1>s, <1>9, <1>10,
     ActiveAccountAssumption DEF Next

(***************************************************************************)
(* After calls that were made one after the other, in any tabs, all tabs   *)
(* agree with the storage about the active account.                        *)
(***************************************************************************)
THEOREM OrderlyCallsAgree == Spec => []QuietStateAgrees
<1>1. OrderInv => QuietStateAgrees
  BY OrderInvImplies
<1>. QED
  BY <1>1, InitOrderInv, NextOrderInv, InitSelected, NextSelected, InvariantHolds, PTL DEF Spec

=============================================================================
