--------------------------- MODULE ActiveAccount ---------------------------
(***************************************************************************)
(* The accounts of a DAppClient that is open in several tabs: the active   *)
(* account, peer and transport of each tab, and the accounts, the peers    *)
(* and the id of the active account in the storage the tabs share.         *)
(*                                                                         *)
(* A call of the client runs from one wait for the storage, the network or *)
(* an event handler to the next; other calls run in between.  A promise    *)
(* that is resolved already is no such wait.  All accounts are those of    *)
(* peer-to-peer wallets, and the pages have been loaded.  Changing a list  *)
(* in the storage is one step here; RequestFlow has the one that is not.   *)
(***************************************************************************)
EXTENDS Naturals, Sequences

CONSTANTS
  Tabs,      \* the open tabs
  UserTabs,  \* bound: the tabs the user does something in
  Accounts,  \* the accounts the wallets can share
  Peers,     \* the wallets
  PeerOf,    \* the wallet of each account
  MaxCalls,  \* bound: how many calls and storage events are handled
  None       \* stands for undefined

ASSUME ActiveAccountAssumption ==
  /\ UserTabs \subseteq Tabs
  /\ PeerOf \in [Accounts -> Peers]
  /\ MaxCalls \in Nat
  /\ None \notin Accounts
  /\ None \notin Peers

VARIABLES
  handled,    \* the tabs whose app listens for ACTIVE_ACCOUNT_SET
  active,     \* the active account of each tab
  activePeer, \* its active peer
  transport,  \* is its transport promise resolved?
  stored,     \* the active account in the storage
  accounts,   \* the accounts in the storage
  peers,      \* the peers in the storage
  events,     \* storage events on their way to each tab
  calls,      \* the calls, and how far they got
  overlapped  \* history: was a call made before others were done?

tabVars == <<handled, active, activePeer, transport>>
storageVars == <<stored, accounts, peers, events>>
vars == <<tabVars, storageVars, calls, overlapped>>

Calls == 1..MaxCalls

Steps == {"granted", "removing", "checking", "looking", "set", "waiting",
          "woken", "opening", "connecting", "choosing", "saving", "confirmed"}

\* "ids" are the accounts that were removed.  A call that waits for the
\* transport is a removePeer if it has a peer, else a setActiveAccount.
Call == [tab : Tabs \cup {None}, at : Steps \cup {"idle", "done"}, grant : BOOLEAN,
         account : Accounts \cup {None}, peer : Peers \cup {None},
         ids : SUBSET Accounts]

NoCall == [tab |-> None, at |-> "idle", grant |-> FALSE, account |-> None,
           peer |-> None, ids |-> {}]

Running == {c \in Calls : calls[c].at \in Steps}

\* A call waits for the transport only while there is none.
TypeOK ==
  /\ handled \subseteq Tabs
  /\ active \in [Tabs -> Accounts \cup {None}]
  /\ activePeer \in [Tabs -> Peers \cup {None}]
  /\ transport \in [Tabs -> BOOLEAN]
  /\ stored \in Accounts \cup {None}
  /\ accounts \subseteq Accounts
  /\ peers \subseteq Peers
  /\ events \in [Tabs -> Seq(Accounts \cup {None})]
  /\ calls \in [Calls -> Call]
  /\ overlapped \in BOOLEAN
  /\ \A c \in Calls : calls[c].at = "waiting" => ~transport[calls[c].tab]

\* The pages are loaded, with one of the accounts active or none.
Init ==
  /\ handled = {}
  /\ accounts \in SUBSET Accounts
  /\ peers = {PeerOf[a] : a \in accounts}
  /\ stored \in accounts \cup {None}
  /\ active = [t \in Tabs |-> stored]
  /\ activePeer = [t \in Tabs |-> IF stored = None THEN None ELSE PeerOf[stored]]
  /\ transport = [t \in Tabs |-> stored # None]
  /\ events = [t \in Tabs |-> <<>>]
  /\ calls = [c \in Calls |-> NoCall]
  /\ overlapped = FALSE

-----------------------------------------------------------------------------
(***************************************************************************)
(* Calls                                                                   *)
(***************************************************************************)

\* Call c goes on to another step.
To(c, step) == [calls EXCEPT ![c].at = step]

\* Call c has come to its end.
Finished(c) == [calls EXCEPT ![c] = [NoCall EXCEPT !.at = "done"]]

At(c, step) == calls[c].at = step

\* The next call is made in tab t.
Start(c, t, step, grant, a, p) ==
  /\ At(c, "idle")
  /\ \A d \in 1..(c - 1) : ~At(d, "idle")
  /\ calls' = [calls EXCEPT ![c] = [tab |-> t, at |-> step, grant |-> grant,
                                    account |-> a, peer |-> p, ids |-> {}]]

\* The user or the wallet begins something.
Begin(c, t, step, grant, a, p) ==
  /\ Start(c, t, step, grant, a, p)
  /\ overlapped' = \/ overlapped
                   \/ Running # {}
                   \/ \E u \in Tabs : events[u] # <<>>

\* The transport promise of t is resolved: the calls that wait for it go on.
Woken(t) ==
  [c \in Calls |-> IF At(c, "waiting") /\ calls[c].tab = t
                   THEN [calls[c] EXCEPT !.at = "woken"] ELSE calls[c]]

\* The app sets an account it got from the client.
Select(c, t, a) ==
  /\ a \in accounts
  /\ Begin(c, t, "set", FALSE, a, None)
  /\ UNCHANGED <<tabVars, storageVars>>

\* clearActiveAccount(), or disconnect().
Clear(c, t) ==
  /\ Begin(c, t, "set", FALSE, None, None)
  /\ UNCHANGED <<tabVars, storageVars>>

\* requestPermissions: a wallet that is a peer answered with account a.
Grant(c, t, a) ==
  /\ PeerOf[a] \in peers
  /\ transport[t]
  /\ Begin(c, t, "granted", TRUE, a, None)
  /\ UNCHANGED <<tabVars, storageVars>>

(***************************************************************************)
(* The wallet disconnects: its peer is removed, by the tab's peer-to-peer  *)
(* transport, and removeAccountsForPeerIds begins.                         *)
(***************************************************************************)
ReceiveDisconnect(c, t, p) ==
  /\ Begin(c, t, "removing", FALSE, None, p)
  /\ peers' = peers \ {p}
  /\ UNCHANGED <<tabVars, stored, accounts, events>>

\* The app calls removePeer, which waits for the transport first.
RemovePeer(c, t, p) ==
  /\ IF transport[t]
     THEN Begin(c, t, "removing", FALSE, None, p) /\ peers' = peers \ {p}
     ELSE Begin(c, t, "waiting", FALSE, None, p) /\ peers' = peers
  /\ UNCHANGED <<tabVars, stored, accounts, events>>

\* subscribeToEvent(BeaconEvent.ACTIVE_ACCOUNT_SET)
Subscribe(t) ==
  /\ t \notin handled
  /\ handled' = handled \cup {t}
  /\ UNCHANGED <<active, activePeer, transport, storageVars, calls, overlapped>>

(***************************************************************************)
(* The active account was changed in another tab: its id is looked up, or  *)
(* there is none and the active account is cleared.                        *)
(***************************************************************************)
HandleEvent(c, t) ==
  /\ events[t] # <<>>
  /\ Start(c, t, IF Head(events[t]) = None THEN "set" ELSE "looking", FALSE,
           Head(events[t]), None)
  /\ events' = [events EXCEPT ![t] = Tail(@)]
  /\ UNCHANGED <<tabVars, stored, accounts, peers, overlapped>>

LookUp(c) ==
  /\ At(c, "looking")
  /\ calls' = [calls EXCEPT ![c].at = "set",
                            ![c].account = IF @ \in accounts THEN @ ELSE None]
  /\ UNCHANGED <<tabVars, storageVars, overlapped>>

-----------------------------------------------------------------------------
(***************************************************************************)
(* Pairing                                                                 *)
(***************************************************************************)

\* init() without an active account: a wallet is paired.
Pair(t, p) ==
  /\ ~transport[t]
  /\ active[t] = None
  /\ peers' = peers \cup {p}
  /\ activePeer' = [activePeer EXCEPT ![t] = p]
  /\ transport' = [transport EXCEPT ![t] = TRUE]
  /\ calls' = Woken(t)
  /\ UNCHANGED <<handled, active, stored, accounts, events, overlapped>>

\* Variant: it is not asked whether there is an active account.
ForgetWalletAlways(t) ==
  /\ transport[t]
  /\ activePeer' = [activePeer EXCEPT ![t] = None]
  /\ transport' = [transport EXCEPT ![t] = FALSE]
  /\ UNCHANGED <<handled, active, storageVars, calls, overlapped>>

\* handleRequestError: the first permission request of a wallet is rejected.
ForgetWallet(t) ==
  /\ transport[t]
  /\ active[t] = None
  /\ activePeer' = [activePeer EXCEPT ![t] = None]
  /\ transport' = [transport EXCEPT ![t] = FALSE]
  /\ UNCHANGED <<handled, active, storageVars, calls, overlapped>>

-----------------------------------------------------------------------------
(***************************************************************************)
(* setActiveAccount                                                        *)
(***************************************************************************)

\* The active account, peer and transport are reset.
Clearing(c) ==
  LET t == calls[c].tab
  IN  /\ active' = [active EXCEPT ![t] = None]
      /\ activePeer' = [activePeer EXCEPT ![t] = None]
      /\ transport' = [transport EXCEPT ![t] = FALSE]
      /\ calls' = [calls EXCEPT ![c].at = "saving", ![c].account = None]
      /\ UNCHANGED handled

(***************************************************************************)
(* setActiveAccount(undefined), from getActiveAccount on: with an active   *)
(* account it waits for the transport, unless that is there; without one   *)
(* it clears all the same.                                                 *)
(***************************************************************************)
ClearActive(c) ==
  LET t == calls[c].tab
  IN  \/ /\ active[t] # None /\ ~transport[t]
         /\ calls' = [calls EXCEPT ![c].at = "waiting", ![c].peer = None]
         /\ UNCHANGED tabVars
      \/ /\ active[t] = None \/ transport[t]
         /\ Clearing(c)

\* setActiveAccount(account): the active account is replaced at once.
Replacing(c) ==
  /\ active' = [active EXCEPT ![calls[c].tab] = calls[c].account]
  /\ calls' = To(c, "opening")
  /\ UNCHANGED <<handled, activePeer, transport>>

\* isInvalidState: another account is active and the app does not listen.
IsInvalidState(t, a) ==
  active[t] \notin {None, a} /\ t \notin handled

(***************************************************************************)
(* The first step of setActiveAccount.  One that would replace another     *)
(* account waits for the transport as well, if the app does not listen.    *)
(***************************************************************************)
SetActive(c) ==
  LET t == calls[c].tab
      a == calls[c].account
      mustWait == IsInvalidState(t, a) /\ ~transport[t]
  IN  /\ At(c, "set")
      /\ \/ a = None /\ ClearActive(c)
         \/ a # None /\ ~mustWait /\ Replacing(c)
         \/ /\ a # None /\ mustWait
            /\ calls' = [calls EXCEPT ![c].at = "waiting", ![c].peer = None]
            /\ UNCHANGED tabVars
      /\ UNCHANGED <<storageVars, overlapped>>

(***************************************************************************)
(* A setActiveAccount that waited for the transport: the account to clear  *)
(* may be gone by now.  The promise it waited for is resolved, whatever    *)
(* the transport is now.                                                   *)
(***************************************************************************)
GoOnSetting(c) ==
  LET t == calls[c].tab
      a == calls[c].account
  IN  /\ At(c, "woken")
      /\ calls[c].peer = None
      /\ \/ a # None /\ Replacing(c)
         \/ a = None /\ active[t] # None /\ Clearing(c)
         \/ /\ a = None /\ active[t] = None
            /\ calls' = Finished(c)
            /\ UNCHANGED tabVars
      /\ UNCHANGED <<storageVars, overlapped>>

\* A removePeer that waited for the transport.
GoOnRemoving(c) ==
  /\ At(c, "woken")
  /\ calls[c].peer # None
  /\ calls' = To(c, "removing")
  /\ peers' = peers \ {calls[c].peer}
  /\ UNCHANGED <<tabVars, stored, accounts, events, overlapped>>

\* Variant: the promise is replaced instead of being resolved.
SetTransportAnew(c, next) ==
  /\ transport' = [transport EXCEPT ![calls[c].tab] = TRUE]
  /\ calls' = To(c, next)

\* setTransport(this.p2pTransport) in call c, which then goes on.
SetTransport(c, next) ==
  /\ transport' = [transport EXCEPT ![calls[c].tab] = TRUE]
  /\ calls' = [Woken(calls[c].tab) EXCEPT ![c].at = next]

\* After initInternalTransports.
OpenTransport(c) ==
  /\ At(c, "opening")
  /\ SetTransport(c, "connecting")
  /\ UNCHANGED <<handled, active, activePeer, storageVars, overlapped>>

\* After connect(): the peer of the account is looked up and set.
FindPeer(c) ==
  LET p == PeerOf[calls[c].account]
  IN  /\ At(c, "connecting")
      /\ \/ /\ p \in peers
            /\ activePeer' = [activePeer EXCEPT ![calls[c].tab] = p]
            /\ calls' = To(c, "choosing")
         \/ /\ p \notin peers
            /\ activePeer' = [activePeer EXCEPT ![calls[c].tab] = None]
            /\ calls' = To(c, "saving")
      /\ UNCHANGED <<handled, active, transport, storageVars, overlapped>>

\* setActivePeer sets the transport once more.
ChooseTransport(c) ==
  /\ At(c, "choosing")
  /\ SetTransport(c, "saving")
  /\ UNCHANGED <<handled, active, activePeer, storageVars, overlapped>>

\* Variant: undefined is not written.
Written(a) == IF a = None THEN stored ELSE a

\* The last step: what was set is saved, and other tabs hear of a change.
Saved(a) == a

Save(c) ==
  LET a == Saved(calls[c].account)
  IN  /\ At(c, "saving")
      /\ stored' = a
      /\ events' = [t \in Tabs |-> IF a # stored /\ t # calls[c].tab
                                   THEN Append(events[t], a) ELSE events[t]]
      /\ calls' = IF calls[c].grant THEN To(c, "confirmed") ELSE Finished(c)
      /\ UNCHANGED <<tabVars, accounts, peers, overlapped>>

-----------------------------------------------------------------------------
(***************************************************************************)
(* The list of accounts                                                    *)
(***************************************************************************)

\* addAccount, in onNewAccount before and once more after the account is set.
Add(c) ==
  /\ calls[c].at \in {"granted", "confirmed"}
  /\ accounts' = accounts \cup {calls[c].account}
  /\ calls' = IF At(c, "granted") THEN To(c, "set") ELSE Finished(c)
  /\ UNCHANGED <<tabVars, stored, peers, events, overlapped>>

\* removeAccountsForPeerIds: the accounts of the peer are removed ...
Remove(c) ==
  LET ids == {a \in accounts : PeerOf[a] = calls[c].peer}
  IN  /\ At(c, "removing")
      /\ accounts' = accounts \ ids
      /\ calls' = [calls EXCEPT ![c].at = "checking", ![c].ids = ids]
      /\ UNCHANGED <<tabVars, stored, peers, events, overlapped>>

\* ... and if one of them is the active account, that is cleared.
CheckActive(c) ==
  /\ At(c, "checking")
  /\ IF active[calls[c].tab] \in calls[c].ids
     THEN ClearActive(c)
     ELSE calls' = Finished(c) /\ UNCHANGED tabVars
  /\ UNCHANGED <<storageVars, overlapped>>

-----------------------------------------------------------------------------
Step(c) ==
  \/ LookUp(c) \/ SetActive(c) \/ GoOnSetting(c) \/ GoOnRemoving(c)
  \/ OpenTransport(c) \/ FindPeer(c) \/ ChooseTransport(c) \/ Save(c)
  \/ Add(c) \/ Remove(c) \/ CheckActive(c)

Next ==
  \/ \E c \in Calls :
       \/ Step(c)
       \/ \E t \in Tabs : HandleEvent(c, t)
       \/ \E t \in UserTabs :
            \/ Clear(c, t)
            \/ \E a \in Accounts : Select(c, t, a) \/ Grant(c, t, a)
            \/ \E p \in Peers : ReceiveDisconnect(c, t, p) \/ RemovePeer(c, t, p)
  \/ \E t \in UserTabs :
       \/ Subscribe(t) \/ ForgetWallet(t)
       \/ \E p \in Peers : Pair(t, p)

Spec == Init /\ [][Next]_vars

-----------------------------------------------------------------------------
(***************************************************************************)
(* Properties                                                              *)
(***************************************************************************)

(***************************************************************************)
(* When calls were made one after the other and all is done, the tabs      *)
(* agree with the storage about the active account, it is one of the       *)
(* stored accounts, and each stored account has its peer.  Without         *)
(* "overlapped" none of this holds: a slow setActiveAccount saves its      *)
(* account after a faster call that cleared it.                            *)
(***************************************************************************)
QuietStateAgrees ==
  Running = {} /\ ~overlapped /\ (\A t \in Tabs : events[t] = <<>>) =>
    /\ \A t \in Tabs : active[t] = stored
    /\ stored \in accounts \cup {None}
    /\ {PeerOf[a] : a \in accounts} \subseteq peers

(***************************************************************************)
(* An active account without a transport is about to get one: some call    *)
(* of that tab is on its way to select it.                                 *)
(***************************************************************************)
TransportIsSelected ==
  \A t \in Tabs :
    active[t] # None /\ ~transport[t] =>
      \E c \in Calls : calls[c].tab = t /\ calls[c].at = "opening"

(***************************************************************************)
(* No call awaits a transport that nobody will set, whatever other calls   *)
(* set, reset and clear in the meantime, but for one: a removePeer in a    *)
(* tab without an active account waits until somebody pairs.  A            *)
(* setActiveAccount never does.                                            *)
(***************************************************************************)
AwaitedTransportComes ==
  \A c \in Calls :
    At(c, "waiting") =>
      \/ \E d \in Calls : calls[d].tab = calls[c].tab /\ At(d, "opening")
      \/ calls[c].peer # None /\ active[calls[c].tab] = None

=============================================================================
