------------------------------ MODULE WCClient ------------------------------
(***************************************************************************)
(* The WalletConnectCommunicationClient of a dApp: the sessions the wallet *)
(* opens and closes, and the queue of message ids by which the answers of  *)
(* the wallet, which carry no id, are given back to requests.              *)
(*                                                                         *)
(* One tab, which is the leader; at least one listener is registered.  The *)
(* WalletConnect sign client and its relay are external: they open, close  *)
(* and lose sessions and answer requests in any order.                     *)
(***************************************************************************)
EXTENDS Naturals, Sequences

CONSTANTS
  Requests,    \* ids of the messages the DAppClient sends
  Type,        \* "permission", "operation" (operations and sign payload
               \* requests alike) or "other" (every other message)
  Sessions,    \* the sessions the wallet can open
  Controller,  \* the controller key of each session
  AccountOf,   \* the account each session shares
  Namespaces,  \* what wallets approve: methods, and accounts with a network
  Network,     \* the network of the WalletConnect options
  None         \* stands for undefined

ASSUME WCClientAssumption ==
  /\ Type \in [Requests -> {"permission", "operation", "other"}]
  /\ None \notin Requests
  /\ None \notin Sessions
  /\ \A s \in Sessions : AccountOf[s] # None
  /\ \A n \in Namespaces : n.tezos \in BOOLEAN

VARIABLES
  session,     \* the session in use
  account,     \* activeAccountOrPbk, and the network set with it
  messageIds,  \* the queue of ids: newest first, oldest last
  stage,       \* where the handler of each request is
  captured,    \* the session a handler holds across its awaits
  closing,     \* sessions whose disconnect() waits for the pairing to go
  tearing,     \* is closePairings under way, for close() or for init(true)?
  pairing,     \* does init() wait for the approval of a new session?
  live,        \* the sessions that exist on the relay
  used,        \* the sessions that were ever opened
  answers,     \* history: what was given to the DAppClient
  order        \* history: the requests in the order they were sent; None once
               \* one failed or the answer of one overtook that of another

clientVars == <<session, account, closing, tearing, pairing, live, used>>
requestVars == <<messageIds, stage, captured, answers>>
vars == <<clientVars, requestVars, order>>

Accounts == {AccountOf[s] : s \in Sessions}
Pending == {"dispatched", "preparing", "asked", "opening", "fetching"}
Stages == {"new", "ignored", "failed", "finished"} \cup Pending

\* The stages in which a handler goes on with a session it has got before.
Holding == {"preparing", "asked", "fetching"}

TypeOK ==
  /\ session \in Sessions \cup {None}
  /\ account \in Accounts \cup {None}
  /\ messageIds \in Seq(Requests)
  /\ stage \in [Requests -> Stages]
  /\ captured \in [Requests -> Sessions \cup {None}]
  /\ \A r \in Requests : stage[r] \in Holding => captured[r] # None
  /\ closing \subseteq Sessions
  /\ tearing \in {"no", "close", "init"}
  /\ pairing \in BOOLEAN
  /\ live \subseteq used
  /\ used \subseteq Sessions
  /\ answers \subseteq [id : Requests \cup {None}, kind : {"response", "error"},
                        request : Requests \cup {None}]
  /\ order = None \/ order \in Seq(Requests)

\* init() restores the last session, if there is one that is not stale.
Init ==
  /\ session \in Sessions \cup {None}
  /\ account = IF session = None THEN None ELSE AccountOf[session]
  /\ live = {session} \ {None}
  /\ used = live
  /\ messageIds = <<>>
  /\ stage = [r \in Requests |-> "new"]
  /\ captured = [r \in Requests |-> None]
  /\ closing = {}
  /\ tearing = "no"
  /\ pairing = FALSE
  /\ answers = {}
  /\ order = <<>>

-----------------------------------------------------------------------------
(***************************************************************************)
(* The queue                                                               *)
(***************************************************************************)

\* Variant: shift() in place of pop() takes the newest id.
Newest == IF messageIds = <<>> THEN None ELSE messageIds[1]

\* Variant: the id that is used stays in the queue.
NotPopped == messageIds

\* `this.messageIds.unshift(message.id)`.
Unshifted(r) == <<r>> \o messageIds

\* `this.messageIds.pop()`: the oldest id, undefined when there is none.
Oldest == IF messageIds = <<>> THEN None ELSE messageIds[Len(messageIds)]
Popped == IF messageIds = <<>> THEN <<>>
                               ELSE SubSeq(messageIds, 1, Len(messageIds) - 1)

\* What request r got is given to the DAppClient under the oldest id.
Notify(r, kind) ==
  /\ messageIds' = Popped
  /\ answers' = answers \cup {[id |-> Oldest, kind |-> kind, request |-> r]}

\* Is a request that was sent before r still without its answer?
Overtakes(r) ==
  \E i, j \in 1..Len(order) :
    i < j /\ order[j] = r /\ stage[order[i]] \in Pending

Disorder == order' = None
AnswersInTurn(r) == order' = IF order = None THEN None
                             ELSE IF Overtakes(r) THEN None ELSE order

Move(r, to, s) ==
  /\ stage' = [stage EXCEPT ![r] = to]
  /\ captured' = [captured EXCEPT ![r] = s]

(***************************************************************************)
(* requestPermissions, once a session is there: setDefaultAccountAndNetwork *)
(* and the start of notifyListenersWithPermissionResponse.                 *)
(***************************************************************************)
UseSession(r, s) ==
  /\ account' = AccountOf[s]
  /\ Move(r, "fetching", s)

Sent(r) == order' = IF order = None THEN None ELSE Append(order, r)

(***************************************************************************)
(* sendMessage: every id is put on the queue, only three types have a      *)
(* handler.  requestPermissions runs on to its first await at once: with   *)
(* an active account a new session is asked for, without one the current   *)
(* session is used, and without a session it throws to nobody.             *)
(***************************************************************************)
SendMessage(r) ==
  /\ stage[r] = "new"
  /\ messageIds' = Unshifted(r)
  /\ \/ /\ Type[r] = "operation"
        /\ Move(r, "dispatched", None)
        /\ Sent(r) /\ UNCHANGED account
     \/ /\ Type[r] = "permission" /\ account # None
        /\ Move(r, "opening", None)
        /\ Sent(r) /\ UNCHANGED account
     \/ /\ Type[r] = "permission" /\ account = None /\ session # None
        /\ UseSession(r, session)
        /\ Sent(r)
     \/ /\ Type[r] = "permission" /\ account = None /\ session = None
        /\ Move(r, "failed", None)
        /\ Disorder
        /\ UNCHANGED account
     \/ /\ Type[r] = "other"
        /\ Move(r, "ignored", None)
        /\ Disorder
        /\ UNCHANGED account
  /\ UNCHANGED <<session, closing, tearing, pairing, live, used, answers>>

-----------------------------------------------------------------------------
(***************************************************************************)
(* Operations and sign payload requests                                    *)
(***************************************************************************)

\* A handler throws or returns, and nobody is told: the id stays queued.
Fail(r) ==
  /\ Move(r, "failed", None)
  /\ Disorder

\* getSignClient: no relay of the list can be connected to.
NoSignClient(r) == Fail(r)

\* Variant: getSession is not asked if there is a session.
ExtendAnySession(r) ==
  /\ Move(r, "preparing", session)
  /\ UNCHANGED order

\* checkAndExtendSession is awaited with the session held in a constant; what it
\* does to the session's expiry, and its errors, are nobody's concern.
CheckAndExtendSession(r) ==
  /\ session # None
  /\ Move(r, "preparing", session)
  /\ UNCHANGED order

\* getSession throws without a session.
NotConnected(r) == session = None /\ Fail(r)

\* sendOperations / signPayload, after `await getSignClient()`.
PrepareRequest(r) ==
  /\ stage[r] = "dispatched"
  /\ NoSignClient(r) \/ NotConnected(r) \/ CheckAndExtendSession(r)
  /\ UNCHANGED <<clientVars, messageIds, answers>>

\* validateNetworkAndAccount: is the active account one of the session's?
ValidAccount == IF session = None THEN FALSE ELSE account = AccountOf[session]

\* ... and then the account is checked against the session in use by now.
AskWallet(r) ==
  /\ stage[r] = "preparing"
  /\ \/ /\ ValidAccount
        /\ Move(r, "asked", captured[r])
        /\ UNCHANGED order
     \/ /\ ~ValidAccount
        /\ Fail(r)
  /\ UNCHANGED <<clientVars, messageIds, answers>>

\* The wallet approves r in a session that is alive, or the request fails.
WalletAnswers(r, kind) ==
  /\ stage[r] = "asked"
  /\ kind = "response" => captured[r] \in live
  /\ Notify(r, kind)
  /\ Move(r, "finished", None)
  /\ AnswersInTurn(r)
  /\ UNCHANGED clientVars

-----------------------------------------------------------------------------
(***************************************************************************)
(* Permission requests and pairing                                         *)
(***************************************************************************)

\* What is asked for in a proposal, and taken as what every session permits.
Required == [methods |-> {"getAccounts", "send", "sign"}, network |-> Network]

MethodsApproved(n) == Required.methods \subseteq n.methods

\* validateAccounts: accounts of Tezos alone, one at least on the network.
AccountsApproved(n) ==
  /\ \A a \in n.accounts : a.chain = "tezos"
  /\ \E a \in n.accounts : a.network = Required.network

ValidNamespace(n) == n.tezos /\ MethodsApproved(n) /\ AccountsApproved(n)

(***************************************************************************)
(* An approval comes in with the new session s: unless it has the          *)
(* controller of the session in use, it replaces that one, which is closed *)
(* if the active account is one of its accounts (closeActiveSession).      *)
(***************************************************************************)
SameController(s) == session # None /\ Controller[s] = Controller[session]

SessionAfter(s) == IF SameController(s) THEN session ELSE s

SessionOpened(s) ==
  /\ s \notin used
  /\ used' = used \cup {s}
  /\ live' = IF ~SameController(s) /\ ValidAccount
             THEN (live \ {session}) \cup {s} ELSE live \cup {s}

\* clearState().
ClearState ==
  /\ session' = None
  /\ account' = None

(***************************************************************************)
(* openSession for r returns the session the wallet opened.  Of the session *)
(* it goes on with, n is what the wallet approved.                         *)
(***************************************************************************)
OpenSession(r, s, n) ==
  /\ stage[r] = "opening"
  /\ ValidNamespace(n)
  /\ SessionOpened(s)
  /\ session' = SessionAfter(s)
  /\ UseSession(r, SessionAfter(s))
  /\ UNCHANGED <<closing, tearing, pairing, messageIds, answers, order>>

\* The namespaces the wallet approved do not do (validateReceivedNamespace).
OpenSessionInvalid(r, s, n) ==
  /\ stage[r] = "opening"
  /\ ~ValidNamespace(n)
  /\ SessionOpened(s)
  /\ ClearState
  /\ Notify(r, "error")
  /\ Move(r, "failed", None)
  /\ Disorder
  /\ UNCHANGED <<closing, tearing, pairing>>

(***************************************************************************)
(* openSession fails.  When the proposal is rejected an Error goes out     *)
(* under the oldest id; when it expires nothing does.  If there still is a *)
(* session, requestPermissions goes on with it as if it had been granted.  *)
(***************************************************************************)
OpenSessionFails(r, expired) ==
  /\ stage[r] = "opening"
  /\ IF expired THEN UNCHANGED <<messageIds, answers>> ELSE Notify(r, "error")
  /\ IF session # None
     THEN UseSession(r, session)
     ELSE /\ Move(r, "failed", None)
          /\ UNCHANGED account
  /\ Disorder
  /\ UNCHANGED <<session, closing, tearing, pairing, live, used>>

\* fetchAccounts finds no account the wallet shares, or is refused.
NoAccounts(r) == Fail(r) /\ UNCHANGED <<messageIds, answers>>

(***************************************************************************)
(* The rest of notifyListenersWithPermissionResponse, with the accounts of *)
(* the session at hand or fetched from the wallet; it throws, to nobody,   *)
(* when the wallet shares none.                                            *)
(***************************************************************************)
FinishPermission(r) ==
  /\ stage[r] = "fetching"
  /\ \/ /\ Notify(r, "response")
        /\ Move(r, "finished", None)
        /\ AnswersInTurn(r)
     \/ NoAccounts(r)
  /\ UNCHANGED clientVars

\* The approval init() waits for arrives; an invalid one is an error.
PairingApproved(s, n) ==
  /\ pairing
  /\ pairing' = FALSE
  /\ SessionOpened(s)
  /\ \/ /\ ValidNamespace(n)
        /\ session' = SessionAfter(s)
        /\ UNCHANGED <<account, messageIds, answers, order>>
     \/ /\ ~ValidNamespace(n)
        /\ ClearState
        /\ Notify(None, "error")
        /\ Disorder
  /\ UNCHANGED <<closing, tearing, stage, captured>>

\* The user rejects the pairing: an Error goes out under the oldest id.
PairingRejected ==
  /\ pairing
  /\ Notify(None, "error")
  /\ pairing' = FALSE
  /\ Disorder
  /\ UNCHANGED <<session, account, closing, tearing, live, used, stage, captured>>

(***************************************************************************)
(* updateActiveAccount: the first account becomes the active one, and the  *)
(* ChangeAccountRequest that goes out has an id of its own.  An update     *)
(* without accounts leaves the account; the PermissionResponse that goes   *)
(* out then has an id of its own, too.                                     *)
(***************************************************************************)
UpdateActiveAccount(s) == account' \in {AccountOf[s], account}

\* session_update for s: s becomes the session in use, whichever was.
SessionUpdated(s) ==
  /\ s \in live
  /\ session' = s
  /\ UpdateActiveAccount(s)
  /\ UNCHANGED <<closing, tearing, pairing, live, used, requestVars, order>>

-----------------------------------------------------------------------------
(***************************************************************************)
(* Closing                                                                 *)
(***************************************************************************)

\* Variant: without an active account the event is not handled.
WalletClosesActiveSession(s) ==
  /\ s \in live
  /\ live' = live \ {s}
  /\ closing' = IF session = s /\ account # None THEN closing \cup {s} ELSE closing
  /\ Disorder
  /\ UNCHANGED <<session, account, tearing, pairing, used, requestVars>>

(***************************************************************************)
(* session_delete or session_expire for s: if s is in use, disconnect()    *)
(* first waits until its pairing is gone (onSessionClosed) ...             *)
(***************************************************************************)
WalletClosesSession(s) ==
  /\ s \in live
  /\ live' = live \ {s}
  /\ closing' = IF session = s THEN closing \cup {s} ELSE closing
  /\ Disorder
  /\ UNCHANGED <<session, account, tearing, pairing, used, requestVars>>

\* ... then tells the DAppClient and clears the state.
FinishDisconnect(s) ==
  /\ s \in closing
  /\ closing' = closing \ {s}
  /\ ClearState
  /\ UNCHANGED <<tearing, pairing, live, used, requestVars, order>>

\* close(), or init(true) for a new pairing: closePairings ends all sessions ...
ClosePairings(why) ==
  /\ tearing = "no"
  /\ tearing' = why
  /\ live' = {}
  /\ Disorder
  /\ UNCHANGED <<session, account, closing, pairing, used, requestVars>>

\* connect() gives a URI and the promise of an approval, or init() throws.
Connect == pairing' = TRUE
ConnectFails == UNCHANGED pairing

\* ... and clears the state; close() empties the queue, init() then pairs.
FinishClose ==
  /\ tearing # "no"
  /\ tearing' = "no"
  /\ ClearState
  /\ IF tearing = "close"
     THEN /\ messageIds' = <<>>
          /\ UNCHANGED pairing
     ELSE /\ Connect \/ ConnectFails
          /\ UNCHANGED messageIds
  /\ UNCHANGED <<closing, live, used, stage, captured, answers, order>>

\* Another tab reset the connection (onStorageMessageHandler, "RESET").
StorageReset ==
  /\ ClearState
  /\ messageIds' = <<>>
  /\ live' = {}
  /\ Disorder
  /\ UNCHANGED <<closing, tearing, pairing, used, stage, captured, answers>>

\* isSessionValid: the session has not expired and its wallet answers a ping.
RestoreSession(s) ==
  /\ s \in live
  /\ session' = s
  /\ account' = AccountOf[s]
  /\ UNCHANGED live

CleanupStaleSession(s) ==
  /\ live' = live \ {s}
  /\ ClearState

(***************************************************************************)
(* Another tab of a phone has changed its sessions (refreshState): the     *)
(* sign client is made anew, with the sessions that are stored, and what   *)
(* the wallet would answer to the old one is lost.                         *)
(***************************************************************************)
RefreshState ==
  /\ \/ \E s \in live : RestoreSession(s) \/ CleanupStaleSession(s)
     \/ /\ live = {}
        /\ ClearState
        /\ UNCHANGED live
  /\ Disorder
  /\ UNCHANGED <<closing, tearing, pairing, used, requestVars>>

-----------------------------------------------------------------------------
Next ==
  \/ \E r \in Requests :
       \/ SendMessage(r) \/ PrepareRequest(r) \/ AskWallet(r)
       \/ FinishPermission(r)
       \/ \E kind \in {"response", "error"} : WalletAnswers(r, kind)
       \/ \E s \in Sessions, n \in Namespaces :
            OpenSession(r, s, n) \/ OpenSessionInvalid(r, s, n)
       \/ \E expired \in BOOLEAN : OpenSessionFails(r, expired)
  \/ \E s \in Sessions :
       \/ \E n \in Namespaces : PairingApproved(s, n)
       \/ SessionUpdated(s) \/ WalletClosesSession(s) \/ FinishDisconnect(s)
  \/ \E why \in {"close", "init"} : ClosePairings(why)
  \/ PairingRejected
  \/ FinishClose
  \/ StorageReset
  \/ RefreshState

Spec == Init /\ [][Next]_vars

-----------------------------------------------------------------------------
(***************************************************************************)
(* Properties                                                              *)
(***************************************************************************)

(***************************************************************************)
(* No id is given to two answers, and an id that was given to one is not   *)
(* in the queue any more, whatever fails, closes or overtakes.             *)
(***************************************************************************)
NoIdAnsweredTwice ==
  \A a \in answers :
    a.id # None =>
      /\ \A b \in answers : b.id = a.id => b = a
      /\ \A i \in 1..Len(messageIds) : messageIds[i] # a.id

(***************************************************************************)
(* As long as nothing failed and the wallet answered in the order it was   *)
(* asked, each answer is given to the request it belongs to, and what is   *)
(* left in the queue is what still waits.                                  *)
(***************************************************************************)
OrderlyAnswersMatch ==
  order # None =>
    /\ \A a \in answers : a.id = a.request
    /\ {messageIds[i] : i \in 1..Len(messageIds)}
         = {r \in Requests : stage[r] \in Pending}

(***************************************************************************)
(* The client never goes on using a session that the relay has dropped:    *)
(* it is alive, or the cleanup that forgets it is under way.               *)
(***************************************************************************)
SessionIsLiveOrClosing ==
  session # None =>
    session \in live \/ session \in closing \/ tearing # "no"

(***************************************************************************)
(* "The same ID is used in the request and response": every answer given   *)
(* to the DAppClient carries the id of the request it answers.             *)
(***************************************************************************)
AnswersNameTheirRequest ==
  \A a \in answers : a.id # None => a.id = a.request

=============================================================================
