---------------------------- MODULE WalletStorage ----------------------------
(***************************************************************************)
(* What a wallet keeps in its storage: its peers, the metadata of the      *)
(* dApps, the permissions it gave them and its push tokens; and the calls  *)
(* of WalletClient that change these lists.                                *)
(*                                                                         *)
(* Every list is changed by reading it whole, awaiting the storage, and    *)
(* writing it back whole (StorageManager), with nothing that keeps two     *)
(* calls apart.  A call is a sequence of steps, one for each read and each *)
(* write, and the steps of different calls interleave.  LocalStorage and   *)
(* the storages apps supply hand out copies, so what a call has read is    *)
(* its own.                                                                *)
(***************************************************************************)
EXTENDS Naturals, FiniteSets

CONSTANTS
  DApps,     \* stands for the public key and the sender id of each dApp
  Accounts,  \* account identifiers: an address on a network
  Calls,     \* the calls the app makes, and the requests it receives
  Earlier,   \* the permissions an earlier run of the wallet stored
  MaxRunning, \* bound: calls under way at once
  Restarts   \* may the wallet app be restarted?

Permission == [account : Accounts, dApp : DApps]

\* The token the oracle returned to a call of registerPush.
Token == [account : Accounts, issuedTo : Calls]

ASSUME WalletStorageAssumption ==
  /\ Earlier \subseteq Permission
  /\ MaxRunning \in Nat
  /\ Restarts \in BOOLEAN

VARIABLES
  peers,        \* TRANSPORT_P2P_PEERS_WALLET
  appMetadata,  \* APP_METADATA_LIST
  permissions,  \* PERMISSION_LIST
  pushTokens,   \* PUSH_TOKENS
  heard,        \* peers the transport listens to
  pending,      \* dApps whose permission request the app can answer
  op,           \* what each call does
  at,           \* the step each call is at
  peersAt,      \* the step of the peer removal a call has started
  read,         \* what each call has read
  granted,      \* history: the permissions the user ever gave
  alone,        \* history: the call no other call overlaps so far
  before        \* history: what was stored when that call began

storedVars == <<peers, appMetadata, permissions, pushTokens, heard>>
historyVars == <<granted, alone, before>>
vars == <<storedVars, pending, op, at, peersAt, read, historyVars>>

Stored == [peers       : SUBSET DApps,
           appMetadata : SUBSET DApps,
           permissions : SUBSET Permission,
           pushTokens  : SUBSET Token,
           heard       : SUBSET DApps]

NothingStored == [peers |-> {}, appMetadata |-> {}, permissions |-> {},
                  pushTokens |-> {}, heard |-> {}]

\* What is in the storage, and heard, now.
Now == [peers |-> peers, appMetadata |-> appMetadata,
        permissions |-> permissions, pushTokens |-> pushTokens,
        heard |-> heard]

NoOperation == [name |-> "none", dApps |-> {}, accounts |-> {}]

NothingRead == [peers |-> {}, appMetadata |-> {}, permissions |-> {},
                accounts |-> {}, pushTokens |-> {}]

Operations ==
  [name     : {"none", "addPeer", "removePeer", "removeAllPeers", "request",
               "answer", "removePermission", "removeAppMetadata",
               "registerPush"},
   dApps    : SUBSET DApps,
   accounts : SUBSET Accounts]

Steps == {"idle", "readPeers", "storePeers", "listen", "readMetadata",
          "storeMetadata", "findMetadata", "listPeers", "listPermissions",
          "readPermissions", "storePermissions", "wait", "readTokens",
          "register", "storeTokens", "done", "lost"}

TypeOK ==
  /\ Now \in Stored
  /\ pending \subseteq DApps
  /\ op \in [Calls -> Operations]
  /\ at \in [Calls -> Steps]
  /\ peersAt \in [Calls -> {"none", "read", "store", "clear", "unsubscribe"}]
  /\ read \in [Calls -> [peers       : SUBSET DApps,
                         appMetadata : SUBSET DApps,
                         permissions : SUBSET Permission,
                         accounts    : SUBSET Accounts,
                         pushTokens  : SUBSET Token]]
  /\ granted \subseteq Permission
  /\ alone \subseteq Calls
  /\ before \in Stored

Init ==
  /\ permissions = Earlier
  /\ granted = Earlier
  /\ peers = {p.dApp : p \in Earlier}
  /\ appMetadata = peers
  /\ heard = peers
  /\ pushTokens = {}
  /\ pending = {}
  /\ op = [c \in Calls |-> NoOperation]
  /\ at = [c \in Calls |-> "idle"]
  /\ peersAt = [c \in Calls |-> "none"]
  /\ read = [c \in Calls |-> NothingRead]
  /\ alone = {}
  /\ before = NothingStored

Running(c) == at[c] \notin {"idle", "done", "lost"}

Goes(c, step) == at' = [at EXCEPT ![c] = step]

\* A call returns ("done") or fails ("lost"), and its variables are gone.
Ends(c, end) ==
  /\ Goes(c, end)
  /\ op' = [op EXCEPT ![c] = NoOperation]
  /\ read' = [read EXCEPT ![c] = NothingRead]

\* No call is alone any more.
Overlaps == alone' = {} /\ before' = NothingStored

-----------------------------------------------------------------------------
(***************************************************************************)
(* StorageManager: what is written back, from the list that was read.      *)
(***************************************************************************)

\* addOne: the element takes the place of those the predicate matches.
AddOne(list, element, matching) == (list \ matching) \cup {element}

\* remove: the elements the predicate does not match.
Remove(list, matching) == list \ matching

\* Variant: the new permission is written over the account of every entry.
AddPermissionToEntries(list, p) ==
  {[account |-> p.account, dApp |-> q.dApp] : q \in list} \cup {p}

\* PermissionManager.addPermission
AddPermission(list, p) ==
  AddOne(list, p, {q \in list : q.account = p.account /\ q.dApp = p.dApp})

\* PermissionManager.removePermission
RemovePermissionOf(list, account, dApp) ==
  Remove(list, {p \in list : p.account = account /\ p.dApp = dApp})

\* PermissionManager.removePermissions, which compares the accounts alone.
RemovePermissions(list, accounts) ==
  Remove(list, {p \in list : p.account \in accounts})

-----------------------------------------------------------------------------
(***************************************************************************)
(* The app calls, or a request arrives.                                    *)
(***************************************************************************)

\* A call c begins, at its first step; it overlaps every call under way.
Begin(c, name, dApps, accounts, step) ==
  /\ at[c] = "idle"
  /\ Cardinality({b \in Calls : Running(b)}) < MaxRunning
  /\ op' = [op EXCEPT ![c] = [name |-> name, dApps |-> dApps,
                              accounts |-> accounts]]
  /\ Goes(c, step)
  /\ IF \E b \in Calls : Running(b) THEN Overlaps
                                     ELSE alone' = {c} /\ before' = Now
  /\ UNCHANGED <<storedVars, read>>

\* addPeer: a peer the app has read from a pairing code.
AddPeer(c, d) ==
  /\ Begin(c, "addPeer", {d}, {}, "readPeers")
  /\ UNCHANGED <<pending, peersAt, granted>>

(***************************************************************************)
(* removePeer: transport.removePeer runs beside removePermissionsForPeers, *)
(* and its end is awaited last.                                            *)
(***************************************************************************)
RemovePeer(c, d) ==
  /\ Begin(c, "removePeer", {d}, {}, "listPermissions")
  /\ peersAt' = [peersAt EXCEPT ![c] = "read"]
  /\ UNCHANGED <<pending, granted>>

\* removeAllPeers first asks which peers there are.
RemoveAllPeers(c) ==
  /\ Begin(c, "removeAllPeers", {}, {}, "listPeers")
  /\ UNCHANGED <<pending, peersAt, granted>>

\* A permission request arrives: IncomingRequestInterceptor, either version.
ReceivePermissionRequest(c, d) ==
  /\ d \in peers
  /\ Begin(c, "request", {d}, {}, "readMetadata")
  /\ UNCHANGED <<pending, peersAt, granted>>

(***************************************************************************)
(* respond: the app gives dApp d the permission for an account.  The entry *)
(* of the request is gone at once; the interceptor goes on by itself, and  *)
(* the call stands for all it does: respond() returns to the app before    *)
(* the permission is stored.  An answer of version 3 stores none, and is   *)
(* left out.                                                               *)
(***************************************************************************)
Respond(c, d, a) ==
  /\ d \in pending
  /\ Begin(c, "answer", {d}, {a}, "findMetadata")
  /\ pending' = pending \ {d}
  /\ granted' = granted \cup {[account |-> a, dApp |-> d]}
  /\ UNCHANGED peersAt

\* removePermission of the app.
RemovePermission(c, d, a) ==
  /\ Begin(c, "removePermission", {d}, {a}, "readPermissions")
  /\ UNCHANGED <<pending, peersAt, granted>>

\* removeAppMetadata of the app.
RemoveAppMetadata(c, d) ==
  /\ Begin(c, "removeAppMetadata", {d}, {}, "readMetadata")
  /\ UNCHANGED <<pending, peersAt, granted>>

\* registerPush for an account, with one backend.
RegisterPush(c, a) ==
  /\ Begin(c, "registerPush", {}, {a}, "readTokens")
  /\ UNCHANGED <<pending, peersAt, granted>>

-----------------------------------------------------------------------------
(***************************************************************************)
(* The steps of the calls.                                                 *)
(***************************************************************************)

\* PeerManager.addPeer
ReadPeers(c) ==
  /\ at[c] = "readPeers"
  /\ read' = [read EXCEPT ![c].peers = peers]
  /\ Goes(c, "storePeers")
  /\ UNCHANGED <<storedVars, pending, op, peersAt, historyVars>>

StorePeers(c) ==
  /\ at[c] = "storePeers"
  /\ peers' = read[c].peers \cup op[c].dApps
  /\ Goes(c, "listen")
  /\ UNCHANGED <<appMetadata, permissions, pushTokens, heard, pending, op,
                 peersAt, read, historyVars>>

\* The transport listens to the new peer, and sends the pairing response.
Listen(c) ==
  /\ at[c] = "listen"
  /\ heard' = heard \cup op[c].dApps
  /\ Ends(c, "done")
  /\ UNCHANGED <<peers, appMetadata, permissions, pushTokens, pending, peersAt,
                 historyVars>>

\* removeAllPeers goes on with the peers it was told.
ListPeers(c) ==
  /\ at[c] = "listPeers"
  /\ op' = [op EXCEPT ![c].dApps = peers]
  /\ peersAt' = [peersAt EXCEPT ![c] = "clear"]
  /\ Goes(c, "listPermissions")
  /\ UNCHANGED <<storedVars, pending, read, historyVars>>

\* PeerManager.removePeer
ReadPeersToRemove(c) ==
  /\ peersAt[c] = "read"
  /\ read' = [read EXCEPT ![c].peers = peers]
  /\ peersAt' = [peersAt EXCEPT ![c] = "store"]
  /\ UNCHANGED <<storedVars, pending, op, at, historyVars>>

StoreRemainingPeers(c) ==
  /\ peersAt[c] = "store"
  /\ peers' = read[c].peers \ op[c].dApps
  /\ peersAt' = [peersAt EXCEPT ![c] = "unsubscribe"]
  /\ UNCHANGED <<appMetadata, permissions, pushTokens, heard, pending, op, at,
                 read, historyVars>>

\* PeerManager.removeAllPeers deletes the list.
ClearPeers(c) ==
  /\ peersAt[c] = "clear"
  /\ peers' = {}
  /\ peersAt' = [peersAt EXCEPT ![c] = "unsubscribe"]
  /\ UNCHANGED <<appMetadata, permissions, pushTokens, heard, pending, op, at,
                 read, historyVars>>

\* unsubscribeFromEncryptedMessage, or -Messages: with it the removal ends.
Unsubscribe(c) ==
  /\ peersAt[c] = "unsubscribe"
  /\ heard' = IF op[c].name = "removeAllPeers" THEN {} ELSE heard \ op[c].dApps
  /\ peersAt' = [peersAt EXCEPT ![c] = "none"]
  /\ UNCHANGED <<peers, appMetadata, permissions, pushTokens, pending, op, at,
                 read, historyVars>>

\* `return removePeerResult` waits for the removal of the peer.
FinishRemoval(c) ==
  /\ at[c] = "wait"
  /\ peersAt[c] = "none"
  /\ Ends(c, "done")
  /\ UNCHANGED <<storedVars, pending, peersAt, historyVars>>

\* AppMetadataManager: the first half of addAppMetadata or removeAppMetadata.
ReadMetadata(c) ==
  /\ at[c] = "readMetadata"
  /\ read' = [read EXCEPT ![c].appMetadata = appMetadata]
  /\ Goes(c, "storeMetadata")
  /\ UNCHANGED <<storedVars, pending, op, peersAt, historyVars>>

\* The second half; a request is then handed to the app.
StoreMetadata(c) ==
  /\ at[c] = "storeMetadata"
  /\ \/ /\ op[c].name = "request"
        /\ appMetadata' = read[c].appMetadata \cup op[c].dApps
        /\ pending' = pending \cup op[c].dApps
     \/ /\ op[c].name = "removeAppMetadata"
        /\ appMetadata' = read[c].appMetadata \ op[c].dApps
        /\ UNCHANGED pending
  /\ Ends(c, "done")
  /\ UNCHANGED <<peers, permissions, pushTokens, heard, peersAt, historyVars>>

\* OutgoingResponseInterceptor: without the metadata nothing is stored or sent.
FindMetadata(c) ==
  /\ at[c] = "findMetadata"
  /\ \/ /\ op[c].dApps \subseteq appMetadata
        /\ Goes(c, "readPermissions")
        /\ UNCHANGED <<op, read>>
     \/ /\ ~(op[c].dApps \subseteq appMetadata)
        /\ Ends(c, "done")
  /\ UNCHANGED <<storedVars, pending, peersAt, historyVars>>

\* removePermissionsForPeers: the accounts of the peers' permissions.
ListPermissions(c) ==
  /\ at[c] = "listPermissions"
  /\ read' = [read EXCEPT ![c].accounts =
                {p.account : p \in {q \in permissions : q.dApp \in op[c].dApps}}]
  /\ Goes(c, "readPermissions")
  /\ UNCHANGED <<storedVars, pending, op, peersAt, historyVars>>

\* The first half of every change of the permissions.
ReadPermissions(c) ==
  /\ at[c] = "readPermissions"
  /\ read' = [read EXCEPT ![c].permissions = permissions]
  /\ Goes(c, "storePermissions")
  /\ UNCHANGED <<storedVars, pending, op, peersAt, historyVars>>

\* Variant: a call that removes a peer does not wait for the removal.
StorePermissionsAndReturn(c) ==
  LET list == read[c].permissions
      dApp == CHOOSE d \in op[c].dApps : TRUE
      account == CHOOSE a \in op[c].accounts : TRUE
  IN  /\ at[c] = "storePermissions"
      /\ \/ /\ op[c].name = "answer"
            /\ permissions' =
                 AddPermission(list, [account |-> account, dApp |-> dApp])
         \/ /\ op[c].name = "removePermission"
            /\ permissions' = RemovePermissionOf(list, account, dApp)
         \/ /\ op[c].name \in {"removePeer", "removeAllPeers"}
            /\ permissions' = RemovePermissions(list, read[c].accounts)
      /\ Goes(c, "done")
      /\ UNCHANGED <<peers, appMetadata, pushTokens, heard, pending, op,
                     peersAt, read, historyVars>>

\* The second half.
StorePermissions(c) ==
  LET list == read[c].permissions
      dApp == CHOOSE d \in op[c].dApps : TRUE
      account == CHOOSE a \in op[c].accounts : TRUE
  IN  /\ at[c] = "storePermissions"
      /\ \/ /\ op[c].name = "answer"
            /\ permissions' =
                 AddPermission(list, [account |-> account, dApp |-> dApp])
            /\ Ends(c, "done")
         \/ /\ op[c].name = "removePermission"
            /\ permissions' = RemovePermissionOf(list, account, dApp)
            /\ Ends(c, "done")
         \/ /\ op[c].name \in {"removePeer", "removeAllPeers"}
            /\ permissions' = RemovePermissions(list, read[c].accounts)
            /\ Goes(c, "wait")
            /\ UNCHANGED <<op, read>>
      /\ UNCHANGED <<peers, appMetadata, pushTokens, heard, pending, peersAt,
                     historyVars>>

\* removeAllPermissions and removeAllAppMetadata delete a list at once.
DeleteList ==
  /\ Overlaps
  /\ \/ permissions' = {} /\ UNCHANGED appMetadata
     \/ appMetadata' = {} /\ UNCHANGED permissions
  /\ UNCHANGED <<peers, pushTokens, heard, pending, op, at, peersAt, read,
                 granted>>

\* registerPush is content with a token it finds.
ReadTokens(c) ==
  /\ at[c] = "readTokens"
  /\ IF \E t \in pushTokens : t.account \in op[c].accounts
     THEN Ends(c, "done")
     ELSE /\ read' = [read EXCEPT ![c].pushTokens = pushTokens]
          /\ Goes(c, "register")
          /\ UNCHANGED op
  /\ UNCHANGED <<storedVars, pending, peersAt, historyVars>>

\* The oracle answers, or the HTTP request fails and the call with it.
Register(c) ==
  /\ at[c] = "register"
  /\ \/ Goes(c, "storeTokens") /\ UNCHANGED <<op, read>>
     \/ Ends(c, "lost")
  /\ UNCHANGED <<storedVars, pending, peersAt, historyVars>>

\* Variant: the tokens are read once more before the new one is added.
StoreTokensReadAgain(c) ==
  /\ at[c] = "storeTokens"
  /\ pushTokens' = pushTokens \cup
       {[account |-> a, issuedTo |-> c] : a \in op[c].accounts}
  /\ Ends(c, "done")
  /\ UNCHANGED <<peers, appMetadata, permissions, heard, pending, peersAt,
                 historyVars>>

\* The list as it was before the HTTP request, and the new token.
StoreTokens(c) ==
  /\ at[c] = "storeTokens"
  /\ pushTokens' = read[c].pushTokens \cup
       {[account |-> a, issuedTo |-> c] : a \in op[c].accounts}
  /\ Ends(c, "done")
  /\ UNCHANGED <<peers, appMetadata, permissions, heard, pending, peersAt,
                 historyVars>>

(***************************************************************************)
(* The wallet app restarts: the calls and the pending requests are lost,   *)
(* and the transport listens to the peers that are stored.                 *)
(***************************************************************************)
Restart ==
  /\ Restarts
  /\ at' = [c \in Calls |-> IF Running(c) THEN "lost" ELSE at[c]]
  /\ op' = [c \in Calls |-> NoOperation]
  /\ read' = [c \in Calls |-> NothingRead]
  /\ peersAt' = [c \in Calls |-> "none"]
  /\ heard' = peers
  /\ pending' = {}
  /\ Overlaps
  /\ UNCHANGED <<peers, appMetadata, permissions, pushTokens, granted>>

-----------------------------------------------------------------------------
BeginNext ==
  \E c \in Calls :
    \/ RemoveAllPeers(c)
    \/ \E d \in DApps : \/ AddPeer(c, d)
                        \/ RemovePeer(c, d)
                        \/ ReceivePermissionRequest(c, d)
                        \/ RemoveAppMetadata(c, d)
    \/ \E d \in DApps, a \in Accounts : \/ Respond(c, d, a)
                                        \/ RemovePermission(c, d, a)
    \/ \E a \in Accounts : RegisterPush(c, a)

PeersNext ==
  \E c \in Calls :
    \/ ReadPeers(c) \/ StorePeers(c) \/ Listen(c) \/ ListPeers(c)
    \/ ReadPeersToRemove(c) \/ StoreRemainingPeers(c) \/ ClearPeers(c)
    \/ Unsubscribe(c) \/ FinishRemoval(c)

ListsNext ==
  \E c \in Calls :
    \/ ReadMetadata(c) \/ StoreMetadata(c) \/ FindMetadata(c)
    \/ ListPermissions(c) \/ ReadPermissions(c) \/ StorePermissions(c)
    \/ ReadTokens(c) \/ Register(c) \/ StoreTokens(c)

Next == BeginNext \/ PeersNext \/ ListsNext \/ DeleteList \/ Restart

Spec == Init /\ [][Next]_vars

-----------------------------------------------------------------------------
(***************************************************************************)
(* Properties                                                              *)
(***************************************************************************)

(***************************************************************************)
(* The wallet holds only permissions its user gave to that very dApp for   *)
(* that very account: however the calls interleave and whenever the app    *)
(* restarts, a list that is written back brings in nothing else.           *)
(***************************************************************************)
PermissionsWereGranted == permissions \subseteq granted

(***************************************************************************)
(* Two calls of registerPush for one account may both get a token from the *)
(* oracle, but the wallet never stores two for the same account: it would  *)
(* always find the older one.                                              *)
(***************************************************************************)
OneTokenPerAccount ==
  \A s, t \in pushTokens : s.account = t.account => s = t

\* What an operation is to make of what is stored, b, when it runs by itself.
Atomically(c, b) ==
  LET o == op[c]
      gone == IF o.name = "removeAllPeers" THEN b.peers ELSE o.dApps
      held == {p.account : p \in {q \in b.permissions : q.dApp \in gone}}
      named == [account : o.accounts, dApp : o.dApps]
  IN  CASE o.name = "addPeer" ->
             [b EXCEPT !.peers = @ \cup o.dApps, !.heard = @ \cup o.dApps]
        [] o.name \in {"removePeer", "removeAllPeers"} ->
             [b EXCEPT !.peers = @ \ gone,
                       !.heard = IF o.name = "removePeer" THEN @ \ gone ELSE {},
                       !.permissions = {p \in @ : p.account \notin held}]
        [] o.name = "request" -> [b EXCEPT !.appMetadata = @ \cup o.dApps]
        [] o.name = "removeAppMetadata" ->
             [b EXCEPT !.appMetadata = @ \ o.dApps]
        [] o.name = "answer" ->
             [b EXCEPT !.permissions =
                IF o.dApps \subseteq b.appMetadata THEN @ \cup named ELSE @]
        [] o.name = "removePermission" ->
             [b EXCEPT !.permissions = @ \ named]
        [] o.name = "registerPush" ->
             [b EXCEPT !.pushTokens =
                IF \E t \in @ : t.account \in o.accounts THEN @
                ELSE @ \cup [account : o.accounts, issuedTo : {c}]]

(***************************************************************************)
(* A call that nothing else overlapped has done what it names, and nothing *)
(* else, when it ends: no list it reads in one step and writes in another  *)
(* is left half changed, a peer that is removed is neither stored nor      *)
(* heard, and the permissions of other accounts stay.                      *)
(***************************************************************************)
UndisturbedCallsAreAtomic ==
  [][\A c \in Calls :
       c \in alone /\ at[c] # "done" /\ at'[c] = "done"
         => Now' = Atomically(c, before)]_vars

(***************************************************************************)
(* "Remove all permissions with origin of the specified peer": removing a  *)
(* dApp takes the permissions of that dApp away and those of no other.     *)
(***************************************************************************)
OnlyPermissionsOfThePeerGo ==
  [][\A c \in Calls :
       /\ c \in alone
       /\ op[c].name = "removePeer"
       /\ at[c] # "done"
       /\ at'[c] = "done"
       => \A p \in before.permissions :
            p.dApp \in op[c].dApps \/ p \in permissions']_vars

=============================================================================
