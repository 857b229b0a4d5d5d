------------------------- MODULE WalletStorageProofs -------------------------
(***************************************************************************)
(* Proofs about WalletStorage, for any dApps, accounts and number of       *)
(* overlapping calls: the lists keep their types, a stored permission was  *)
(* given by the user, no account has two push tokens, and a call that      *)
(* nothing overlaps changes the lists as one step would.                   *)
(*                                                                         *)
(* None of the lists says enough by itself: what is stored next is what    *)
(* some call has read before, so each invariant also speaks of the copies  *)
(* the calls under way hold.                                               *)
(***************************************************************************)
EXTENDS WalletStorage, TLAPS

-----------------------------------------------------------------------------
(***************************************************************************)
(* Types                                                                   *)
(***************************************************************************)

\* The copies calls hold, each of the type of its list.
Copies == [peers       : SUBSET DApps,
           appMetadata : SUBSET DApps,
           permissions : SUBSET Permission,
           accounts    : SUBSET Accounts,
           pushTokens  : SUBSET Token]

\* What the proofs use of TypeOK: the lists and the variables of the calls.
ListsTyped ==
  /\ peers \subseteq DApps
  /\ appMetadata \subseteq DApps
  /\ permissions \subseteq Permission
  /\ pushTokens \subseteq Token
  /\ heard \subseteq DApps

CallsTyped ==
  /\ pending \subseteq DApps
  /\ op \in [Calls -> Operations]
  /\ at \in [Calls -> Steps]
  /\ peersAt \in [Calls -> {"none", "read", "store", "clear", "unsubscribe"}]
  /\ read \in [Calls -> Copies]

HistoryTyped ==
  /\ granted \subseteq Permission
  /\ alone \subseteq Calls
  /\ before \in Stored

(***************************************************************************)
(* An answer under way names one dApp and one account, and the user gave   *)
(* that dApp the permission for that account; it lists no peers.           *)
(***************************************************************************)
AnswersGranted ==
  \A c \in Calls :
    op[c].name = "answer" =>
      /\ at[c] # "listPeers"
      /\ \E d \in DApps, a \in Accounts :
           /\ op[c].dApps = {d}
           /\ op[c].accounts = {a}
           /\ [account |-> a, dApp |-> d] \in granted

LEMMA TypeParts == TypeOK <=> ListsTyped /\ CallsTyped /\ HistoryTyped
BY DEF TypeOK, ListsTyped, CallsTyped, HistoryTyped, Copies, Now, Stored

\* A call that ends leaves variables of the right type.
LEMMA EndsTyped ==
  ASSUME CallsTyped, NEW c \in Calls, NEW end \in Steps, Ends(c, end)
  PROVE  /\ op' \in [Calls -> Operations]
         /\ at' \in [Calls -> Steps]
         /\ read' \in [Calls -> Copies]
<1>1. NoOperation \in Operations
  BY DEF NoOperation, Operations
<1>2. NothingRead \in Copies
  BY DEF NothingRead, Copies
<1>. QED
  BY <1>1, <1>2 DEF Ends, Goes, CallsTyped

\* So does one that begins.
LEMMA BeginTyped ==
  ASSUME TypeOK, NEW c \in Calls, NEW d \in SUBSET DApps,
         NEW a \in SUBSET Accounts, NEW step \in Steps,
         NEW name \in {"addPeer", "removePeer", "removeAllPeers", "request",
                       "answer", "removePermission", "removeAppMetadata",
                       "registerPush"},
         Begin(c, name, d, a, step)
  PROVE  /\ ListsTyped'
         /\ op' \in [Calls -> Operations]
         /\ at' \in [Calls -> Steps]
         /\ read' \in [Calls -> Copies]
         /\ alone' \subseteq Calls
         /\ before' \in Stored
<1>. USE TypeParts
<1>1. [name |-> name, dApps |-> d, accounts |-> a] \in Operations
  BY DEF Operations
<1>2. NothingStored \in Stored
  BY DEF NothingStored, Stored
<1>3. ListsTyped'
  BY DEF Begin, storedVars, ListsTyped
<1>4. Now \in Stored
  BY DEF TypeOK
<1>. QED
  BY <1>1, <1>2, <1>3, <1>4 DEF Begin, Goes, Overlaps, CallsTyped, HistoryTyped

LEMMA TypeInit == Init => TypeOK
<1>. SUFFICES ASSUME Init PROVE TypeOK
  OBVIOUS
<1>1. ListsTyped
  BY WalletStorageAssumption DEF Init, ListsTyped, Permission
<1>2. NoOperation \in Operations /\ NothingRead \in Copies
  BY DEF NoOperation, Operations, NothingRead, Copies
<1>3. CallsTyped
  BY <1>2 DEF Init, CallsTyped, Steps
<1>4. HistoryTyped
  BY WalletStorageAssumption DEF Init, HistoryTyped, NothingStored, Stored
<1>. QED
  BY <1>1, <1>3, <1>4, TypeParts

LEMMA TypeStep == TypeOK /\ AnswersGranted /\ [Next]_vars => TypeOK'
<1>. SUFFICES ASSUME TypeOK, AnswersGranted, [Next]_vars PROVE TypeOK'
  OBVIOUS
<1>g. AnswersGranted
  OBVIOUS
<1>p. ListsTyped /\ CallsTyped /\ HistoryTyped
  BY TypeParts
<1>q. (ListsTyped /\ CallsTyped /\ HistoryTyped)' => TypeOK'
  BY TypeParts DEF TypeOK, ListsTyped, CallsTyped, HistoryTyped, Copies, Now,
                   Stored
<1>1. CASE BeginNext
  <2>1. PICK c \in Calls :
          \/ RemoveAllPeers(c)
          \/ \E d \in DApps : \/ AddPeer(c, d)
                              \/ RemovePeer(c, d)
                              \/ ReceivePermissionRequest(c, d)
                              \/ RemoveAppMetadata(c, d)
          \/ \E d \in DApps, a \in Accounts : \/ Respond(c, d, a)
                                              \/ RemovePermission(c, d, a)
          \/ \E a \in Accounts : RegisterPush(c, a)
    BY <1>1 DEF BeginNext
  <2>2. CASE RemoveAllPeers(c)
    <3>1. Begin(c, "removeAllPeers", {}, {}, "listPeers")
      BY <2>2 DEF RemoveAllPeers
    <3>. QED
      BY <2>2, <3>1, BeginTyped, <1>p, <1>q
      DEF RemoveAllPeers, CallsTyped, HistoryTyped, Steps
  <2>3. ASSUME NEW d \in DApps, AddPeer(c, d)  PROVE TypeOK'
    <3>1. Begin(c, "addPeer", {d}, {}, "readPeers")
      BY <2>3 DEF AddPeer
    <3>. QED
      BY <2>3, <3>1, BeginTyped, <1>p, <1>q
      DEF AddPeer, CallsTyped, HistoryTyped, Steps
  <2>4. ASSUME NEW d \in DApps, RemovePeer(c, d)  PROVE TypeOK'
    <3>1. Begin(c, "removePeer", {d}, {}, "listPermissions")
      BY <2>4 DEF RemovePeer
    <3>. QED
      BY <2>4, <3>1, BeginTyped, <1>p, <1>q
      DEF RemovePeer, CallsTyped, HistoryTyped, Steps
  <2>5. ASSUME NEW d \in DApps, ReceivePermissionRequest(c, d)  PROVE TypeOK'
    <3>1. Begin(c, "request", {d}, {}, "readMetadata")
      BY <2>5 DEF ReceivePermissionRequest
    <3>. QED
      BY <2>5, <3>1, BeginTyped, <1>p, <1>q
      DEF ReceivePermissionRequest, CallsTyped, HistoryTyped, Steps
  <2>6. ASSUME NEW d \in DApps, RemoveAppMetadata(c, d)  PROVE TypeOK'
    <3>1. Begin(c, "removeAppMetadata", {d}, {}, "readMetadata")
      BY <2>6 DEF RemoveAppMetadata
    <3>. QED
      BY <2>6, <3>1, BeginTyped, <1>p, <1>q
      DEF RemoveAppMetadata, CallsTyped, HistoryTyped, Steps
  <2>7. ASSUME NEW d \in DApps, NEW a \in Accounts, Respond(c, d, a)
        PROVE  TypeOK'
    <3>1. Begin(c, "answer", {d}, {a}, "findMetadata")
      BY <2>7 DEF Respond
    <3>2. [account |-> a, dApp |-> d] \in Permission
      BY DEF Permission
    <3>. QED
      BY <2>7, <3>1, <3>2, BeginTyped, <1>p, <1>q
      DEF Respond, CallsTyped, HistoryTyped, Steps
  <2>8. ASSUME NEW d \in DApps, NEW a \in Accounts, RemovePermission(c, d, a)
        PROVE  TypeOK'
    <3>1. Begin(c, "removePermission", {d}, {a}, "readPermissions")
      BY <2>8 DEF RemovePermission
    <3>. QED
      BY <2>8, <3>1, BeginTyped, <1>p, <1>q
      DEF RemovePermission, CallsTyped, HistoryTyped, Steps
  <2>9. ASSUME NEW a \in Accounts, RegisterPush(c, a)  PROVE TypeOK'
    <3>1. Begin(c, "registerPush", {}, {a}, "readTokens")
      BY <2>9 DEF RegisterPush
    <3>. QED
      BY <2>9, <3>1, BeginTyped, <1>p, <1>q
      DEF RegisterPush, CallsTyped, HistoryTyped, Steps
  <2>. QED
    BY <2>1, <2>2, <2>3, <2>4, <2>5, <2>6, <2>7, <2>8, <2>9
<1>2. CASE PeersNext
  <2>1. PICK c \in Calls :
          \/ ReadPeers(c) \/ StorePeers(c) \/ Listen(c) \/ ListPeers(c)
          \/ ReadPeersToRemove(c) \/ StoreRemainingPeers(c) \/ ClearPeers(c)
          \/ Unsubscribe(c) \/ FinishRemoval(c)
    BY <1>2 DEF PeersNext
  <2>r. read[c] \in Copies /\ op[c] \in Operations
    BY <1>p DEF CallsTyped
  <2>2. CASE ReadPeers(c)
    <3>1. [read[c] EXCEPT !.peers = peers] \in Copies
      BY <1>p, <2>r DEF Copies, ListsTyped
    <3>. QED
      BY <2>2, <3>1, <1>p, <1>q
      DEF ReadPeers, Goes, storedVars, historyVars, ListsTyped, CallsTyped,
          HistoryTyped, Steps
  <2>3. CASE StorePeers(c)
    <3>1. read[c].peers \cup op[c].dApps \subseteq DApps
      BY <2>r DEF Copies, Operations
    <3>. QED
      BY <2>3, <3>1, <1>p, <1>q
      DEF StorePeers, Goes, historyVars, ListsTyped, CallsTyped, HistoryTyped,
          Steps
  <2>4. CASE Listen(c)
    <3>1. op[c].dApps \subseteq DApps
      BY <2>r DEF Operations
    <3>2. Ends(c, "done") /\ "done" \in Steps
      BY <2>4 DEF Listen, Steps
    <3>. QED
      BY <2>4, <3>1, <3>2, EndsTyped, <1>p, <1>q
      DEF Listen, historyVars, ListsTyped, CallsTyped, HistoryTyped
  <2>5. CASE ListPeers(c)
    <3>1. [op[c] EXCEPT !.dApps = peers] \in Operations
      BY <1>p, <2>r DEF Operations, ListsTyped
    <3>. QED
      BY <2>5, <3>1, <1>p, <1>q
      DEF ListPeers, Goes, storedVars, historyVars, ListsTyped, CallsTyped,
          HistoryTyped, Steps
  <2>6. CASE ReadPeersToRemove(c)
    <3>1. [read[c] EXCEPT !.peers = peers] \in Copies
      BY <1>p, <2>r DEF Copies, ListsTyped
    <3>. QED
      BY <2>6, <3>1, <1>p, <1>q
      DEF ReadPeersToRemove, storedVars, historyVars, ListsTyped, CallsTyped,
          HistoryTyped
  <2>7. CASE StoreRemainingPeers(c)
    <3>1. read[c].peers \ op[c].dApps \subseteq DApps
      BY <2>r DEF Copies, Operations
    <3>. QED
      BY <2>7, <3>1, <1>p, <1>q
      DEF StoreRemainingPeers, historyVars, ListsTyped, CallsTyped,
          HistoryTyped
  <2>8. CASE ClearPeers(c)
    BY <2>8, <1>p, <1>q
    DEF ClearPeers, historyVars, ListsTyped, CallsTyped, HistoryTyped
  <2>9. CASE Unsubscribe(c)
    BY <2>9, <1>p, <1>q
    DEF Unsubscribe, historyVars, ListsTyped, CallsTyped, HistoryTyped
  <2>10. CASE FinishRemoval(c)
    <3>1. Ends(c, "done") /\ "done" \in Steps
      BY <2>10 DEF FinishRemoval, Steps
    <3>. QED
      BY <2>10, <3>1, EndsTyped, <1>p, <1>q
      DEF FinishRemoval, storedVars, historyVars, ListsTyped, CallsTyped,
          HistoryTyped
  <2>. QED
    BY <2>1, <2>2, <2>3, <2>4, <2>5, <2>6, <2>7, <2>8, <2>9, <2>10
<1>3. CASE ListsNext
  <2>1. PICK c \in Calls :
          \/ ReadMetadata(c) \/ StoreMetadata(c) \/ FindMetadata(c)
          \/ ListPermissions(c) \/ ReadPermissions(c) \/ StorePermissions(c)
          \/ ReadTokens(c) \/ Register(c) \/ StoreTokens(c)
    BY <1>3 DEF ListsNext
  <2>r. read[c] \in Copies /\ op[c] \in Operations
    BY <1>p DEF CallsTyped
  <2>s. "done" \in Steps /\ "lost" \in Steps
    BY DEF Steps
  <2>2. CASE ReadMetadata(c)
    <3>1. [read[c] EXCEPT !.appMetadata = appMetadata] \in Copies
      BY <1>p, <2>r DEF Copies, ListsTyped
    <3>. QED
      BY <2>2, <3>1, <1>p, <1>q
      DEF ReadMetadata, Goes, storedVars, historyVars, ListsTyped, CallsTyped,
          HistoryTyped, Steps
  <2>3. CASE StoreMetadata(c)
    <3>1. /\ op[c].dApps \subseteq DApps
          /\ read[c].appMetadata \subseteq DApps
      BY <2>r DEF Copies, Operations
    <3>2. Ends(c, "done")
      BY <2>3 DEF StoreMetadata
    <3>. QED
      BY <2>3, <2>s, <3>1, <3>2, EndsTyped, <1>p, <1>q
      DEF StoreMetadata, historyVars, ListsTyped, CallsTyped, HistoryTyped
  <2>4. CASE FindMetadata(c)
    <3>1. CASE Goes(c, "readPermissions") /\ UNCHANGED <<op, read>>
      BY <2>4, <3>1, <1>p, <1>q
      DEF FindMetadata, Goes, storedVars, historyVars, ListsTyped, CallsTyped,
          HistoryTyped, Steps
    <3>2. CASE Ends(c, "done")
      BY <2>4, <2>s, <3>2, EndsTyped, <1>p, <1>q
      DEF FindMetadata, storedVars, historyVars, ListsTyped, CallsTyped,
          HistoryTyped
    <3>. QED
      BY <2>4, <3>1, <3>2 DEF FindMetadata
  <2>5. CASE ListPermissions(c)
    <3>1. [read[c] EXCEPT !.accounts =
             {p.account : p \in {q \in permissions : q.dApp \in op[c].dApps}}]
            \in Copies
      BY <1>p, <2>r DEF Copies, ListsTyped, Permission
    <3>. QED
      BY <2>5, <3>1, <1>p, <1>q
      DEF ListPermissions, Goes, storedVars, historyVars, ListsTyped,
          CallsTyped, HistoryTyped, Steps
  <2>6. CASE ReadPermissions(c)
    <3>1. [read[c] EXCEPT !.permissions = permissions] \in Copies
      BY <1>p, <2>r DEF Copies, ListsTyped
    <3>. QED
      BY <2>6, <3>1, <1>p, <1>q
      DEF ReadPermissions, Goes, storedVars, historyVars, ListsTyped,
          CallsTyped, HistoryTyped, Steps
  <2>7. CASE StorePermissions(c)
    <3>1. CASE op[c].name = "answer"
      <4>1. PICK d \in DApps, a \in Accounts :
              /\ op[c].dApps = {d}
              /\ op[c].accounts = {a}
        BY <3>1, <1>g DEF AnswersGranted
      <4>2. permissions' \subseteq
              read[c].permissions \cup {[account |-> a, dApp |-> d]}
        BY <2>7, <3>1, <4>1 DEF StorePermissions, AddPermission, AddOne
      <4>3. permissions' \subseteq Permission
        BY <2>r, <4>2 DEF Copies, Permission
      <4>4. Ends(c, "done")
        BY <2>7, <3>1 DEF StorePermissions
      <4>. QED
        BY <2>7, <2>s, <4>3, <4>4, EndsTyped, <1>p, <1>q
        DEF StorePermissions, historyVars, ListsTyped, CallsTyped, HistoryTyped
    <3>2. CASE op[c].name # "answer"
      <4>1. permissions' \subseteq read[c].permissions
        BY <2>7, <3>2
        DEF StorePermissions, RemovePermissionOf, RemovePermissions, Remove
      <4>2. permissions' \subseteq Permission
        BY <2>r, <4>1 DEF Copies
      <4>3. CASE Ends(c, "done")
        BY <2>7, <2>s, <4>2, <4>3, EndsTyped, <1>p, <1>q
        DEF StorePermissions, historyVars, ListsTyped, CallsTyped, HistoryTyped
      <4>4. CASE Goes(c, "wait") /\ UNCHANGED <<op, read>>
        BY <2>7, <4>2, <4>4, <1>p, <1>q
        DEF StorePermissions, Goes, historyVars, ListsTyped, CallsTyped,
            HistoryTyped, Steps
      <4>. QED
        BY <2>7, <3>2, <4>3, <4>4 DEF StorePermissions
    <3>. QED
      BY <3>1, <3>2
  <2>8. CASE ReadTokens(c)
    <3>1. CASE Ends(c, "done")
      BY <2>8, <2>s, <3>1, EndsTyped, <1>p, <1>q
      DEF ReadTokens, storedVars, historyVars, ListsTyped, CallsTyped,
          HistoryTyped
    <3>2. CASE /\ read' = [read EXCEPT ![c].pushTokens = pushTokens]
               /\ Goes(c, "register")
               /\ UNCHANGED op
      <4>1. [read[c] EXCEPT !.pushTokens = pushTokens] \in Copies
        BY <1>p, <2>r DEF Copies, ListsTyped
      <4>. QED
        BY <2>8, <3>2, <4>1, <1>p, <1>q
        DEF ReadTokens, Goes, storedVars, historyVars, ListsTyped, CallsTyped,
            HistoryTyped, Steps
    <3>. QED
      BY <2>8, <3>1, <3>2 DEF ReadTokens
  <2>9. CASE Register(c)
    <3>1. CASE Goes(c, "storeTokens") /\ UNCHANGED <<op, read>>
      BY <2>9, <3>1, <1>p, <1>q
      DEF Register, Goes, storedVars, historyVars, ListsTyped, CallsTyped,
          HistoryTyped, Steps
    <3>2. CASE Ends(c, "lost")
      BY <2>9, <2>s, <3>2, EndsTyped, <1>p, <1>q
      DEF Register, storedVars, historyVars, ListsTyped, CallsTyped,
          HistoryTyped
    <3>. QED
      BY <2>9, <3>1, <3>2 DEF Register
  <2>10. CASE StoreTokens(c)
    <3>1. pushTokens' \subseteq Token
      <4>1. pushTokens' = read[c].pushTokens \cup
              {[account |-> a, issuedTo |-> c] : a \in op[c].accounts}
        BY <2>10 DEF StoreTokens
      <4>2. read[c].pushTokens \subseteq Token /\ op[c].accounts \subseteq Accounts
        BY <2>r DEF Copies, Operations
      <4>. QED
        BY <4>1, <4>2 DEF Token
    <3>2. Ends(c, "done")
      BY <2>10 DEF StoreTokens
    <3>. QED
      BY <2>10, <2>s, <3>1, <3>2, EndsTyped, <1>p, <1>q
      DEF StoreTokens, historyVars, ListsTyped, CallsTyped, HistoryTyped
  <2>. QED
    BY <2>1, <2>2, <2>3, <2>4, <2>5, <2>6, <2>7, <2>8, <2>9, <2>10
<1>4. CASE DeleteList
  <2>1. NothingStored \in Stored
    BY DEF NothingStored, Stored
  <2>. QED
    BY <1>4, <2>1, <1>p, <1>q
    DEF DeleteList, Overlaps, ListsTyped, CallsTyped, HistoryTyped
<1>5. CASE Restart
  <2>1. NothingStored \in Stored
    BY DEF NothingStored, Stored
  <2>2. NoOperation \in Operations /\ NothingRead \in Copies
    BY DEF NoOperation, Operations, NothingRead, Copies
  <2>. QED
    BY <1>5, <2>1, <2>2, <1>p, <1>q
    DEF Restart, Overlaps, ListsTyped, CallsTyped, HistoryTyped, Steps
<1>6. CASE UNCHANGED vars
  BY <1>6, <1>p, <1>q
  DEF vars, storedVars, historyVars, ListsTyped, CallsTyped, HistoryTyped
<1>. QED
  BY <1>1, <1>2, <1>3, <1>4, <1>5, <1>6 DEF Next

-----------------------------------------------------------------------------
(***************************************************************************)
(* Permissions                                                             *)
(***************************************************************************)

\* The copies of the list that calls hold are of permissions the user gave.
CopiesGranted == \A c \in Calls : read[c].permissions \subseteq granted

GrantedInv ==
  /\ TypeOK
  /\ AnswersGranted
  /\ PermissionsWereGranted
  /\ CopiesGranted

\* A call that ends takes its copy and its operation with it.
LEMMA EndsKeepsGranted ==
  ASSUME GrantedInv, NEW c \in Calls, NEW end \in Steps, Ends(c, end),
         granted' = granted
  PROVE  AnswersGranted' /\ CopiesGranted'
<1>0. at \in [Calls -> Steps]
  BY TypeParts DEF GrantedInv, CallsTyped
<1>1. op \in [Calls -> Operations] /\ read \in [Calls -> Copies]
  BY TypeParts DEF GrantedInv, CallsTyped
<1>2. NoOperation.name # "answer" /\ NothingRead.permissions = {}
  BY DEF NoOperation, NothingRead
<1>3. AnswersGranted'
  BY <1>0, <1>1, <1>2 DEF GrantedInv, AnswersGranted, Ends, Goes
<1>4. CopiesGranted'
  BY <1>1, <1>2 DEF GrantedInv, CopiesGranted, Ends
<1>. QED
  BY <1>3, <1>4

\* A call that begins holds no copy yet; an answer it begins with is granted.
LEMMA BeginKeepsGranted ==
  ASSUME GrantedInv, NEW c \in Calls, NEW d \in SUBSET DApps,
         NEW a \in SUBSET Accounts, NEW step, NEW name,
         Begin(c, name, d, a, step),
         granted \subseteq granted',
         name = "answer" =>
           /\ step # "listPeers"
           /\ \E e \in DApps, b \in Accounts :
                /\ d = {e}
                /\ a = {b}
                /\ [account |-> b, dApp |-> e] \in granted'
  PROVE  AnswersGranted' /\ PermissionsWereGranted' /\ CopiesGranted'
<1>1. op \in [Calls -> Operations] /\ at \in [Calls -> Steps]
  BY TypeParts DEF GrantedInv, CallsTyped
<1>2. /\ op' = [op EXCEPT ![c] = [name |-> name, dApps |-> d, accounts |-> a]]
      /\ at' = [at EXCEPT ![c] = step]
  BY DEF Begin, Goes
<1>3. read' = read /\ permissions' = permissions
  BY DEF Begin, storedVars
<1>4. AnswersGranted'
  <2>. SUFFICES ASSUME NEW b \in Calls, op'[b].name = "answer"
                PROVE  /\ at'[b] # "listPeers"
                       /\ \E e \in DApps, f \in Accounts :
                            /\ op'[b].dApps = {e}
                            /\ op'[b].accounts = {f}
                            /\ [account |-> f, dApp |-> e] \in granted'
    BY DEF AnswersGranted
  <2>1. CASE b = c
    <3>1. /\ op'[b] = [name |-> name, dApps |-> d, accounts |-> a]
          /\ at'[b] = step
      BY <1>1, <1>2, <2>1
    <3>2. /\ op'[b].name = name
          /\ op'[b].dApps = d
          /\ op'[b].accounts = a
      BY <3>1
    <3>3. PICK e \in DApps, f \in Accounts :
            /\ d = {e}
            /\ a = {f}
            /\ [account |-> f, dApp |-> e] \in granted'
      BY <3>2
    <3>4. step # "listPeers"
      BY <3>2
    <3>. QED
      BY <3>1, <3>2, <3>3, <3>4
  <2>2. CASE b # c
    <3>1. op'[b] = op[b] /\ at'[b] = at[b]
      BY <1>1, <1>2, <2>2
    <3>2. PICK e \in DApps, f \in Accounts :
            /\ op[b].dApps = {e}
            /\ op[b].accounts = {f}
            /\ [account |-> f, dApp |-> e] \in granted
      BY <3>1 DEF GrantedInv, AnswersGranted
    <3>3. at[b] # "listPeers"
      BY <3>1 DEF GrantedInv, AnswersGranted
    <3>. QED
      BY <3>1, <3>2, <3>3
  <2>. QED
    BY <2>1, <2>2
<1>5. PermissionsWereGranted' /\ CopiesGranted'
  BY <1>3 DEF GrantedInv, PermissionsWereGranted, CopiesGranted
<1>. QED
  BY <1>4, <1>5

LEMMA GrantedInit == Init => GrantedInv
<1>. SUFFICES ASSUME Init PROVE GrantedInv
  OBVIOUS
<1>1. AnswersGranted
  BY DEF Init, AnswersGranted, NoOperation
<1>2. PermissionsWereGranted /\ CopiesGranted
  BY DEF Init, PermissionsWereGranted, CopiesGranted, NothingRead
<1>. QED
  BY <1>1, <1>2, TypeInit DEF GrantedInv

LEMMA GrantedStep == GrantedInv /\ [Next]_vars => GrantedInv'
<1>. SUFFICES ASSUME GrantedInv, [Next]_vars PROVE GrantedInv'
  OBVIOUS
<1>p. TypeOK /\ AnswersGranted /\ PermissionsWereGranted /\ CopiesGranted
  BY DEF GrantedInv
<1>t. /\ op \in [Calls -> Operations]
      /\ at \in [Calls -> Steps]
      /\ read \in [Calls -> Copies]
  BY <1>p, TypeParts DEF CallsTyped
<1>q. TypeOK'
  BY <1>p, TypeStep
<1>s. "done" \in Steps /\ "lost" \in Steps
  BY DEF Steps
<1>1. CASE BeginNext
  <2>1. ASSUME NEW c \in Calls, NEW d \in DApps, NEW a \in Accounts,
               Respond(c, d, a)
        PROVE  AnswersGranted' /\ PermissionsWereGranted' /\ CopiesGranted'
    <3>1. /\ Begin(c, "answer", {d}, {a}, "findMetadata")
          /\ granted' = granted \cup {[account |-> a, dApp |-> d]}
      BY <2>1 DEF Respond
    <3>. QED
      BY <3>1, BeginKeepsGranted
  <2>2. ASSUME NEW c \in Calls, NEW d \in SUBSET DApps,
               NEW a \in SUBSET Accounts, NEW step, NEW name,
               Begin(c, name, d, a, step), name # "answer", granted' = granted
        PROVE  AnswersGranted' /\ PermissionsWereGranted' /\ CopiesGranted'
    BY <2>2, BeginKeepsGranted
  <2>3. PICK c \in Calls :
          \/ RemoveAllPeers(c)
          \/ \E d \in DApps : \/ AddPeer(c, d)
                              \/ RemovePeer(c, d)
                              \/ ReceivePermissionRequest(c, d)
                              \/ RemoveAppMetadata(c, d)
          \/ \E d \in DApps, a \in Accounts : \/ Respond(c, d, a)
                                              \/ RemovePermission(c, d, a)
          \/ \E a \in Accounts : RegisterPush(c, a)
    BY <1>1 DEF BeginNext
  <2>4. CASE RemoveAllPeers(c)
    BY <2>2, <2>4, <1>q DEF RemoveAllPeers, GrantedInv
  <2>5. ASSUME NEW d \in DApps, AddPeer(c, d)  PROVE GrantedInv'
    BY <2>2, <2>5, <1>q DEF AddPeer, GrantedInv
  <2>6. ASSUME NEW d \in DApps, RemovePeer(c, d)  PROVE GrantedInv'
    BY <2>2, <2>6, <1>q DEF RemovePeer, GrantedInv
  <2>7. ASSUME NEW d \in DApps, ReceivePermissionRequest(c, d)  PROVE GrantedInv'
    BY <2>2, <2>7, <1>q DEF ReceivePermissionRequest, GrantedInv
  <2>8. ASSUME NEW d \in DApps, RemoveAppMetadata(c, d)  PROVE GrantedInv'
    BY <2>2, <2>8, <1>q DEF RemoveAppMetadata, GrantedInv
  <2>9. ASSUME NEW d \in DApps, NEW a \in Accounts, RemovePermission(c, d, a)
        PROVE  GrantedInv'
    BY <2>2, <2>9, <1>q DEF RemovePermission, GrantedInv
  <2>10. ASSUME NEW a \in Accounts, RegisterPush(c, a)  PROVE GrantedInv'
    BY <2>2, <2>10, <1>q DEF RegisterPush, GrantedInv
  <2>. QED
    BY <2>1, <2>3, <2>4, <2>5, <2>6, <2>7, <2>8, <2>9, <2>10, <1>q
    DEF GrantedInv
<1>2. CASE PeersNext
  <2>1. PICK c \in Calls :
          \/ ReadPeers(c) \/ StorePeers(c) \/ Listen(c) \/ ListPeers(c)
          \/ ReadPeersToRemove(c) \/ StoreRemainingPeers(c) \/ ClearPeers(c)
          \/ Unsubscribe(c) \/ FinishRemoval(c)
    BY <1>2 DEF PeersNext
  <2>2. permissions' = permissions /\ granted' = granted
    BY <2>1 DEF ReadPeers, StorePeers, Listen, ListPeers, ReadPeersToRemove,
                StoreRemainingPeers, ClearPeers, Unsubscribe, FinishRemoval,
                storedVars, historyVars
  <2>3. PermissionsWereGranted'
    BY <2>2, <1>p DEF PermissionsWereGranted
  <2>4. CASE Listen(c) \/ FinishRemoval(c)
    <3>1. Ends(c, "done")
      BY <2>4 DEF Listen, FinishRemoval
    <3>. QED
      BY <3>1, <2>2, <2>3, <1>q, <1>s, EndsKeepsGranted DEF GrantedInv
  <2>5. CASE ListPeers(c)
    <3>1. /\ op' = [op EXCEPT ![c].dApps = peers]
          /\ at' = [at EXCEPT ![c] = "listPermissions"]
          /\ read' = read
      BY <2>5 DEF ListPeers, Goes
    <3>2. op[c].name # "answer"
      BY <2>5, <1>p DEF ListPeers, AnswersGranted
    <3>3. op'[c].name = op[c].name
      BY <3>1, <1>t DEF Operations
    <3>4. \A b \in Calls \ {c} : op'[b] = op[b] /\ at'[b] = at[b]
      BY <3>1, <1>t
    <3>5. AnswersGranted'
      BY <3>2, <3>3, <3>4, <2>2, <1>p DEF AnswersGranted
    <3>6. CopiesGranted'
      BY <3>1, <2>2, <1>p DEF CopiesGranted
    <3>. QED
      BY <3>5, <3>6, <2>3, <1>q DEF GrantedInv
  <2>6. CASE \/ ReadPeers(c) \/ StorePeers(c) \/ ReadPeersToRemove(c)
             \/ StoreRemainingPeers(c) \/ ClearPeers(c) \/ Unsubscribe(c)
    <3>1. op' = op
      BY <2>6 DEF ReadPeers, StorePeers, ReadPeersToRemove,
                  StoreRemainingPeers, ClearPeers, Unsubscribe, storedVars
    <3>2. read' = read \/ read' = [read EXCEPT ![c].peers = peers]
      BY <2>6 DEF ReadPeers, StorePeers, ReadPeersToRemove,
                  StoreRemainingPeers, ClearPeers, Unsubscribe
    <3>3. \A b \in Calls : read'[b].permissions = read[b].permissions
      BY <3>2, <1>t DEF Copies
    <3>4. \A b \in Calls : at'[b] = "listPeers" => at[b] = "listPeers"
      BY <2>6, <1>t DEF ReadPeers, StorePeers, ReadPeersToRemove,
                        StoreRemainingPeers, ClearPeers, Unsubscribe, Goes
    <3>. QED
      BY <3>1, <3>3, <3>4, <2>2, <2>3, <1>p, <1>q
      DEF GrantedInv, AnswersGranted, CopiesGranted
  <2>. QED
    BY <2>1, <2>4, <2>5, <2>6
<1>3. CASE ListsNext
  <2>1. PICK c \in Calls :
          \/ ReadMetadata(c) \/ StoreMetadata(c) \/ FindMetadata(c)
          \/ ListPermissions(c) \/ ReadPermissions(c) \/ StorePermissions(c)
          \/ ReadTokens(c) \/ Register(c) \/ StoreTokens(c)
    BY <1>3 DEF ListsNext
  <2>2. granted' = granted
    BY <2>1 DEF ReadMetadata, StoreMetadata, FindMetadata, ListPermissions,
                ReadPermissions, StorePermissions, ReadTokens, Register,
                StoreTokens, historyVars
  <2>3. PermissionsWereGranted'
    <3>1. CASE StorePermissions(c)
      <4>1. read[c].permissions \subseteq granted
        BY <1>p DEF CopiesGranted
      <4>2. CASE op[c].name = "answer"
        <5>1. PICK d \in DApps, a \in Accounts :
                /\ op[c].dApps = {d}
                /\ op[c].accounts = {a}
                /\ [account |-> a, dApp |-> d] \in granted
          BY <4>2, <1>p DEF AnswersGranted
        <5>2. permissions' \subseteq
                read[c].permissions \cup {[account |-> a, dApp |-> d]}
          BY <3>1, <4>2, <5>1 DEF StorePermissions, AddPermission, AddOne
        <5>. QED
          BY <4>1, <5>1, <5>2, <2>2 DEF PermissionsWereGranted
      <4>3. CASE op[c].name # "answer"
        <5>1. permissions' \subseteq read[c].permissions
          BY <3>1, <4>3
          DEF StorePermissions, RemovePermissionOf, RemovePermissions, Remove
        <5>. QED
          BY <4>1, <5>1, <2>2 DEF PermissionsWereGranted
      <4>. QED
        BY <4>2, <4>3
    <3>2. CASE ~StorePermissions(c)
      <4>1. permissions' = permissions
        BY <2>1, <3>2
        DEF ReadMetadata, StoreMetadata, FindMetadata, ListPermissions,
            ReadPermissions, ReadTokens, Register, StoreTokens, storedVars
      <4>. QED
        BY <4>1, <2>2, <1>p DEF PermissionsWereGranted
    <3>. QED
      BY <3>1, <3>2
  <2>4. CASE \E end \in {"done", "lost"} : Ends(c, end)
    BY <2>4, <2>2, <2>3, <1>q, <1>s, EndsKeepsGranted DEF GrantedInv
  <2>5. CASE ~\E end \in {"done", "lost"} : Ends(c, end)
    <3>1. op' = op
      BY <2>1, <2>5
      DEF ReadMetadata, StoreMetadata, FindMetadata, ListPermissions,
          ReadPermissions, StorePermissions, ReadTokens, Register, StoreTokens
    <3>2. \/ read' = read
          \/ read' = [read EXCEPT ![c].appMetadata = appMetadata]
          \/ read' = [read EXCEPT ![c].accounts =
                        {p.account : p \in {q \in permissions :
                                              q.dApp \in op[c].dApps}}]
          \/ read' = [read EXCEPT ![c].permissions = permissions]
          \/ read' = [read EXCEPT ![c].pushTokens = pushTokens]
      BY <2>1, <2>5
      DEF ReadMetadata, StoreMetadata, FindMetadata, ListPermissions,
          ReadPermissions, StorePermissions, ReadTokens, Register, StoreTokens
    <3>3. \A b \in Calls : \/ read'[b].permissions = read[b].permissions
                           \/ read'[b].permissions = permissions
      BY <3>2, <1>t DEF Copies
    <3>4. CopiesGranted'
      BY <3>3, <2>2, <1>p DEF CopiesGranted, PermissionsWereGranted
    <3>5. \A b \in Calls : at'[b] = "listPeers" => at[b] = "listPeers"
      BY <2>1, <2>5, <1>t
      DEF ReadMetadata, StoreMetadata, FindMetadata, ListPermissions,
          ReadPermissions, StorePermissions, ReadTokens, Register, StoreTokens,
          Goes
    <3>6. AnswersGranted'
      BY <3>1, <3>5, <2>2, <1>p DEF AnswersGranted
    <3>. QED
      BY <3>4, <3>6, <2>3, <1>q DEF GrantedInv
  <2>. QED
    BY <2>4, <2>5
<1>4. CASE DeleteList
  <2>1. UNCHANGED <<op, at, read, granted>> /\ permissions' \subseteq permissions
    BY <1>4 DEF DeleteList
  <2>. QED
    BY <2>1, <1>p, <1>q
    DEF GrantedInv, AnswersGranted, PermissionsWereGranted, CopiesGranted
<1>5. CASE Restart
  <2>1. UNCHANGED <<permissions, granted>>
    BY <1>5 DEF Restart
  <2>2. \A c \in Calls : op'[c].name # "answer" /\ read'[c].permissions = {}
    BY <1>5 DEF Restart, NoOperation, NothingRead
  <2>. QED
    BY <2>1, <2>2, <1>p, <1>q
    DEF GrantedInv, AnswersGranted, PermissionsWereGranted, CopiesGranted
<1>6. CASE UNCHANGED vars
  BY <1>6, <1>p, <1>q
  DEF vars, storedVars, historyVars, GrantedInv, AnswersGranted,
      PermissionsWereGranted, CopiesGranted
<1>. QED
  BY <1>1, <1>2, <1>3, <1>4, <1>5, <1>6 DEF Next

(***************************************************************************)
(* The lists keep their types, and the wallet's permissions are those its  *)
(* user gave, for any dApps and accounts and however many calls overlap.   *)
(***************************************************************************)
THEOREM PermissionsGranted ==
  Spec => [](TypeOK /\ PermissionsWereGranted)
<1>1. GrantedInv => TypeOK /\ PermissionsWereGranted
  BY DEF GrantedInv
<1>. QED
  BY GrantedInit, GrantedStep, <1>1, PTL DEF Spec

-----------------------------------------------------------------------------
(***************************************************************************)
(* Push tokens                                                             *)
(***************************************************************************)

OnePerAccount(tokens) ==
  \A s, t \in tokens : s.account = t.account => s = t

TokenSteps == {"readTokens", "register", "storeTokens"}

(***************************************************************************)
(* A call that asks for a token has read a list without one for its        *)
(* account, however old that list is by now.                               *)
(***************************************************************************)
Registering ==
  \A c \in Calls :
    at[c] \in TokenSteps =>
      \E a \in Accounts :
        /\ op[c].accounts = {a}
        /\ at[c] # "readTokens" =>
             /\ OnePerAccount(read[c].pushTokens)
             /\ \A t \in read[c].pushTokens : t.account # a

TokensInv ==
  /\ TypeOK
  /\ OneTokenPerAccount
  /\ Registering

\* A step that moves no call into, or within, registerPush.
LEMMA RegisteringKept ==
  ASSUME Registering,
         \A b \in Calls : at'[b] \in TokenSteps =>
           /\ at'[b] = at[b]
           /\ op'[b].accounts = op[b].accounts
           /\ read'[b].pushTokens = read[b].pushTokens
  PROVE  Registering'
<1>. SUFFICES ASSUME NEW b \in Calls, at'[b] \in TokenSteps
              PROVE  \E a \in Accounts :
                       /\ op'[b].accounts = {a}
                       /\ at'[b] # "readTokens" =>
                            /\ OnePerAccount(read'[b].pushTokens)
                            /\ \A t \in read'[b].pushTokens : t.account # a
  BY DEF Registering
<1>. QED
  BY DEF Registering

LEMMA TokensInit == Init => TokensInv
BY TypeInit DEF Init, TokensInv, OneTokenPerAccount, Registering, TokenSteps

LEMMA TokensStep == TokensInv /\ AnswersGranted /\ [Next]_vars => TokensInv'
<1>. SUFFICES ASSUME TokensInv, AnswersGranted, [Next]_vars PROVE TokensInv'
  OBVIOUS
<1>p. OneTokenPerAccount /\ Registering
  BY DEF TokensInv
<1>t. /\ op \in [Calls -> Operations]
      /\ at \in [Calls -> Steps]
      /\ read \in [Calls -> Copies]
  BY TypeParts DEF TokensInv, CallsTyped
<1>q. TypeOK'
  BY TypeStep DEF TokensInv
<1>1. CASE BeginNext
  <2>1. pushTokens' = pushTokens
    BY <1>1 DEF BeginNext, RemoveAllPeers, AddPeer, RemovePeer,
                ReceivePermissionRequest, RemoveAppMetadata, Respond,
                RemovePermission, RegisterPush, Begin, storedVars
  <2>2. ASSUME NEW c \in Calls, NEW name, NEW d, NEW a, NEW step,
               Begin(c, name, d, a, step),
               step \in TokenSteps => /\ step = "readTokens"
                                      /\ \E b \in Accounts : a = {b}
        PROVE  Registering'
    <3>1. /\ op' = [op EXCEPT ![c] = [name |-> name, dApps |-> d,
                                      accounts |-> a]]
          /\ at' = [at EXCEPT ![c] = step]
          /\ read' = read
      BY <2>2 DEF Begin, Goes
    <3>2. \A b \in Calls \ {c} : op'[b] = op[b] /\ at'[b] = at[b]
      BY <3>1, <1>t
    <3>3. at'[c] = step /\ op'[c].accounts = a
      BY <3>1, <1>t
    <3>4. ASSUME NEW b \in Calls, at'[b] \in TokenSteps, b # c
          PROVE  \E f \in Accounts :
                   /\ op'[b].accounts = {f}
                   /\ at'[b] # "readTokens" =>
                        /\ OnePerAccount(read'[b].pushTokens)
                        /\ \A t \in read'[b].pushTokens : t.account # f
      <4>1. op'[b] = op[b] /\ at'[b] = at[b] /\ read'[b] = read[b]
        BY <3>1, <3>2, <3>4
      <4>. QED
        BY <4>1, <3>4, <1>p DEF Registering
    <3>5. ASSUME at'[c] \in TokenSteps
          PROVE  \E f \in Accounts : /\ op'[c].accounts = {f}
                                     /\ at'[c] = "readTokens"
      BY <2>2, <3>3, <3>5
    <3>. QED
      BY <3>4, <3>5 DEF Registering
  <2>3. PICK c \in Calls :
          \/ RemoveAllPeers(c)
          \/ \E d \in DApps : \/ AddPeer(c, d)
                              \/ RemovePeer(c, d)
                              \/ ReceivePermissionRequest(c, d)
                              \/ RemoveAppMetadata(c, d)
          \/ \E d \in DApps, a \in Accounts : \/ Respond(c, d, a)
                                              \/ RemovePermission(c, d, a)
          \/ \E a \in Accounts : RegisterPush(c, a)
    BY <1>1 DEF BeginNext
  <2>4. ASSUME RemoveAllPeers(c)  PROVE Registering'
    <3>1. Begin(c, "removeAllPeers", {}, {}, "listPeers")
      BY <2>4 DEF RemoveAllPeers
    <3>. QED
      BY <2>2, <3>1 DEF TokenSteps
  <2>5. ASSUME NEW d \in DApps, AddPeer(c, d)  PROVE Registering'
    <3>1. Begin(c, "addPeer", {d}, {}, "readPeers")
      BY <2>5 DEF AddPeer
    <3>. QED
      BY <2>2, <3>1 DEF TokenSteps
  <2>6. ASSUME NEW d \in DApps, RemovePeer(c, d)  PROVE Registering'
    <3>1. Begin(c, "removePeer", {d}, {}, "listPermissions")
      BY <2>6 DEF RemovePeer
    <3>. QED
      BY <2>2, <3>1 DEF TokenSteps
  <2>7. ASSUME NEW d \in DApps, ReceivePermissionRequest(c, d)
        PROVE  Registering'
    <3>1. Begin(c, "request", {d}, {}, "readMetadata")
      BY <2>7 DEF ReceivePermissionRequest
    <3>. QED
      BY <2>2, <3>1 DEF TokenSteps
  <2>8. ASSUME NEW d \in DApps, RemoveAppMetadata(c, d)
        PROVE  Registering'
    <3>1. Begin(c, "removeAppMetadata", {d}, {}, "readMetadata")
      BY <2>8 DEF RemoveAppMetadata
    <3>. QED
      BY <2>2, <3>1 DEF TokenSteps
  <2>9. ASSUME NEW d \in DApps, NEW a \in Accounts, Respond(c, d, a)
        PROVE  Registering'
    <3>1. Begin(c, "answer", {d}, {a}, "findMetadata")
      BY <2>9 DEF Respond
    <3>. QED
      BY <2>2, <3>1 DEF TokenSteps
  <2>10. ASSUME NEW d \in DApps, NEW a \in Accounts, RemovePermission(c, d, a)
        PROVE  Registering'
    <3>1. Begin(c, "removePermission", {d}, {a}, "readPermissions")
      BY <2>10 DEF RemovePermission
    <3>. QED
      BY <2>2, <3>1 DEF TokenSteps
  <2>11. ASSUME NEW a \in Accounts, RegisterPush(c, a)  PROVE Registering'
    <3>1. Begin(c, "registerPush", {}, {a}, "readTokens")
      BY <2>11 DEF RegisterPush
    <3>2. \E b \in Accounts : {a} = {b}
      OBVIOUS
    <3>. QED
      BY <2>2, <3>1, <3>2
  <2>12. Registering'
    BY <2>3, <2>4, <2>5, <2>6, <2>7, <2>8, <2>9, <2>10, <2>11
  <2>. QED
    BY <2>1, <2>12, <1>p, <1>q DEF TokensInv, OneTokenPerAccount
<1>2. CASE PeersNext
  <2>1. PICK c \in Calls :
          \/ ReadPeers(c) \/ StorePeers(c) \/ Listen(c) \/ ListPeers(c)
          \/ ReadPeersToRemove(c) \/ StoreRemainingPeers(c) \/ ClearPeers(c)
          \/ Unsubscribe(c) \/ FinishRemoval(c)
    BY <1>2 DEF PeersNext
  <2>2. pushTokens' = pushTokens
    BY <2>1 DEF ReadPeers, StorePeers, Listen, ListPeers, ReadPeersToRemove,
                StoreRemainingPeers, ClearPeers, Unsubscribe, FinishRemoval,
                storedVars
  <2>3. \/ at' = at
        \/ \E step \in Steps \ TokenSteps : at' = [at EXCEPT ![c] = step]
    BY <2>1 DEF ReadPeers, StorePeers, Listen, ListPeers, ReadPeersToRemove,
                StoreRemainingPeers, ClearPeers, Unsubscribe, FinishRemoval,
                Ends, Goes, Steps, TokenSteps
  <2>4. \/ op' = op
        \/ op' = [op EXCEPT ![c].dApps = peers]
        \/ op' = [op EXCEPT ![c] = NoOperation] /\ at'[c] \notin TokenSteps
    BY <2>1, <1>t
    DEF ReadPeers, StorePeers, Listen, ListPeers, ReadPeersToRemove,
        StoreRemainingPeers, ClearPeers, Unsubscribe, FinishRemoval, Ends, Goes,
        storedVars, TokenSteps
  <2>5. \/ read' = read
        \/ read' = [read EXCEPT ![c].peers = peers]
        \/ read' = [read EXCEPT ![c] = NothingRead] /\ at'[c] \notin TokenSteps
    BY <2>1, <1>t
    DEF ReadPeers, StorePeers, Listen, ListPeers, ReadPeersToRemove,
        StoreRemainingPeers, ClearPeers, Unsubscribe, FinishRemoval, Ends, Goes,
        TokenSteps
  <2>6. \A b \in Calls : at'[b] \in TokenSteps => at'[b] = at[b]
    BY <2>3, <1>t
  <2>7. \A b \in Calls : at'[b] \in TokenSteps =>
          op'[b].accounts = op[b].accounts
    BY <2>4, <1>t DEF Operations
  <2>8. \A b \in Calls : at'[b] \in TokenSteps =>
          read'[b].pushTokens = read[b].pushTokens
    BY <2>5, <1>t DEF Copies
  <2>. QED
    BY <2>2, <2>6, <2>7, <2>8, <1>p, <1>q, RegisteringKept
    DEF TokensInv, OneTokenPerAccount
<1>3. CASE ListsNext
  <2>1. PICK c \in Calls :
          \/ ReadMetadata(c) \/ StoreMetadata(c) \/ FindMetadata(c)
          \/ ListPermissions(c) \/ ReadPermissions(c) \/ StorePermissions(c)
          \/ ReadTokens(c) \/ Register(c) \/ StoreTokens(c)
    BY <1>3 DEF ListsNext
  <2>2. ASSUME NEW end \in {"done", "lost"}, Ends(c, end)
        PROVE  Registering'
    <3>1. \A b \in Calls \ {c} : /\ at'[b] = at[b]
                                 /\ op'[b] = op[b]
                                 /\ read'[b] = read[b]
      BY <2>2, <1>t DEF Ends, Goes
    <3>2. at'[c] \notin TokenSteps
      BY <2>2, <1>t DEF Ends, Goes, TokenSteps
    <3>. QED
      BY <3>1, <3>2, <1>p, RegisteringKept
  <2>3. CASE StoreTokens(c)
    <3>1. PICK a \in Accounts :
            /\ op[c].accounts = {a}
            /\ OnePerAccount(read[c].pushTokens)
            /\ \A t \in read[c].pushTokens : t.account # a
      BY <2>3, <1>p DEF StoreTokens, Registering, TokenSteps
    <3>2. pushTokens' = read[c].pushTokens \cup
                          {[account |-> a, issuedTo |-> c]}
      BY <2>3, <3>1 DEF StoreTokens
    <3>3. OneTokenPerAccount'
      BY <3>1, <3>2 DEF OneTokenPerAccount, OnePerAccount
    <3>. QED
      BY <2>2, <2>3, <3>3, <1>q DEF StoreTokens, TokensInv
  <2>4. CASE ReadTokens(c) /\ ~Ends(c, "done")
    <3>1. /\ \A t \in pushTokens : t.account \notin op[c].accounts
          /\ read' = [read EXCEPT ![c].pushTokens = pushTokens]
          /\ at' = [at EXCEPT ![c] = "register"]
          /\ op' = op
          /\ pushTokens' = pushTokens
          /\ at[c] = "readTokens"
      BY <2>4 DEF ReadTokens, Goes, storedVars
    <3>2. PICK a \in Accounts : op[c].accounts = {a}
      BY <3>1, <1>p DEF Registering, TokenSteps
    <3>3. /\ read'[c].pushTokens = pushTokens
          /\ \A b \in Calls \ {c} : read'[b] = read[b] /\ at'[b] = at[b]
      BY <3>1, <1>t DEF Copies
    <3>4. OnePerAccount(pushTokens)
      BY <1>p DEF OneTokenPerAccount, OnePerAccount
    <3>5. Registering'
      BY <3>1, <3>2, <3>3, <3>4, <1>p DEF Registering
    <3>. QED
      BY <3>1, <3>5, <1>p, <1>q DEF TokensInv, OneTokenPerAccount
  <2>5. CASE Register(c) /\ ~Ends(c, "lost")
    <3>1. /\ at' = [at EXCEPT ![c] = "storeTokens"]
          /\ op' = op /\ read' = read /\ pushTokens' = pushTokens
          /\ at[c] = "register"
      BY <2>5 DEF Register, Goes, storedVars
    <3>2. at'[c] = "storeTokens" /\ \A b \in Calls \ {c} : at'[b] = at[b]
      BY <3>1, <1>t
    <3>3. Registering'
      BY <3>1, <3>2, <1>p DEF Registering, TokenSteps
    <3>. QED
      BY <3>1, <3>3, <1>p, <1>q DEF TokensInv, OneTokenPerAccount
  <2>6. CASE (ReadTokens(c) /\ Ends(c, "done")) \/ (Register(c) /\ Ends(c, "lost"))
    <3>1. pushTokens' = pushTokens
      BY <2>6 DEF ReadTokens, Register, storedVars
    <3>. QED
      BY <2>2, <2>6, <3>1, <1>p, <1>q DEF TokensInv, OneTokenPerAccount
  <2>7. CASE \/ ReadMetadata(c) \/ StoreMetadata(c) \/ FindMetadata(c)
             \/ ListPermissions(c) \/ ReadPermissions(c) \/ StorePermissions(c)
    <3>1. pushTokens' = pushTokens
      BY <2>7 DEF ReadMetadata, StoreMetadata, FindMetadata, ListPermissions,
                  ReadPermissions, StorePermissions, storedVars
    <3>2. CASE Ends(c, "done")
      BY <2>2, <3>1, <3>2, <1>p, <1>q DEF TokensInv, OneTokenPerAccount
    <3>3. CASE ~Ends(c, "done")
      <4>1. /\ op' = op
            /\ \E step \in Steps \ TokenSteps : at' = [at EXCEPT ![c] = step]
        BY <2>7, <3>3
        DEF ReadMetadata, StoreMetadata, FindMetadata, ListPermissions,
            ReadPermissions, StorePermissions, Goes, Steps, TokenSteps
      <4>2. \/ read' = read
            \/ read' = [read EXCEPT ![c].appMetadata = appMetadata]
            \/ read' = [read EXCEPT ![c].accounts =
                          {p.account : p \in {q \in permissions :
                                                q.dApp \in op[c].dApps}}]
            \/ read' = [read EXCEPT ![c].permissions = permissions]
        BY <2>7, <3>3
        DEF ReadMetadata, StoreMetadata, FindMetadata, ListPermissions,
            ReadPermissions, StorePermissions
      <4>3. \A b \in Calls : read'[b].pushTokens = read[b].pushTokens
        BY <4>2, <1>t DEF Copies
      <4>4. \A b \in Calls : at'[b] \in TokenSteps => at'[b] = at[b]
        BY <4>1, <1>t
      <4>. QED
        BY <3>1, <4>1, <4>3, <4>4, <1>p, <1>q, RegisteringKept
        DEF TokensInv, OneTokenPerAccount
    <3>. QED
      BY <3>2, <3>3
  <2>. QED
    BY <2>1, <2>3, <2>4, <2>5, <2>6, <2>7
<1>4. CASE DeleteList \/ UNCHANGED vars
  <2>1. UNCHANGED <<op, at, read, pushTokens>>
    BY <1>4 DEF DeleteList, vars, storedVars
  <2>. QED
    BY <2>1, <1>p, <1>q, RegisteringKept DEF TokensInv, OneTokenPerAccount
<1>5. CASE Restart
  <2>1. pushTokens' = pushTokens /\ \A b \in Calls : at'[b] \notin TokenSteps
    BY <1>5, <1>t DEF Restart, Running, TokenSteps, Steps
  <2>. QED
    BY <2>1, <1>p, <1>q, RegisteringKept DEF TokensInv, OneTokenPerAccount
<1>. QED
  BY <1>1, <1>2, <1>3, <1>4, <1>5 DEF Next

(***************************************************************************)
(* However many calls of registerPush overlap, and whichever of them fail  *)
(* or are cut off by a restart, no account has two tokens.                 *)
(***************************************************************************)
THEOREM OneTokenEach == Spec => []OneTokenPerAccount
<1>1. Init => GrantedInv /\ TokensInv
  BY GrantedInit, TokensInit
<1>2. GrantedInv /\ TokensInv /\ [Next]_vars => GrantedInv' /\ TokensInv'
  BY GrantedStep, TokensStep DEF GrantedInv
<1>3. TokensInv => OneTokenPerAccount
  BY DEF TokensInv
<1>. QED
  BY <1>1, <1>2, <1>3, PTL DEF Spec

-----------------------------------------------------------------------------
(***************************************************************************)
(* Calls that nothing overlaps                                             *)
(***************************************************************************)

\* A call may have to wait for the removal of peers that it began.
RemovalSteps == {"listPermissions", "readPermissions", "storePermissions", "wait"}

RemovalsRun ==
  \A c \in Calls :
    /\ peersAt[c] # "none" => /\ at[c] \in RemovalSteps
                              /\ op[c].name \in {"removePeer", "removeAllPeers"}
    /\ at[c] = "listPeers" => op[c].name = "removeAllPeers"

\* A call that adds a peer has written it, and then listens to it.
AddingPeer(c) ==
  /\ at[c] \in {"readPeers", "storePeers", "listen"}
  /\ at[c] = "storePeers" => read[c].peers = before.peers
  /\ peers = IF at[c] = "listen" THEN before.peers \cup op[c].dApps ELSE before.peers
  /\ heard = before.heard /\ appMetadata = before.appMetadata
  /\ permissions = before.permissions /\ pushTokens = before.pushTokens

\* The other calls write once, and end with that.
ChangingMetadata(c) ==
  /\ at[c] \in {"readMetadata", "storeMetadata"} /\ Now = before
  /\ at[c] = "storeMetadata" => read[c].appMetadata = before.appMetadata

ChangingPermission(c) ==
  /\ at[c] \in {"findMetadata", "readPermissions", "storePermissions"} /\ Now = before
  /\ op[c].name = "answer" /\ at[c] # "findMetadata" => op[c].dApps \subseteq before.appMetadata
  /\ op[c].name = "removePermission" => at[c] # "findMetadata"
  /\ at[c] = "storePermissions" => read[c].permissions = before.permissions
  /\ \E d \in DApps, a \in Accounts : op[c].dApps = {d} /\ op[c].accounts = {a}

AskingForToken(c) ==
  /\ at[c] \in {"readTokens", "register", "storeTokens"} /\ Now = before
  /\ at[c] # "readTokens" => /\ read[c].pushTokens = before.pushTokens
                             /\ \A t \in before.pushTokens : t.account \notin op[c].accounts

\* The peers a call removes, and the accounts of their permissions.
Gone(c) == IF op[c].name = "removeAllPeers" THEN before.peers ELSE op[c].dApps
Held(c) == {p.account : p \in {q \in before.permissions : q.dApp \in Gone(c)}}

\* A removal of peers does two things side by side.
RemovingPeers(c) ==
  /\ at[c] \in {"listPeers", "listPermissions", "readPermissions", "storePermissions", "wait"}
  /\ at[c] = "listPeers" => op[c].name = "removeAllPeers" /\ peersAt[c] = "none" /\ Now = before
  /\ at[c] # "listPeers" =>
       /\ op[c].dApps = Gone(c)
       /\ peersAt[c] = "clear" => op[c].name = "removeAllPeers"
       /\ peersAt[c] = "store" => read[c].peers = before.peers
       /\ peers = IF peersAt[c] \in {"unsubscribe", "none"} THEN before.peers \ Gone(c) ELSE before.peers
       /\ heard = IF peersAt[c] # "none" THEN before.heard
                  ELSE IF op[c].name = "removePeer" THEN before.heard \ Gone(c) ELSE {}
       /\ at[c] \in {"readPermissions", "storePermissions"} => read[c].accounts = Held(c)
       /\ at[c] = "storePermissions" => read[c].permissions = before.permissions
       /\ permissions = IF at[c] = "wait" THEN {p \in before.permissions : p.account \notin Held(c)}
                        ELSE before.permissions
       /\ appMetadata = before.appMetadata /\ pushTokens = before.pushTokens

Progress(c) ==
  \/ op[c].name = "addPeer" /\ AddingPeer(c)
  \/ op[c].name \in {"request", "removeAppMetadata"} /\ ChangingMetadata(c)
  \/ op[c].name \in {"answer", "removePermission"} /\ ChangingPermission(c)
  \/ op[c].name = "registerPush" /\ AskingForToken(c)
  \/ op[c].name \in {"removePeer", "removeAllPeers"} /\ RemovingPeers(c)

\* While a call is alone no other call runs, and what is stored is what the call has made of it so far.
AloneInv ==
  /\ RemovalsRun
  /\ \A c \in alone : /\ \A b \in Calls : b # c => ~Running(b)
                      /\ Running(c) => Progress(c)

LEMMA AloneInit == Init => AloneInv
BY DEF Init, AloneInv, RemovalsRun

\* A call that takes a step is the one that is alone, if one is.
LEMMA CallSteps ==
  ASSUME TypeOK, AloneInv, NEW c \in Calls, Running(c), UNCHANGED <<alone, before>>,
         \A b \in Calls : b # c => /\ at'[b] = at[b] /\ peersAt'[b] = peersAt[b]
                                   /\ op'[b].name = op[b].name \/ ~Running(b),
         peersAt'[c] # "none" => at'[c] \in RemovalSteps /\ op'[c].name \in {"removePeer", "removeAllPeers"},
         at'[c] # "listPeers" \/ op'[c].name = "removeAllPeers",
         c \in alone /\ Progress(c) /\ Running(c)' => Progress(c)'
  PROVE  AloneInv'
<1>1. alone \subseteq {c} /\ alone \subseteq Calls
  BY DEF AloneInv, TypeOK
<1>2. RemovalsRun'
  BY DEF AloneInv, RemovalsRun, RemovalSteps, Running
<1>3. c \in alone => \A b \in Calls : b # c => ~Running(b)'
  BY DEF AloneInv, Running
<1>4. c \in alone /\ Running(c)' => Progress(c)'
  BY DEF AloneInv
<1>. QED
  BY <1>1, <1>2, <1>3, <1>4 DEF AloneInv

\* A call that begins is alone if no other runs.
LEMMA BeginsAlone ==
  ASSUME TypeOK, AloneInv, NEW c \in Calls, NEW name, NEW dApps, NEW accounts,
         NEW step \in Steps \ {"idle", "done", "lost"}, Begin(c, name, dApps, accounts, step),
         \A b \in Calls : b # c => peersAt'[b] = peersAt[b],
         peersAt'[c] # peersAt[c] => step \in RemovalSteps /\ name \in {"removePeer", "removeAllPeers"},
         step # "listPeers" \/ name = "removeAllPeers",
         /\ at'[c] = step /\ op'[c] = [name |-> name, dApps |-> dApps, accounts |-> accounts]
         /\ peersAt[c] = "none" /\ Now' = before'
         => Progress(c)'
  PROVE  AloneInv'
<1>1. /\ at[c] = "idle" /\ ~Running(c) /\ peersAt[c] = "none"
      /\ at'[c] = step /\ op'[c] = [name |-> name, dApps |-> dApps, accounts |-> accounts]
      /\ \A b \in Calls : b # c => at'[b] = at[b] /\ op'[b] = op[b]
  BY DEF Begin, Goes, TypeOK, AloneInv, RemovalsRun, RemovalSteps, Running
<1>2. RemovalsRun'
  BY <1>1 DEF AloneInv, RemovalsRun, Running
<1>3. CASE \E b \in Calls : Running(b)
  BY <1>2, <1>3 DEF Begin, Overlaps, AloneInv
<1>4. CASE ~\E b \in Calls : Running(b)
  <2>1. alone' = {c} /\ before' = Now /\ Now' = Now
    BY <1>4 DEF Begin, Now, storedVars
  <2>2. \A b \in Calls : b # c => ~Running(b)'
    BY <1>1, <1>4 DEF Running
  <2>. QED
    BY <1>1, <1>2, <2>1, <2>2 DEF AloneInv
<1>. QED
  BY <1>3, <1>4

\* A call that ends leaves nothing to be shown.
LEMMA EndsAlone ==
  ASSUME TypeOK, AloneInv, NEW c \in Calls, Running(c), NEW end \in {"done", "lost"}, Ends(c, end),
         peersAt[c] = "none", UNCHANGED <<alone, before, peersAt>>
  PROVE  AloneInv'
<1>1. /\ at'[c] = end /\ \A b \in Calls : b # c => at'[b] = at[b] /\ op'[b] = op[b]
  BY DEF Ends, Goes, TypeOK
<1>2. ~Running(c)'
  BY <1>1 DEF Running
<1>. QED
  BY <1>1, <1>2, CallSteps

\* Only a removal of peers does two things at once.
LEMMA OneThing ==
  ASSUME AloneInv, NEW c \in Calls, op[c].name \notin {"removePeer", "removeAllPeers"}
  PROVE  peersAt[c] = "none"
BY DEF AloneInv, RemovalsRun

LEMMA BeginsKeepAlone == TypeOK /\ AloneInv /\ BeginNext => AloneInv'
<1>. SUFFICES ASSUME TypeOK, AloneInv, NEW c \in Calls PROVE
       /\ RemoveAllPeers(c) => AloneInv'
       /\ \A d \in DApps : /\ AddPeer(c, d) \/ RemovePeer(c, d) => AloneInv'
                           /\ ReceivePermissionRequest(c, d) \/ RemoveAppMetadata(c, d) => AloneInv'
       /\ \A d \in DApps, a \in Accounts : Respond(c, d, a) \/ RemovePermission(c, d, a) => AloneInv'
       /\ \A a \in Accounts : RegisterPush(c, a) => AloneInv'
  BY DEF BeginNext
<1>0. {"readPeers", "listPermissions", "listPeers", "readMetadata", "findMetadata", "readPermissions",
       "readTokens"} \subseteq Steps \ {"idle", "done", "lost"}
  BY DEF Steps
<1>1. ASSUME RemoveAllPeers(c) PROVE AloneInv'
  <2>1. Begin(c, "removeAllPeers", {}, {}, "listPeers") /\ UNCHANGED peersAt
    BY <1>1 DEF RemoveAllPeers
  <2>2. /\ at'[c] = "listPeers" /\ op'[c] = [name |-> "removeAllPeers", dApps |-> {}, accounts |-> {}]
        /\ peersAt[c] = "none" /\ Now' = before'
        => Progress(c)'
    BY <2>1 DEF Progress, RemovingPeers
  <2>. QED
    BY <1>0, <2>1, <2>2, BeginsAlone
<1>2. ASSUME NEW d \in DApps, AddPeer(c, d) PROVE AloneInv'
  <2>1. Begin(c, "addPeer", {d}, {}, "readPeers") /\ UNCHANGED peersAt
    BY <1>2 DEF AddPeer
  <2>2. /\ at'[c] = "readPeers" /\ op'[c] = [name |-> "addPeer", dApps |-> {d}, accounts |-> {}]
        /\ peersAt[c] = "none" /\ Now' = before'
        => Progress(c)'
    BY DEF Progress, AddingPeer, Now
  <2>. QED
    BY <1>0, <2>1, <2>2, BeginsAlone
<1>3. ASSUME NEW d \in DApps, RemovePeer(c, d) PROVE AloneInv'
  <2>1. /\ Begin(c, "removePeer", {d}, {}, "listPermissions")
        /\ peersAt' = [peersAt EXCEPT ![c] = "read"]
    BY <1>3 DEF RemovePeer
  <2>2. peersAt'[c] = "read" /\ \A b \in Calls : b # c => peersAt'[b] = peersAt[b]
    BY <2>1 DEF TypeOK
  <2>3. /\ at'[c] = "listPermissions" /\ op'[c] = [name |-> "removePeer", dApps |-> {d}, accounts |-> {}]
        /\ peersAt[c] = "none" /\ Now' = before'
        => Progress(c)'
    BY <2>2 DEF Progress, RemovingPeers, Gone, Now
  <2>. QED
    BY <1>0, <2>1, <2>2, <2>3, BeginsAlone DEF RemovalSteps
<1>4. ASSUME NEW d \in DApps, NEW name \in {"request", "removeAppMetadata"},
             Begin(c, name, {d}, {}, "readMetadata"), UNCHANGED peersAt
      PROVE  AloneInv'
  <2>1. /\ at'[c] = "readMetadata" /\ op'[c] = [name |-> name, dApps |-> {d}, accounts |-> {}]
        /\ peersAt[c] = "none" /\ Now' = before'
        => Progress(c)'
    BY DEF Progress, ChangingMetadata
  <2>. QED
    BY <1>0, <1>4, <2>1, BeginsAlone
<1>5. ASSUME NEW d \in DApps, NEW a \in Accounts, NEW name, NEW step, UNCHANGED peersAt,
             \/ name = "answer" /\ step = "findMetadata"
             \/ name = "removePermission" /\ step = "readPermissions",
             Begin(c, name, {d}, {a}, step)
      PROVE  AloneInv'
  <2>1. /\ at'[c] = step /\ op'[c] = [name |-> name, dApps |-> {d}, accounts |-> {a}]
        /\ peersAt[c] = "none" /\ Now' = before'
        => Progress(c)'
    BY <1>5 DEF Progress, ChangingPermission
  <2>2. step \in Steps \ {"idle", "done", "lost"}
    BY <1>0, <1>5
  <2>. QED
    BY <1>5, <2>1, <2>2, BeginsAlone
<1>6. ASSUME NEW a \in Accounts, RegisterPush(c, a) PROVE AloneInv'
  <2>1. Begin(c, "registerPush", {}, {a}, "readTokens") /\ UNCHANGED peersAt
    BY <1>6 DEF RegisterPush
  <2>2. /\ at'[c] = "readTokens" /\ op'[c] = [name |-> "registerPush", dApps |-> {}, accounts |-> {a}]
        /\ peersAt[c] = "none" /\ Now' = before'
        => Progress(c)'
    BY DEF Progress, AskingForToken
  <2>. QED
    BY <1>0, <2>1, <2>2, BeginsAlone
<1>. QED
  BY <1>1, <1>2, <1>3, <1>4, <1>5, <1>6
  DEF ReceivePermissionRequest, RemoveAppMetadata, Respond, RemovePermission

\* The variables of a call that takes a step, and those of the others.
LEMMA StepsTyped ==
  ASSUME TypeOK
  PROVE  /\ op \in [Calls -> Operations] /\ at \in [Calls -> Steps] /\ read \in [Calls -> Copies]
         /\ peersAt \in [Calls -> {"none", "read", "store", "clear", "unsubscribe"}]
BY DEF TypeOK, Copies

LEMMA PeersKeepAlone == TypeOK /\ AloneInv /\ PeersNext => AloneInv'
<1>. SUFFICES ASSUME TypeOK, AloneInv, NEW c \in Calls PROVE
       /\ ReadPeers(c) \/ StorePeers(c) \/ Listen(c) => AloneInv'
       /\ ListPeers(c) \/ ReadPeersToRemove(c) \/ StoreRemainingPeers(c) => AloneInv'
       /\ ClearPeers(c) \/ Unsubscribe(c) \/ FinishRemoval(c) => AloneInv'
  BY DEF PeersNext
<1>r. /\ peersAt[c] # "none" => at[c] \in RemovalSteps /\ op[c].name \in {"removePeer", "removeAllPeers"}
      /\ at[c] = "listPeers" => op[c].name = "removeAllPeers"
  BY DEF AloneInv, RemovalsRun
<1>n. peersAt[c] # "none" => at[c] \notin {"readPeers", "storePeers", "listen", "listPeers"}
  BY <1>r DEF RemovalSteps
<1>1. ASSUME ReadPeers(c) PROVE AloneInv'
  <2>1. /\ at[c] = "readPeers" /\ at'[c] = "storePeers" /\ read'[c].peers = peers
        /\ \A b \in Calls : b # c => at'[b] = at[b]
        /\ UNCHANGED <<storedVars, op, peersAt, alone, before>>
    BY <1>1, StepsTyped DEF ReadPeers, Goes, historyVars, Copies
  <2>2. Progress(c) => Progress(c)'
    BY <2>1 DEF Progress, AddingPeer, ChangingMetadata, ChangingPermission, AskingForToken,
                RemovingPeers, storedVars
  <2>. QED
    BY <1>n, <2>1, <2>2, CallSteps DEF Running
<1>2. ASSUME StorePeers(c) PROVE AloneInv'
  <2>1. /\ at[c] = "storePeers" /\ at'[c] = "listen" /\ peers' = read[c].peers \cup op[c].dApps
        /\ \A b \in Calls : b # c => at'[b] = at[b]
        /\ UNCHANGED <<appMetadata, permissions, pushTokens, heard, op, peersAt, alone, before>>
    BY <1>2, StepsTyped DEF StorePeers, Goes, historyVars
  <2>2. Progress(c) => Progress(c)'
    BY <2>1 DEF Progress, AddingPeer, ChangingMetadata, ChangingPermission, AskingForToken,
                RemovingPeers
  <2>. QED
    BY <1>n, <2>1, <2>2, CallSteps DEF Running
<1>3. ASSUME Listen(c) PROVE AloneInv'
  BY <1>3, <1>n, EndsAlone DEF Listen, Running, historyVars
<1>4. ASSUME ListPeers(c) PROVE AloneInv'
  <2>1. /\ at[c] = "listPeers" /\ at'[c] = "listPermissions" /\ peersAt'[c] = "clear"
        /\ op'[c].name = op[c].name /\ op'[c].dApps = peers
        /\ \A b \in Calls : b # c => /\ at'[b] = at[b] /\ peersAt'[b] = peersAt[b]
                                     /\ op'[b] = op[b]
        /\ UNCHANGED <<storedVars, read, alone, before>>
    BY <1>4, StepsTyped DEF ListPeers, Goes, historyVars, Operations
  <2>2. Progress(c) => Progress(c)'
    <3>. SUFFICES ASSUME Progress(c) PROVE RemovingPeers(c)'
      BY <1>r, <2>1 DEF Progress
    <3>1. RemovingPeers(c)
      BY <1>r, <2>1 DEF Progress
    <3>2. Now = before
      BY <2>1, <3>1 DEF RemovingPeers
    <3>. QED
      BY <1>r, <2>1, <3>1, <3>2 DEF RemovingPeers, Gone, Now, storedVars
  <2>. QED
    BY <1>r, <2>1, <2>2, CallSteps DEF Running, RemovalSteps
<1>p. ASSUME peersAt[c] # "none", Progress(c) PROVE RemovingPeers(c) /\ at[c] # "listPeers"
  BY <1>r, <1>n, <1>p DEF Progress
<1>5. ASSUME ReadPeersToRemove(c) PROVE AloneInv'
  <2>1. /\ peersAt[c] = "read" /\ peersAt'[c] = "store" /\ read'[c].peers = peers
        /\ read'[c].permissions = read[c].permissions /\ read'[c].accounts = read[c].accounts
        /\ \A b \in Calls : b # c => peersAt'[b] = peersAt[b]
        /\ UNCHANGED <<storedVars, op, at, alone, before>>
    BY <1>5, StepsTyped DEF ReadPeersToRemove, historyVars, Copies
  <2>2. Progress(c) => Progress(c)'
    BY <1>r, <1>p, <2>1 DEF Progress, RemovingPeers, Gone, Held, storedVars
  <2>. QED
    BY <1>r, <1>n, <2>1, <2>2, CallSteps DEF Running, RemovalSteps
<1>6. ASSUME StoreRemainingPeers(c) PROVE AloneInv'
  <2>1. /\ peersAt[c] = "store" /\ peersAt'[c] = "unsubscribe" /\ peers' = read[c].peers \ op[c].dApps
        /\ \A b \in Calls : b # c => peersAt'[b] = peersAt[b]
        /\ UNCHANGED <<appMetadata, permissions, pushTokens, heard, read, op, at, alone, before>>
    BY <1>6, StepsTyped DEF StoreRemainingPeers, historyVars
  <2>2. Progress(c) => Progress(c)'
    BY <1>r, <1>p, <2>1 DEF Progress, RemovingPeers, Gone, Held
  <2>. QED
    BY <1>r, <1>n, <2>1, <2>2, CallSteps DEF Running, RemovalSteps
<1>7. ASSUME ClearPeers(c) PROVE AloneInv'
  <2>1. /\ peersAt[c] = "clear" /\ peersAt'[c] = "unsubscribe" /\ peers' = {}
        /\ \A b \in Calls : b # c => peersAt'[b] = peersAt[b]
        /\ UNCHANGED <<appMetadata, permissions, pushTokens, heard, read, op, at, alone, before>>
    BY <1>7, StepsTyped DEF ClearPeers, historyVars
  <2>2. Progress(c) => Progress(c)'
    BY <1>r, <1>p, <2>1 DEF Progress, RemovingPeers, Gone, Held
  <2>. QED
    BY <1>r, <1>n, <2>1, <2>2, CallSteps DEF Running, RemovalSteps
<1>8. ASSUME Unsubscribe(c) PROVE AloneInv'
  <2>1. /\ peersAt[c] = "unsubscribe" /\ peersAt'[c] = "none"
        /\ heard' = IF op[c].name = "removeAllPeers" THEN {} ELSE heard \ op[c].dApps
        /\ \A b \in Calls : b # c => peersAt'[b] = peersAt[b]
        /\ UNCHANGED <<peers, appMetadata, permissions, pushTokens, read, op, at, alone, before>>
    BY <1>8, StepsTyped DEF Unsubscribe, historyVars
  <2>2. Progress(c) => Progress(c)'
    BY <1>r, <1>p, <2>1 DEF Progress, RemovingPeers, Gone, Held
  <2>. QED
    BY <1>r, <1>n, <2>1, <2>2, CallSteps DEF Running, RemovalSteps
<1>9. ASSUME FinishRemoval(c) PROVE AloneInv'
  BY <1>9, EndsAlone DEF FinishRemoval, Running, historyVars
<1>. QED
  BY <1>1, <1>2, <1>3, <1>4, <1>5, <1>6, <1>7, <1>8, <1>9

LEMMA ListsKeepAlone == TypeOK /\ AloneInv /\ ListsNext => AloneInv'
<1>. SUFFICES ASSUME TypeOK, AloneInv, NEW c \in Calls PROVE
       /\ ReadMetadata(c) \/ StoreMetadata(c) \/ FindMetadata(c) => AloneInv'
       /\ ListPermissions(c) \/ ReadPermissions(c) \/ StorePermissions(c) => AloneInv'
       /\ ReadTokens(c) \/ Register(c) \/ StoreTokens(c) => AloneInv'
  BY DEF ListsNext
<1>r. peersAt[c] # "none" => at[c] \in RemovalSteps /\ op[c].name \in {"removePeer", "removeAllPeers"}
  BY DEF AloneInv, RemovalsRun
<1>n. peersAt[c] # "none" => at[c] \notin {"readMetadata", "storeMetadata", "findMetadata",
                                           "readTokens", "register", "storeTokens"}
  BY <1>r DEF RemovalSteps
<1>1. ASSUME ReadMetadata(c) PROVE AloneInv'
  <2>1. /\ at[c] = "readMetadata" /\ at'[c] = "storeMetadata" /\ read'[c].appMetadata = appMetadata
        /\ \A b \in Calls : b # c => at'[b] = at[b]
        /\ UNCHANGED <<storedVars, op, peersAt, alone, before>>
    BY <1>1, StepsTyped DEF ReadMetadata, Goes, historyVars, Copies
  <2>2. Progress(c) => Progress(c)'
    BY <2>1 DEF Progress, AddingPeer, ChangingMetadata, ChangingPermission, AskingForToken,
                RemovingPeers, Now, storedVars
  <2>. QED
    BY <1>n, <2>1, <2>2, CallSteps DEF Running
<1>2. ASSUME StoreMetadata(c) PROVE AloneInv'
  BY <1>2, <1>n, EndsAlone DEF StoreMetadata, Running, historyVars
<1>3. ASSUME FindMetadata(c) PROVE AloneInv'
  <2>1. CASE Ends(c, "done")
    BY <1>3, <1>n, <2>1, EndsAlone DEF FindMetadata, Running, historyVars
  <2>2. CASE Goes(c, "readPermissions") /\ op[c].dApps \subseteq appMetadata /\ UNCHANGED <<op, read>>
    <3>1. /\ at[c] = "findMetadata" /\ at'[c] = "readPermissions"
          /\ \A b \in Calls : b # c => at'[b] = at[b]
          /\ UNCHANGED <<storedVars, op, read, peersAt, alone, before>>
      BY <1>3, <2>2, StepsTyped DEF FindMetadata, Goes, historyVars
    <3>2. Progress(c) => Progress(c)'
      BY <2>2, <3>1 DEF Progress, AddingPeer, ChangingMetadata, ChangingPermission, AskingForToken,
                        RemovingPeers, Now, storedVars
    <3>. QED
      BY <1>n, <3>1, <3>2, CallSteps DEF Running
  <2>. QED
    BY <1>3, <2>1, <2>2 DEF FindMetadata
<1>4. ASSUME ListPermissions(c) PROVE AloneInv'
  <2>1. /\ at[c] = "listPermissions" /\ at'[c] = "readPermissions"
        /\ read'[c].accounts = {p.account : p \in {q \in permissions : q.dApp \in op[c].dApps}}
        /\ read'[c].peers = read[c].peers
        /\ \A b \in Calls : b # c => at'[b] = at[b]
        /\ UNCHANGED <<storedVars, op, peersAt, alone, before>>
    BY <1>4, StepsTyped DEF ListPermissions, Goes, historyVars, Copies
  <2>2. Progress(c) => Progress(c)'
    <3>. SUFFICES ASSUME Progress(c) PROVE RemovingPeers(c)' /\ op[c].name \in {"removePeer", "removeAllPeers"}
      BY <2>1 DEF Progress
    <3>1. RemovingPeers(c) /\ op[c].name \in {"removePeer", "removeAllPeers"}
      BY <2>1 DEF Progress, AddingPeer, ChangingMetadata, ChangingPermission, AskingForToken
    <3>2. permissions = before.permissions /\ op[c].dApps = Gone(c)
      BY <2>1, <3>1 DEF RemovingPeers
    <3>3. read'[c].accounts = Held(c)
      BY <2>1, <3>2 DEF Held
    <3>4. Gone(c)' = Gone(c) /\ Held(c)' = Held(c)
      BY <2>1 DEF Gone, Held
    <3>. QED
      BY <2>1, <3>1, <3>2, <3>3, <3>4 DEF RemovingPeers, storedVars
  <2>. QED
    BY <1>r, <2>1, <2>2, CallSteps DEF Running, RemovalSteps
<1>5. ASSUME ReadPermissions(c) PROVE AloneInv'
  <2>1. /\ at[c] = "readPermissions" /\ at'[c] = "storePermissions" /\ read'[c].permissions = permissions
        /\ read'[c].peers = read[c].peers /\ read'[c].accounts = read[c].accounts
        /\ \A b \in Calls : b # c => at'[b] = at[b]
        /\ UNCHANGED <<storedVars, op, peersAt, alone, before>>
    BY <1>5, StepsTyped DEF ReadPermissions, Goes, historyVars, Copies
  <2>2. CASE op[c].name \in {"removePeer", "removeAllPeers"}
    <3>1. Gone(c)' = Gone(c) /\ Held(c)' = Held(c)
      BY <2>1 DEF Gone, Held
    <3>2. RemovingPeers(c) => RemovingPeers(c)'
      BY <2>1, <3>1 DEF RemovingPeers, storedVars
    <3>3. Progress(c) => Progress(c)'
      BY <2>1, <2>2, <3>2 DEF Progress
    <3>. QED
      BY <1>r, <2>1, <3>3, CallSteps DEF Running, RemovalSteps
  <2>3. CASE op[c].name \notin {"removePeer", "removeAllPeers"}
    <3>1. Progress(c) => Progress(c)'
      BY <2>1, <2>3 DEF Progress, AddingPeer, ChangingMetadata, ChangingPermission, AskingForToken,
                        Now, storedVars
    <3>. QED
      BY <1>r, <2>1, <2>3, <3>1, CallSteps DEF Running
  <2>. QED
    BY <2>2, <2>3
<1>6. ASSUME StorePermissions(c) PROVE AloneInv'
  <2>1. CASE Ends(c, "done") /\ op[c].name \in {"answer", "removePermission"}
    BY <1>6, <2>1, <1>r, EndsAlone DEF StorePermissions, Running, historyVars
  <2>2. CASE /\ op[c].name \in {"removePeer", "removeAllPeers"} /\ Goes(c, "wait")
             /\ permissions' = RemovePermissions(read[c].permissions, read[c].accounts)
             /\ UNCHANGED <<op, read>>
    <3>1. /\ at[c] = "storePermissions" /\ at'[c] = "wait"
          /\ \A b \in Calls : b # c => at'[b] = at[b]
          /\ UNCHANGED <<peers, appMetadata, pushTokens, heard, op, read, peersAt, alone, before>>
      BY <1>6, <2>2, StepsTyped DEF StorePermissions, Goes, historyVars
    <3>2. Gone(c)' = Gone(c) /\ Held(c)' = Held(c)
      BY <3>1 DEF Gone, Held
    <3>3. RemovingPeers(c) => permissions' = {p \in before.permissions : p.account \notin Held(c)}
      BY <2>2, <3>1 DEF RemovingPeers, RemovePermissions, Remove
    <3>4. RemovingPeers(c) => RemovingPeers(c)'
      BY <3>1, <3>2, <3>3 DEF RemovingPeers
    <3>5. Progress(c) => Progress(c)'
      BY <2>2, <3>1, <3>4 DEF Progress
    <3>. QED
      BY <1>r, <2>2, <3>1, <3>5, CallSteps DEF Running, RemovalSteps
  <2>. QED
    BY <1>6, <2>1, <2>2 DEF StorePermissions
<1>7. ASSUME ReadTokens(c) PROVE AloneInv'
  <2>1. CASE Ends(c, "done")
    BY <1>7, <1>n, <2>1, EndsAlone DEF ReadTokens, Running, historyVars
  <2>2. CASE ~\E t \in pushTokens : t.account \in op[c].accounts
    <3>1. /\ at[c] = "readTokens" /\ at'[c] = "register" /\ read'[c].pushTokens = pushTokens
          /\ \A b \in Calls : b # c => at'[b] = at[b]
          /\ UNCHANGED <<storedVars, op, peersAt, alone, before>>
      BY <1>7, <2>2, StepsTyped DEF ReadTokens, Goes, historyVars, Copies
    <3>2. Progress(c) => Progress(c)'
      BY <2>2, <3>1 DEF Progress, AddingPeer, ChangingMetadata, ChangingPermission, AskingForToken,
                        RemovingPeers, Now, storedVars
    <3>. QED
      BY <1>n, <3>1, <3>2, CallSteps DEF Running
  <2>. QED
    BY <1>7, <2>1, <2>2 DEF ReadTokens
<1>8. ASSUME Register(c) PROVE AloneInv'
  <2>1. CASE Ends(c, "lost")
    BY <1>8, <1>n, <2>1, EndsAlone DEF Register, Running, historyVars
  <2>2. CASE Goes(c, "storeTokens") /\ UNCHANGED <<op, read>>
    <3>1. /\ at[c] = "register" /\ at'[c] = "storeTokens"
          /\ \A b \in Calls : b # c => at'[b] = at[b]
          /\ UNCHANGED <<storedVars, op, read, peersAt, alone, before>>
      BY <1>8, <2>2, StepsTyped DEF Register, Goes, historyVars
    <3>2. Progress(c) => Progress(c)'
      BY <3>1 DEF Progress, AddingPeer, ChangingMetadata, ChangingPermission, AskingForToken,
                  RemovingPeers, Now, storedVars
    <3>. QED
      BY <1>n, <3>1, <3>2, CallSteps DEF Running
  <2>. QED
    BY <1>8, <2>1, <2>2 DEF Register
<1>9. ASSUME StoreTokens(c) PROVE AloneInv'
  BY <1>9, <1>n, EndsAlone DEF StoreTokens, Running, historyVars
<1>. QED
  BY <1>1, <1>2, <1>3, <1>4, <1>5, <1>6, <1>7, <1>8, <1>9

LEMMA AloneStep == TypeOK /\ AloneInv /\ [Next]_vars => AloneInv'
<1>. SUFFICES ASSUME TypeOK, AloneInv, [Next]_vars PROVE AloneInv'
  OBVIOUS
<1>1. CASE DeleteList
  BY <1>1 DEF DeleteList, Overlaps, AloneInv, RemovalsRun
<1>2. CASE Restart
  BY <1>2 DEF Restart, Overlaps, AloneInv, RemovalsRun, TypeOK, Running
<1>3. CASE UNCHANGED vars
  <2>1. \A c \in Calls : Progress(c) => Progress(c)'
    BY <1>3 DEF vars, storedVars, historyVars, Progress, AddingPeer, ChangingMetadata, ChangingPermission,
                AskingForToken, RemovingPeers, Gone, Held, Now
  <2>. QED
    BY <1>3, <2>1 DEF vars, historyVars, AloneInv, RemovalsRun, Running, TypeOK
<1>. QED
  BY <1>1, <1>2, <1>3, BeginsKeepAlone, PeersKeepAlone, ListsKeepAlone DEF Next

\* Changing one list of what was stored.
LEMMA OneListChanged ==
  ASSUME NEW b \in Stored, NEW p, NEW m, NEW s, NEW t
  PROVE  /\ [b EXCEPT !.peers = p] =
              [peers |-> p, appMetadata |-> b.appMetadata, permissions |-> b.permissions,
               pushTokens |-> b.pushTokens, heard |-> b.heard]
         /\ [b EXCEPT !.appMetadata = m] =
              [peers |-> b.peers, appMetadata |-> m, permissions |-> b.permissions,
               pushTokens |-> b.pushTokens, heard |-> b.heard]
         /\ [b EXCEPT !.permissions = s] =
              [peers |-> b.peers, appMetadata |-> b.appMetadata, permissions |-> s,
               pushTokens |-> b.pushTokens, heard |-> b.heard]
         /\ [b EXCEPT !.pushTokens = t] =
              [peers |-> b.peers, appMetadata |-> b.appMetadata, permissions |-> b.permissions,
               pushTokens |-> t, heard |-> b.heard]
BY DEF Stored

\* Changing the peers that are stored and heard.
LEMMA PeersChanged ==
  ASSUME NEW b \in Stored, NEW p, NEW h
  PROVE  [b EXCEPT !.peers = p, !.heard = h] =
           [peers |-> p, appMetadata |-> b.appMetadata, permissions |-> b.permissions,
            pushTokens |-> b.pushTokens, heard |-> h]
<1>1. [b EXCEPT !.peers = p, !.heard = h] = [[b EXCEPT !.peers = p] EXCEPT !.heard = h]
  OBVIOUS
<1>2. [b EXCEPT !.peers = p, !.heard = h] =
        [[peers |-> p, appMetadata |-> b.appMetadata, permissions |-> b.permissions,
          pushTokens |-> b.pushTokens, heard |-> b.heard] EXCEPT !.heard = h]
  BY <1>1, OneListChanged
<1>. QED
  BY <1>2

\* Changing their permissions too.
LEMMA PeersAndPermissionsChanged ==
  ASSUME NEW b \in Stored, NEW p, NEW h, NEW s
  PROVE  [b EXCEPT !.peers = p, !.heard = h, !.permissions = s] =
           [peers |-> p, appMetadata |-> b.appMetadata, permissions |-> s,
            pushTokens |-> b.pushTokens, heard |-> h]
<1>1. [b EXCEPT !.peers = p, !.heard = h, !.permissions = s] =
        [[b EXCEPT !.peers = p, !.heard = h] EXCEPT !.permissions = s]
  OBVIOUS
<1>2. [b EXCEPT !.peers = p, !.heard = h] =
        [peers |-> p, appMetadata |-> b.appMetadata, permissions |-> b.permissions,
         pushTokens |-> b.pushTokens, heard |-> h]
  BY PeersChanged
<1>3. [b EXCEPT !.peers = p, !.heard = h, !.permissions = s] =
        [[peers |-> p, appMetadata |-> b.appMetadata, permissions |-> b.permissions,
          pushTokens |-> b.pushTokens, heard |-> h] EXCEPT !.permissions = s]
  BY <1>1, <1>2
<1>. QED
  BY <1>3

\* The lists, when all of them are as they were before.
LEMMA Unchanged ==
  ASSUME TypeOK, Now = before
  PROVE  /\ peers = before.peers /\ appMetadata = before.appMetadata
         /\ permissions = before.permissions /\ pushTokens = before.pushTokens
         /\ heard = before.heard
BY DEF Now

LEMMA PeerIsAdded ==
  ASSUME TypeOK, NEW c \in Calls, op[c].name = "addPeer", AddingPeer(c), Listen(c)
  PROVE  Now' = Atomically(c, before)
<1>1. Atomically(c, before) = [before EXCEPT !.peers = before.peers \cup op[c].dApps,
                                             !.heard = before.heard \cup op[c].dApps]
  BY DEF Atomically, TypeOK, Stored
<1>2. before \in Stored
  BY DEF TypeOK
<1>3. Now' = [peers |-> before.peers \cup op[c].dApps, appMetadata |-> before.appMetadata,
              permissions |-> before.permissions, pushTokens |-> before.pushTokens,
              heard |-> before.heard \cup op[c].dApps]
  BY DEF AddingPeer, Listen, Now
<1>. QED
  BY <1>1, <1>2, <1>3, PeersChanged

LEMMA PeersAreRemoved ==
  ASSUME TypeOK, NEW c \in Calls, op[c].name \in {"removePeer", "removeAllPeers"}, RemovingPeers(c),
         FinishRemoval(c)
  PROVE  Now' = Atomically(c, before)
<1>1. Atomically(c, before) =
        [before EXCEPT !.peers = before.peers \ Gone(c),
                       !.heard = IF op[c].name = "removePeer" THEN before.heard \ Gone(c) ELSE {},
                       !.permissions = {p \in before.permissions : p.account \notin Held(c)}]
  BY DEF Atomically, Gone, Held, TypeOK, Stored
<1>2. before \in Stored
  BY DEF TypeOK
<1>3. /\ peers = before.peers \ Gone(c) /\ appMetadata = before.appMetadata
      /\ heard = IF op[c].name = "removePeer" THEN before.heard \ Gone(c) ELSE {}
      /\ permissions = {p \in before.permissions : p.account \notin Held(c)}
      /\ pushTokens = before.pushTokens
  BY DEF RemovingPeers, FinishRemoval
<1>. DEFINE heardNow == IF op[c].name = "removePeer" THEN before.heard \ Gone(c) ELSE {}
           left == {p \in before.permissions : p.account \notin Held(c)}
<1>4. Now' = [peers |-> before.peers \ Gone(c), appMetadata |-> before.appMetadata,
              permissions |-> left, pushTokens |-> before.pushTokens, heard |-> heardNow]
  BY <1>3 DEF FinishRemoval, Now, storedVars
<1>5. Atomically(c, before) =
        [before EXCEPT !.peers = before.peers \ Gone(c), !.heard = heardNow, !.permissions = left]
  BY <1>1
<1>. HIDE DEF heardNow, left
<1>. QED
  BY <1>2, <1>4, <1>5, PeersAndPermissionsChanged

LEMMA MetadataIsChanged ==
  ASSUME TypeOK, NEW c \in Calls, op[c].name \in {"request", "removeAppMetadata"}, ChangingMetadata(c),
         StoreMetadata(c)
  PROVE  Now' = Atomically(c, before)
<1>1. Atomically(c, before) =
        [before EXCEPT !.appMetadata = IF op[c].name = "request" THEN before.appMetadata \cup op[c].dApps
                                       ELSE before.appMetadata \ op[c].dApps]
  BY DEF Atomically, TypeOK, Stored
<1>2. before \in Stored
  BY DEF TypeOK
<1>3. read[c].appMetadata = before.appMetadata /\ Now = before
  BY DEF ChangingMetadata, StoreMetadata
<1>4. appMetadata' = IF op[c].name = "request" THEN before.appMetadata \cup op[c].dApps
                     ELSE before.appMetadata \ op[c].dApps
  BY <1>3 DEF StoreMetadata
<1>. QED
  BY <1>1, <1>2, <1>3, <1>4, OneListChanged, Unchanged DEF StoreMetadata, Now

LEMMA PermissionIsChanged ==
  ASSUME TypeOK, NEW c \in Calls, op[c].name \in {"answer", "removePermission"}, ChangingPermission(c),
         StorePermissions(c)
  PROVE  Now' = Atomically(c, before)
<1>1. PICK d \in DApps, a \in Accounts : op[c].dApps = {d} /\ op[c].accounts = {a}
  BY DEF ChangingPermission
<1>2. before \in Stored /\ before.permissions \subseteq Permission
  BY DEF TypeOK, Stored
<1>3. read[c].permissions = before.permissions /\ Now = before
  BY DEF ChangingPermission, StorePermissions
<1>4. [account : {a}, dApp : {d}] = {[account |-> a, dApp |-> d]}
  <2>1. ASSUME NEW p \in [account : {a}, dApp : {d}] PROVE p = [account |-> a, dApp |-> d]
    OBVIOUS
  <2>2. [account |-> a, dApp |-> d] \in [account : {a}, dApp : {d}]
    OBVIOUS
  <2>. QED
    BY <2>1, <2>2
<1>5. {p \in before.permissions : p.account = a /\ p.dApp = d} =
        before.permissions \cap {[account |-> a, dApp |-> d]}
  BY <1>2 DEF Permission
<1>6. (CHOOSE e \in {d} : TRUE) = d /\ (CHOOSE e \in {a} : TRUE) = a
  OBVIOUS
<1>7. CASE op[c].name = "answer"
  <2>1. Atomically(c, before) =
          [before EXCEPT !.permissions = before.permissions \cup {[account |-> a, dApp |-> d]}]
    BY <1>1, <1>2, <1>4, <1>7 DEF Atomically, ChangingPermission, StorePermissions, Stored
  <2>2. permissions' = before.permissions \cup {[account |-> a, dApp |-> d]}
    BY <1>1, <1>3, <1>5, <1>6, <1>7 DEF StorePermissions, AddPermission, AddOne
  <2>. QED
    BY <1>2, <1>3, <2>1, <2>2, OneListChanged, Unchanged DEF StorePermissions, Now
<1>8. CASE op[c].name = "removePermission"
  <2>1. Atomically(c, before) =
          [before EXCEPT !.permissions = before.permissions \ {[account |-> a, dApp |-> d]}]
    BY <1>1, <1>2, <1>4, <1>8 DEF Atomically, Stored
  <2>2. permissions' = before.permissions \ {[account |-> a, dApp |-> d]}
    BY <1>1, <1>3, <1>5, <1>6, <1>8 DEF StorePermissions, RemovePermissionOf, Remove
  <2>. QED
    BY <1>2, <1>3, <2>1, <2>2, OneListChanged, Unchanged DEF StorePermissions, Now
<1>. QED
  BY <1>7, <1>8

\* The interceptor has nothing to answer to when it finds no metadata.
LEMMA AnswerIsGivenUp ==
  ASSUME TypeOK, NEW c \in Calls, op[c].name \in {"answer", "removePermission"}, ChangingPermission(c),
         FindMetadata(c), ~(op[c].dApps \subseteq appMetadata)
  PROVE  Now' = Atomically(c, before)
<1>1. op[c].name = "answer" /\ Now = before
  BY DEF ChangingPermission, FindMetadata
<1>2. before \in Stored
  BY DEF TypeOK
<1>3. Atomically(c, before) = [before EXCEPT !.permissions = before.permissions]
  BY <1>1, <1>2, Unchanged DEF Atomically, Stored
<1>4. Now' = Now
  BY DEF FindMetadata, Now, storedVars
<1>. QED
  BY <1>1, <1>2, <1>3, <1>4 DEF Stored

LEMMA TokenIsStored ==
  ASSUME TypeOK, NEW c \in Calls, op[c].name = "registerPush", AskingForToken(c), StoreTokens(c)
  PROVE  Now' = Atomically(c, before)
<1>1. /\ read[c].pushTokens = before.pushTokens /\ Now = before
      /\ \A t \in before.pushTokens : t.account \notin op[c].accounts
  BY DEF AskingForToken, StoreTokens
<1>2. before \in Stored
  BY DEF TypeOK
<1>3. Atomically(c, before) =
        [before EXCEPT !.pushTokens = before.pushTokens \cup [account : op[c].accounts, issuedTo : {c}]]
  BY <1>1, <1>2 DEF Atomically, Stored
<1>4. {[account |-> a, issuedTo |-> c] : a \in op[c].accounts} = [account : op[c].accounts, issuedTo : {c}]
  <2>1. ASSUME NEW t \in {[account |-> a, issuedTo |-> c] : a \in op[c].accounts}
        PROVE  t \in [account : op[c].accounts, issuedTo : {c}]
    OBVIOUS
  <2>2. ASSUME NEW t \in [account : op[c].accounts, issuedTo : {c}]
        PROVE  t \in {[account |-> a, issuedTo |-> c] : a \in op[c].accounts}
    <3>1. t = [account |-> t.account, issuedTo |-> c] /\ t.account \in op[c].accounts
      OBVIOUS
    <3>. QED
      BY <3>1
  <2>. QED
    BY <2>1, <2>2
<1>. QED
  BY <1>1, <1>2, <1>3, <1>4, OneListChanged, Unchanged DEF StoreTokens, Now

LEMMA TokenIsFound ==
  ASSUME TypeOK, NEW c \in Calls, op[c].name = "registerPush", AskingForToken(c), ReadTokens(c),
         \E t \in pushTokens : t.account \in op[c].accounts
  PROVE  Now' = Atomically(c, before)
<1>1. Now = before
  BY DEF AskingForToken
<1>2. before \in Stored
  BY DEF TypeOK
<1>3. Atomically(c, before) = [before EXCEPT !.pushTokens = before.pushTokens]
  BY <1>1, <1>2, Unchanged DEF Atomically, Stored
<1>4. Now' = Now
  BY DEF ReadTokens, Now, storedVars
<1>. QED
  BY <1>1, <1>2, <1>3, <1>4 DEF Stored

\* A call that ends takes its last step.
LEMMA LastStep ==
  ASSUME TypeOK, NEW c \in Calls, at[c] # "done", [Next]_vars, at'[c] = "done"
  PROVE  \/ Listen(c) \/ FinishRemoval(c) \/ StoreMetadata(c)
         \/ FindMetadata(c) /\ ~(op[c].dApps \subseteq appMetadata)
         \/ StorePermissions(c) /\ op[c].name \in {"answer", "removePermission"}
         \/ ReadTokens(c) /\ \E t \in pushTokens : t.account \in op[c].accounts
         \/ StoreTokens(c)
<1>1. ASSUME NEW b \in Calls, NEW step, Goes(b, step) PROVE b = c /\ step = "done"
  BY <1>1, StepsTyped DEF Goes
<1>2. ~BeginNext
  <2>1. BeginNext => \E b \in Calls : \/ Goes(b, "readPeers") \/ Goes(b, "listPermissions")
                                      \/ Goes(b, "listPeers") \/ Goes(b, "readMetadata")
                                      \/ Goes(b, "findMetadata") \/ Goes(b, "readPermissions")
                                      \/ Goes(b, "readTokens")
    BY DEF BeginNext, RemoveAllPeers, AddPeer, RemovePeer, ReceivePermissionRequest, RemoveAppMetadata,
           Respond, RemovePermission, RegisterPush, Begin
  <2>. QED
    BY <1>1, <2>1
<1>3. PeersNext => Listen(c) \/ FinishRemoval(c)
  <2>. SUFFICES ASSUME NEW b \in Calls,
                       \/ ReadPeers(b) \/ StorePeers(b) \/ Listen(b) \/ ListPeers(b)
                       \/ ReadPeersToRemove(b) \/ StoreRemainingPeers(b) \/ ClearPeers(b)
                       \/ Unsubscribe(b) \/ FinishRemoval(b)
                PROVE  Listen(c) \/ FinishRemoval(c)
    BY DEF PeersNext
  <2>1. ~(ReadPeers(b) \/ StorePeers(b) \/ ListPeers(b))
    BY <1>1 DEF ReadPeers, StorePeers, ListPeers
  <2>2. ~(ReadPeersToRemove(b) \/ StoreRemainingPeers(b) \/ ClearPeers(b) \/ Unsubscribe(b))
    BY DEF ReadPeersToRemove, StoreRemainingPeers, ClearPeers, Unsubscribe
  <2>3. Listen(b) \/ FinishRemoval(b) => b = c
    BY <1>1 DEF Listen, FinishRemoval, Ends
  <2>. QED
    BY <2>1, <2>2, <2>3
<1>4. ListsNext => \/ StoreMetadata(c)
                   \/ FindMetadata(c) /\ ~(op[c].dApps \subseteq appMetadata)
                   \/ StorePermissions(c) /\ op[c].name \in {"answer", "removePermission"}
                   \/ ReadTokens(c) /\ \E t \in pushTokens : t.account \in op[c].accounts
                   \/ StoreTokens(c)
  <2>1. ASSUME NEW b \in Calls, b # c
        PROVE  ~(\/ ReadMetadata(b) \/ StoreMetadata(b) \/ FindMetadata(b)
                 \/ ListPermissions(b) \/ ReadPermissions(b) \/ StorePermissions(b)
                 \/ ReadTokens(b) \/ Register(b) \/ StoreTokens(b))
    BY <1>1, <2>1
    DEF ReadMetadata, StoreMetadata, FindMetadata, ListPermissions, ReadPermissions, StorePermissions,
        ReadTokens, Register, StoreTokens, Ends
  <2>2. ~(ReadMetadata(c) \/ ListPermissions(c) \/ ReadPermissions(c) \/ Register(c))
    BY <1>1 DEF ReadMetadata, ListPermissions, ReadPermissions, Register, Ends
  <2>3. FindMetadata(c) => ~(op[c].dApps \subseteq appMetadata)
    BY <1>1 DEF FindMetadata, Ends
  <2>4. StorePermissions(c) => op[c].name \in {"answer", "removePermission"}
    BY <1>1 DEF StorePermissions, Ends
  <2>5. ReadTokens(c) => \E t \in pushTokens : t.account \in op[c].accounts
    BY <1>1 DEF ReadTokens, Ends
  <2>6. ListsNext => \/ ReadMetadata(c) \/ StoreMetadata(c) \/ FindMetadata(c)
                     \/ ListPermissions(c) \/ ReadPermissions(c) \/ StorePermissions(c)
                     \/ ReadTokens(c) \/ Register(c) \/ StoreTokens(c)
    BY <2>1 DEF ListsNext
  <2>. QED
    BY <2>2, <2>3, <2>4, <2>5, <2>6
<1>5. ~(DeleteList \/ UNCHANGED vars)
  BY DEF DeleteList, vars
<1>6. ~Restart
  BY DEF Restart, Running
<1>. QED
  BY <1>2, <1>3, <1>4, <1>5, <1>6 DEF Next

\* A call that nothing overlapped, and that ends, has made of what was stored what it is to make of it.
LEMMA EndsWhole ==
  ASSUME TypeOK, AloneInv, [Next]_vars, NEW c \in Calls, c \in alone, at[c] # "done", at'[c] = "done"
  PROVE  Now' = Atomically(c, before)
<1>1. Running(c) => Progress(c)
  BY DEF AloneInv
<1>2. CASE Listen(c)
  <2>1. op[c].name = "addPeer" /\ AddingPeer(c)
    BY <1>1, <1>2 DEF Listen, Running, Progress, ChangingMetadata, ChangingPermission, AskingForToken,
                      RemovingPeers
  <2>. QED
    BY <1>2, <2>1, PeerIsAdded
<1>3. CASE FinishRemoval(c)
  <2>1. op[c].name \in {"removePeer", "removeAllPeers"} /\ RemovingPeers(c)
    BY <1>1, <1>3 DEF FinishRemoval, Running, Progress, AddingPeer, ChangingMetadata, ChangingPermission,
                      AskingForToken
  <2>. QED
    BY <1>3, <2>1, PeersAreRemoved
<1>4. CASE StoreMetadata(c)
  <2>1. op[c].name \in {"request", "removeAppMetadata"} /\ ChangingMetadata(c)
    BY <1>1, <1>4 DEF StoreMetadata, Running, Progress
  <2>. QED
    BY <1>4, <2>1, MetadataIsChanged
<1>5. CASE FindMetadata(c) /\ ~(op[c].dApps \subseteq appMetadata)
  <2>1. op[c].name \in {"answer", "removePermission"} /\ ChangingPermission(c)
    BY <1>1, <1>5 DEF FindMetadata, Running, Progress, AddingPeer, ChangingMetadata, AskingForToken,
                      RemovingPeers
  <2>. QED
    BY <1>5, <2>1, AnswerIsGivenUp
<1>6. CASE StorePermissions(c) /\ op[c].name \in {"answer", "removePermission"}
  <2>1. ChangingPermission(c)
    BY <1>1, <1>6 DEF StorePermissions, Running, Progress
  <2>. QED
    BY <1>6, <2>1, PermissionIsChanged
<1>7. CASE ReadTokens(c) /\ \E t \in pushTokens : t.account \in op[c].accounts
  <2>1. op[c].name = "registerPush" /\ AskingForToken(c)
    BY <1>1, <1>7 DEF ReadTokens, Running, Progress, AddingPeer, ChangingMetadata, ChangingPermission,
                      RemovingPeers
  <2>. QED
    BY <1>7, <2>1, TokenIsFound
<1>8. CASE StoreTokens(c)
  <2>1. op[c].name = "registerPush" /\ AskingForToken(c)
    BY <1>1, <1>8 DEF StoreTokens, Running, Progress, AddingPeer, ChangingMetadata, ChangingPermission,
                      RemovingPeers
  <2>. QED
    BY <1>8, <2>1, TokenIsStored
<1>. QED
  BY <1>2, <1>3, <1>4, <1>5, <1>6, <1>7, <1>8, LastStep

(***************************************************************************)
(* A call that nothing overlapped has done all it names, and nothing else, *)
(* when it ends: the steps in which WalletClient reads a list, waits for   *)
(* the storage and writes the list back then make up one change.           *)
(***************************************************************************)
THEOREM UndisturbedCallsAreWhole == Spec => UndisturbedCallsAreAtomic
<1>1. Init => GrantedInv /\ AloneInv
  BY GrantedInit, AloneInit
<1>2. GrantedInv /\ AloneInv /\ [Next]_vars => GrantedInv' /\ AloneInv'
  BY GrantedStep, AloneStep DEF GrantedInv
<1>3. GrantedInv /\ AloneInv /\ [Next]_vars =>
        [\A c \in Calls : c \in alone /\ at[c] # "done" /\ at'[c] = "done"
                            => Now' = Atomically(c, before)]_vars
  BY EndsWhole DEF GrantedInv
<1>. QED
  BY <1>1, <1>2, <1>3, PTL DEF Spec, UndisturbedCallsAreAtomic

=============================================================================
