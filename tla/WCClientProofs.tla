--------------------------- MODULE WCClientProofs ---------------------------
(***************************************************************************)
(* Theorems about WCClient for any requests, sessions and namespaces: the  *)
(* ids in the queue, and the session in use.                               *)
(***************************************************************************)
EXTENDS WCClient, SequenceTheorems, TLAPS

-----------------------------------------------------------------------------
(***************************************************************************)
(* Type correctness                                                        *)
(***************************************************************************)

\* pop() leaves a queue of ids, and gives an id or undefined.
LEMMA PopType ==
  ASSUME messageIds \in Seq(Requests)
  PROVE  /\ Popped \in Seq(Requests)
         /\ Oldest \in Requests \cup {None}
<1>1. CASE messageIds = <<>>
  BY <1>1 DEF Popped, Oldest
<1>2. CASE messageIds # <<>>
  <2>1. Len(messageIds) \in Nat /\ Len(messageIds) > 0
    BY <1>2
  <2>. QED
    BY <1>2, <2>1 DEF Popped, Oldest
<1>. QED
  BY <1>1, <1>2

\* Notifying the DAppClient keeps the types of the queue and of the history.
LEMMA NotifyType ==
  ASSUME TypeOK, NEW r \in Requests \cup {None},
         NEW kind \in {"response", "error"}, Notify(r, kind)
  PROVE  /\ messageIds' \in Seq(Requests)
         /\ answers' \subseteq [id : Requests \cup {None},
                                kind : {"response", "error"},
                                request : Requests \cup {None}]
  BY PopType DEF Notify, TypeOK

\* A handler that moves on is in a stage, with a session or none.
LEMMA MoveType ==
  ASSUME TypeOK, NEW r \in Requests, NEW to \in Stages,
         NEW s \in Sessions \cup {None}, Move(r, to, s), to \in Holding => s # None
  PROVE  /\ stage' \in [Requests -> Stages]
         /\ captured' \in [Requests -> Sessions \cup {None}]
         /\ \A q \in Requests : stage'[q] \in Holding => captured'[q] # None
  BY DEF Move, TypeOK

\* The order of the requests is kept, extended or given up.
LEMMA OrderType ==
  ASSUME TypeOK, NEW r \in Requests,
         Disorder \/ Sent(r) \/ AnswersInTurn(r) \/ UNCHANGED order
  PROVE  order' = None \/ order' \in Seq(Requests)
<1>1. CASE order = None
  BY <1>1 DEF Disorder, Sent, AnswersInTurn
<1>2. CASE order # None
  BY <1>2 DEF Disorder, Sent, AnswersInTurn, TypeOK
<1>. QED
  BY <1>1, <1>2

\* The names of the stages.
LEMMA StageNames ==
  /\ {"failed", "ignored", "finished", "dispatched", "opening"} \cap Holding = {}
  /\ "failed" \in Stages /\ "ignored" \in Stages /\ "finished" \in Stages
  /\ "dispatched" \in Stages /\ "preparing" \in Stages /\ "asked" \in Stages
  /\ "opening" \in Stages /\ "fetching" \in Stages
  BY DEF Stages, Pending, Holding

\* A session that is opened is one of the sessions ever opened.
LEMMA OpenedType ==
  ASSUME TypeOK, NEW s \in Sessions, SessionOpened(s)
  PROVE  /\ live' \subseteq used'
         /\ used' \subseteq Sessions
         /\ SessionAfter(s) \in Sessions
  BY DEF TypeOK, SessionOpened, SessionAfter, SameController

\* Every step keeps the types.
LEMMA NextTypeOK == TypeOK /\ [Next]_vars => TypeOK'
<1>. SUFFICES ASSUME TypeOK, [Next]_vars
              PROVE  TypeOK'
  OBVIOUS
<1>. USE StageNames DEF requestVars, clientVars
<1>a. \A s \in Sessions : AccountOf[s] \in Accounts
  BY DEF Accounts
<1>1. ASSUME NEW r \in Requests, SendMessage(r)
      PROVE  TypeOK'
  <2>1. messageIds' \in Seq(Requests)
    BY <1>1 DEF SendMessage, Unshifted, TypeOK
  <2>2. /\ stage' \in [Requests -> Stages]
        /\ captured' \in [Requests -> Sessions \cup {None}]
        /\ \A q \in Requests : stage'[q] \in Holding => captured'[q] # None
    <3>1. session \in Sessions \cup {None}
      BY DEF TypeOK
    <3>. QED
      BY <1>1, <3>1, MoveType DEF SendMessage, UseSession
  <2>3. account' \in Accounts \cup {None}
    BY <1>1, <1>a DEF SendMessage, UseSession, TypeOK
  <2>4. order' = None \/ order' \in Seq(Requests)
    BY <1>1, OrderType DEF SendMessage
  <2>. QED
    BY <1>1, <2>1, <2>2, <2>3, <2>4 DEF SendMessage, TypeOK
<1>2. ASSUME NEW r \in Requests, PrepareRequest(r)
      PROVE  TypeOK'
  <2>1. /\ stage' \in [Requests -> Stages]
        /\ captured' \in [Requests -> Sessions \cup {None}]
        /\ \A q \in Requests : stage'[q] \in Holding => captured'[q] # None
    <3>1. session \in Sessions \cup {None}
      BY DEF TypeOK
    <3>. QED
      BY <1>2, <3>1, MoveType
         DEF PrepareRequest, NoSignClient, NotConnected, CheckAndExtendSession, Fail
  <2>2. order' = None \/ order' \in Seq(Requests)
    BY <1>2, OrderType
       DEF PrepareRequest, NoSignClient, NotConnected, CheckAndExtendSession, Fail
  <2>. QED
    BY <1>2, <2>1, <2>2 DEF PrepareRequest, TypeOK
<1>3. ASSUME NEW r \in Requests, AskWallet(r)
      PROVE  TypeOK'
  <2>1. captured[r] \in Sessions \cup {None} /\ captured[r] # None
    BY <1>3 DEF AskWallet, Holding, TypeOK
  <2>2. /\ stage' \in [Requests -> Stages]
        /\ captured' \in [Requests -> Sessions \cup {None}]
        /\ \A q \in Requests : stage'[q] \in Holding => captured'[q] # None
    BY <1>3, <2>1, MoveType DEF AskWallet, Fail
  <2>3. order' = None \/ order' \in Seq(Requests)
    BY <1>3, OrderType DEF AskWallet, Fail
  <2>. QED
    BY <1>3, <2>2, <2>3 DEF AskWallet, TypeOK
<1>4. ASSUME NEW r \in Requests, FinishPermission(r)
      PROVE  TypeOK'
  <2>1. /\ stage' \in [Requests -> Stages]
        /\ captured' \in [Requests -> Sessions \cup {None}]
        /\ \A q \in Requests : stage'[q] \in Holding => captured'[q] # None
    BY <1>4, MoveType DEF FinishPermission, NoAccounts, Fail
  <2>2. order' = None \/ order' \in Seq(Requests)
    BY <1>4, OrderType DEF FinishPermission, NoAccounts, Fail
  <2>3. CASE Notify(r, "response")
    BY <1>4, <2>1, <2>2, <2>3, NotifyType DEF FinishPermission, TypeOK
  <2>4. CASE NoAccounts(r)
    BY <1>4, <2>1, <2>2, <2>4 DEF FinishPermission, NoAccounts, TypeOK
  <2>. QED
    BY <1>4, <2>3, <2>4 DEF FinishPermission
<1>5. ASSUME NEW r \in Requests, NEW kind \in {"response", "error"},
             WalletAnswers(r, kind)
      PROVE  TypeOK'
  <2>1. /\ stage' \in [Requests -> Stages]
        /\ captured' \in [Requests -> Sessions \cup {None}]
        /\ \A q \in Requests : stage'[q] \in Holding => captured'[q] # None
    BY <1>5, MoveType DEF WalletAnswers
  <2>2. order' = None \/ order' \in Seq(Requests)
    BY <1>5, OrderType DEF WalletAnswers
  <2>. QED
    BY <1>5, <2>1, <2>2, NotifyType DEF WalletAnswers, TypeOK
<1>6. ASSUME NEW r \in Requests, NEW s \in Sessions, NEW n \in Namespaces,
             OpenSession(r, s, n)
      PROVE  TypeOK'
  <2>1. live' \subseteq used' /\ used' \subseteq Sessions /\ SessionAfter(s) \in Sessions
    BY <1>6, OpenedType DEF OpenSession
  <2>2. /\ stage' \in [Requests -> Stages]
        /\ captured' \in [Requests -> Sessions \cup {None}]
        /\ \A q \in Requests : stage'[q] \in Holding => captured'[q] # None
    BY <1>6, <2>1, MoveType, WCClientAssumption DEF OpenSession, UseSession
  <2>. QED
    BY <1>6, <1>a, <2>1, <2>2 DEF OpenSession, UseSession, TypeOK
<1>7. ASSUME NEW r \in Requests, NEW s \in Sessions, NEW n \in Namespaces,
             OpenSessionInvalid(r, s, n)
      PROVE  TypeOK'
  <2>1. live' \subseteq used' /\ used' \subseteq Sessions
    BY <1>7, OpenedType DEF OpenSessionInvalid
  <2>2. /\ stage' \in [Requests -> Stages]
        /\ captured' \in [Requests -> Sessions \cup {None}]
        /\ \A q \in Requests : stage'[q] \in Holding => captured'[q] # None
    BY <1>7, MoveType DEF OpenSessionInvalid
  <2>. QED
    BY <1>7, <2>1, <2>2, NotifyType
       DEF OpenSessionInvalid, ClearState, Disorder, TypeOK
<1>8. ASSUME NEW r \in Requests, NEW expired \in BOOLEAN,
             OpenSessionFails(r, expired)
      PROVE  TypeOK'
  <2>1. session \in Sessions \cup {None}
    BY DEF TypeOK
  <2>2. /\ stage' \in [Requests -> Stages]
        /\ captured' \in [Requests -> Sessions \cup {None}]
        /\ \A q \in Requests : stage'[q] \in Holding => captured'[q] # None
    BY <1>8, <2>1, MoveType DEF OpenSessionFails, UseSession
  <2>3. account' \in Accounts \cup {None}
    BY <1>8, <1>a DEF OpenSessionFails, UseSession, TypeOK
  <2>4. /\ messageIds' \in Seq(Requests)
        /\ answers' \subseteq [id : Requests \cup {None},
                               kind : {"response", "error"},
                               request : Requests \cup {None}]
    <3>1. CASE expired
      BY <1>8, <3>1 DEF OpenSessionFails, TypeOK
    <3>2. CASE ~expired
      BY <1>8, <3>2, NotifyType DEF OpenSessionFails
    <3>. QED
      BY <3>1, <3>2
  <2>. QED
    BY <1>8, <2>2, <2>3, <2>4 DEF OpenSessionFails, Disorder, TypeOK
<1>9. ASSUME NEW s \in Sessions, NEW n \in Namespaces, PairingApproved(s, n)
      PROVE  TypeOK'
  <2>1. live' \subseteq used' /\ used' \subseteq Sessions /\ SessionAfter(s) \in Sessions
    BY <1>9, OpenedType DEF PairingApproved
  <2>2. CASE ValidNamespace(n)
    BY <1>9, <2>1, <2>2 DEF PairingApproved, TypeOK
  <2>3. CASE ~ValidNamespace(n)
    BY <1>9, <2>1, <2>3, NotifyType DEF PairingApproved, ClearState, Disorder, TypeOK
  <2>. QED
    BY <2>2, <2>3
<1>10. ASSUME NEW s \in Sessions, SessionUpdated(s)
       PROVE  TypeOK'
  BY <1>10, <1>a DEF SessionUpdated, UpdateActiveAccount, TypeOK
<1>11. ASSUME NEW s \in Sessions, WalletClosesSession(s)
       PROVE  TypeOK'
  BY <1>11 DEF WalletClosesSession, Disorder, TypeOK
<1>12. ASSUME NEW s \in Sessions, FinishDisconnect(s)
       PROVE  TypeOK'
  BY <1>12 DEF FinishDisconnect, ClearState, TypeOK
<1>13. ASSUME NEW why \in {"close", "init"}, ClosePairings(why)
       PROVE  TypeOK'
  BY <1>13 DEF ClosePairings, Disorder, TypeOK
<1>14. ASSUME PairingRejected
       PROVE  TypeOK'
  BY <1>14, NotifyType DEF PairingRejected, Disorder, TypeOK
<1>15. ASSUME FinishClose
       PROVE  TypeOK'
  <2>1. messageIds' \in Seq(Requests)
    <3>1. messageIds' = <<>> \/ messageIds' = messageIds
      BY <1>15 DEF FinishClose
    <3>2. <<>> \in Seq(Requests) /\ messageIds \in Seq(Requests)
      BY DEF TypeOK
    <3>. QED
      BY <3>1, <3>2
  <2>2. pairing' \in BOOLEAN
    <3>1. pairing' = TRUE \/ pairing' = pairing
      BY <1>15 DEF FinishClose, Connect, ConnectFails
    <3>. QED
      BY <3>1 DEF TypeOK
  <2>. QED
    BY <1>15, <2>1, <2>2 DEF FinishClose, ClearState, TypeOK
<1>16. ASSUME StorageReset
       PROVE  TypeOK'
  BY <1>16 DEF StorageReset, ClearState, Disorder, TypeOK
<1>17. ASSUME RefreshState
       PROVE  TypeOK'
  BY <1>17, <1>a
     DEF RefreshState, RestoreSession, CleanupStaleSession, ClearState, Disorder, TypeOK
<1>18. ASSUME UNCHANGED vars
       PROVE  TypeOK'
  BY <1>18 DEF vars, TypeOK
<1>. QED
  BY <1>1, <1>2, <1>3, <1>4, <1>5, <1>6, <1>7, <1>8, <1>9, <1>10,
     <1>11, <1>12, <1>13, <1>14, <1>15, <1>16, <1>17, <1>18
     DEF Next

\* Whatever the wallet, other tabs and the relay do, the client's state is well
\* formed: it uses a known session, and its queue holds ids of its requests.
THEOREM TypeCorrect == Spec => []TypeOK
<1>1. ASSUME Init
      PROVE  TypeOK
  <2>1. account \in Accounts \cup {None} /\ session \in Sessions \cup {None}
    BY <1>1 DEF Init, Accounts
  <2>2. /\ stage \in [Requests -> Stages]
        /\ captured \in [Requests -> Sessions \cup {None}]
        /\ \A r \in Requests : stage[r] \notin Holding
    BY <1>1 DEF Init, Stages, Holding
  <2>3. live \subseteq used /\ used \subseteq Sessions
    BY <1>1, <2>1 DEF Init
  <2>4. messageIds \in Seq(Requests) /\ order \in Seq(Requests)
    BY <1>1 DEF Init
  <2>. QED
    BY <1>1, <2>1, <2>2, <2>3, <2>4 DEF Init, TypeOK
<1>. QED
  BY <1>1, NextTypeOK, PTL DEF Spec

-----------------------------------------------------------------------------
(***************************************************************************)
(* The session in use                                                      *)
(***************************************************************************)

\* A session that is opened and taken into use is alive; one that was in use
\* and is kept stays as alive as it was.
LEMMA OpenedSessionIsLive ==
  ASSUME SessionIsLiveOrClosing, NEW s \in Sessions, SessionOpened(s),
         UNCHANGED <<closing, tearing>>, session' = SessionAfter(s)
  PROVE  SessionIsLiveOrClosing'
<1>1. CASE SameController(s)
  BY <1>1 DEF SessionOpened, SessionAfter, SameController, SessionIsLiveOrClosing
<1>2. CASE ~SameController(s)
  BY <1>2 DEF SessionOpened, SessionAfter, SessionIsLiveOrClosing
<1>. QED
  BY <1>1, <1>2

\* Every step that loses a session in use starts to forget it.
LEMMA NextSessionIsLiveOrClosing ==
  SessionIsLiveOrClosing /\ [Next]_vars => SessionIsLiveOrClosing'
<1>. SUFFICES ASSUME SessionIsLiveOrClosing, [Next]_vars
              PROVE  SessionIsLiveOrClosing'
  OBVIOUS
<1>. USE DEF requestVars, clientVars
<1>1. ASSUME UNCHANGED <<session, live, closing, tearing>>
      PROVE  SessionIsLiveOrClosing'
  BY <1>1 DEF SessionIsLiveOrClosing
<1>2. ASSUME session' = None
      PROVE  SessionIsLiveOrClosing'
  BY <1>2 DEF SessionIsLiveOrClosing
<1>3. ASSUME NEW r \in Requests,
             SendMessage(r) \/ PrepareRequest(r) \/ AskWallet(r) \/ FinishPermission(r)
      PROVE  SessionIsLiveOrClosing'
  BY <1>1, <1>3 DEF SendMessage, PrepareRequest, AskWallet, FinishPermission
<1>4. ASSUME NEW r \in Requests, NEW kind \in {"response", "error"},
             WalletAnswers(r, kind)
      PROVE  SessionIsLiveOrClosing'
  BY <1>1, <1>4 DEF WalletAnswers
<1>5. ASSUME NEW r \in Requests, NEW s \in Sessions, NEW n \in Namespaces,
             OpenSession(r, s, n)
      PROVE  SessionIsLiveOrClosing'
  BY <1>5, OpenedSessionIsLive DEF OpenSession
<1>6. ASSUME NEW r \in Requests, NEW s \in Sessions, NEW n \in Namespaces,
             OpenSessionInvalid(r, s, n)
      PROVE  SessionIsLiveOrClosing'
  BY <1>2, <1>6 DEF OpenSessionInvalid, ClearState
<1>7. ASSUME NEW r \in Requests, NEW expired \in BOOLEAN,
             OpenSessionFails(r, expired)
      PROVE  SessionIsLiveOrClosing'
  BY <1>1, <1>7 DEF OpenSessionFails
<1>8. ASSUME NEW s \in Sessions, NEW n \in Namespaces, PairingApproved(s, n)
      PROVE  SessionIsLiveOrClosing'
  <2>1. CASE ValidNamespace(n)
    BY <1>8, <2>1, OpenedSessionIsLive DEF PairingApproved
  <2>2. CASE ~ValidNamespace(n)
    BY <1>2, <1>8, <2>2 DEF PairingApproved, ClearState
  <2>. QED
    BY <2>1, <2>2
<1>9. ASSUME NEW s \in Sessions, SessionUpdated(s)
      PROVE  SessionIsLiveOrClosing'
  BY <1>9 DEF SessionUpdated, SessionIsLiveOrClosing
<1>10. ASSUME NEW s \in Sessions, WalletClosesSession(s)
       PROVE  SessionIsLiveOrClosing'
  BY <1>10 DEF WalletClosesSession, SessionIsLiveOrClosing
<1>11. ASSUME NEW s \in Sessions, FinishDisconnect(s)
       PROVE  SessionIsLiveOrClosing'
  BY <1>2, <1>11 DEF FinishDisconnect, ClearState
<1>12. ASSUME NEW why \in {"close", "init"}, ClosePairings(why)
       PROVE  SessionIsLiveOrClosing'
  BY <1>12 DEF ClosePairings, SessionIsLiveOrClosing
<1>13. ASSUME PairingRejected
       PROVE  SessionIsLiveOrClosing'
  BY <1>1, <1>13 DEF PairingRejected
<1>14. ASSUME FinishClose \/ StorageReset
       PROVE  SessionIsLiveOrClosing'
  BY <1>2, <1>14 DEF FinishClose, StorageReset, ClearState
<1>15. ASSUME RefreshState
       PROVE  SessionIsLiveOrClosing'
  <2>1. ASSUME NEW s \in live, RestoreSession(s)
        PROVE  SessionIsLiveOrClosing'
    BY <2>1 DEF RestoreSession, SessionIsLiveOrClosing
  <2>. QED
    BY <1>2, <1>15, <2>1 DEF RefreshState, CleanupStaleSession, ClearState
<1>16. ASSUME UNCHANGED vars
       PROVE  SessionIsLiveOrClosing'
  BY <1>1, <1>16 DEF vars
<1>. QED
  BY <1>3, <1>4, <1>5, <1>6, <1>7, <1>8, <1>9, <1>10, <1>11, <1>12,
     <1>13, <1>14, <1>15, <1>16
     DEF Next

\* A session the relay has dropped is never used but while the cleanup that
\* forgets it is under way (onSessionClosed, closePairings, closeActiveSession).
THEOREM SessionsAreLiveOrClosing == Spec => []SessionIsLiveOrClosing
<1>1. Init => SessionIsLiveOrClosing
  BY DEF Init, SessionIsLiveOrClosing
<1>. QED
  BY <1>1, NextSessionIsLiveOrClosing, PTL DEF Spec

-----------------------------------------------------------------------------
(***************************************************************************)
(* The ids                                                                 *)
(***************************************************************************)

\* No id is twice in the queue.
QueueHasNoDoubles ==
  \A i, j \in 1..Len(messageIds) : messageIds[i] = messageIds[j] => i = j

\* The id of a message that was not sent is nowhere.
NewIdsAreUnused ==
  \A r \in Requests : stage[r] = "new" =>
    /\ \A i \in 1..Len(messageIds) : messageIds[i] # r
    /\ \A a \in answers : a.id # r

IdsInv ==
  /\ QueueHasNoDoubles
  /\ NewIdsAreUnused
  /\ NoIdAnsweredTwice

\* No step takes a message back.
NoneTakenBack == \A r \in Requests : stage'[r] = "new" => stage[r] = "new"

\* The ids a step leaves alone, or drops from the queue.
LEMMA IdsFrame ==
  ASSUME IdsInv, NoneTakenBack, UNCHANGED answers,
         UNCHANGED messageIds \/ messageIds' = <<>>
  PROVE  IdsInv'
<1>. USE DEF IdsInv, QueueHasNoDoubles, NewIdsAreUnused, NoIdAnsweredTwice,
             NoneTakenBack
<1>1. CASE UNCHANGED messageIds
  BY <1>1
<1>2. CASE messageIds' = <<>>
  <2>1. 1..Len(messageIds') = {}
    BY <1>2
  <2>. QED
    BY <2>1
<1>. QED
  BY <1>1, <1>2

\* pop() removes the one occurrence of the id it returns.
LEMMA PopRemovesOldest ==
  ASSUME messageIds \in Seq(Requests), messageIds # <<>>
  PROVE  /\ Len(Popped) = Len(messageIds) - 1
         /\ Len(messageIds) \in Nat \ {0}
         /\ \A i \in 1..Len(Popped) : Popped[i] = messageIds[i]
         /\ Oldest = messageIds[Len(messageIds)]
<1>1. Len(messageIds) \in Nat \ {0}
  OBVIOUS
<1>2. Len(messageIds) - 1 \in Nat /\ Len(messageIds) - 1 <= Len(messageIds)
  BY <1>1
<1>3. Popped = SubSeq(messageIds, 1, Len(messageIds) - 1)
  BY DEF Popped
<1>4. Oldest = messageIds[Len(messageIds)]
  BY DEF Oldest
<1>5. /\ Len(Popped) = Len(messageIds) - 1
      /\ \A i \in 1..(Len(messageIds) - 1) : Popped[i] = messageIds[i]
  <2>. DEFINE n == Len(messageIds) - 1
  <2>1. n \in Nat /\ \A i \in 1..n : messageIds[i] \in Requests
    BY <1>1
  <2>. HIDE DEF n
  <2>2. /\ Len(SubSeq(messageIds, 1, n)) = IF 1 <= n THEN n - 1 + 1 ELSE 0
        /\ \A i \in 1..(n - 1 + 1) : SubSeq(messageIds, 1, n)[i] = messageIds[1 + i - 1]
    BY <2>1, SubSeqProperties
  <2>3. n - 1 + 1 = n /\ (~(1 <= n) => n = 0)
    BY <2>1
  <2>4. ASSUME NEW i \in 1..n
        PROVE  SubSeq(messageIds, 1, n)[i] = messageIds[i]
    <3>1. 1 + i - 1 = i
      OBVIOUS
    <3>. QED
      BY <2>2, <2>3, <3>1
  <2>5. Popped = SubSeq(messageIds, 1, n)
    BY <1>3 DEF n
  <2>6. Len(Popped) = n
    BY <2>2, <2>3, <2>5
  <2>7. \A i \in 1..n : Popped[i] = messageIds[i]
    BY <2>4, <2>5
  <2>. QED
    BY <2>6, <2>7 DEF n
<1>. QED
  BY <1>1, <1>4, <1>5

\* Giving the oldest id away takes it from the queue.
LEMMA NotifyIds ==
  ASSUME TypeOK, IdsInv, NoneTakenBack, NEW r \in Requests \cup {None},
         NEW kind \in {"response", "error"}, Notify(r, kind)
  PROVE  IdsInv'
<1>. DEFINE given == [id |-> Oldest, kind |-> kind, request |-> r]
<1>1. messageIds' = Popped /\ answers' = answers \cup {given} /\ given.id = Oldest
  BY DEF Notify
<1>2. CASE messageIds = <<>>
  <2>1. Oldest = None /\ messageIds' = messageIds /\ 1..Len(messageIds) = {}
    BY <1>1, <1>2 DEF Oldest, Popped
  <2>. HIDE DEF given
  <2>. QED
    BY <1>1, <2>1, WCClientAssumption
       DEF IdsInv, QueueHasNoDoubles, NewIdsAreUnused, NoIdAnsweredTwice, NoneTakenBack
<1>3. CASE messageIds # <<>>
  <2>. DEFINE n == Len(messageIds)
  <2>1. /\ n \in Nat \ {0}
        /\ Len(messageIds') = n - 1
        /\ \A i \in 1..(n - 1) : messageIds'[i] = messageIds[i]
        /\ given.id = messageIds[n]
    BY <1>1, <1>3, PopRemovesOldest DEF TypeOK
  <2>2. messageIds[n] \in Requests
    BY <2>1 DEF TypeOK
  <2>3. \A i \in 1..(n - 1) : i \in 1..n /\ i # n
    BY <2>1
  <2>4. n \in 1..n
    BY <2>1
  <2>. HIDE DEF given, n
  <2>5. QueueHasNoDoubles'
    BY <2>1, <2>3 DEF IdsInv, QueueHasNoDoubles, n
  <2>6. \A i \in 1..(n - 1) : messageIds'[i] # messageIds[n]
    BY <2>1, <2>3, <2>4 DEF IdsInv, QueueHasNoDoubles, n
  <2>7. \A a \in answers : a.id # messageIds[n]
    BY <2>2, <2>4, WCClientAssumption DEF IdsInv, NoIdAnsweredTwice, n
  <2>8. NewIdsAreUnused'
    BY <1>1, <2>1, <2>3, <2>4
       DEF IdsInv, NewIdsAreUnused, NoneTakenBack, n
  <2>9. NoIdAnsweredTwice'
    BY <1>1, <2>1, <2>3, <2>6, <2>7 DEF IdsInv, NoIdAnsweredTwice, n
  <2>. QED
    BY <2>5, <2>8, <2>9 DEF IdsInv
<1>. QED
  BY <1>2, <1>3

\* The id of a new message is put before the others.
LEMMA SendMessageIds ==
  ASSUME TypeOK, IdsInv, NEW r \in Requests, SendMessage(r)
  PROVE  IdsInv'
<1>1. /\ stage[r] = "new"
      /\ messageIds' = <<r>> \o messageIds
      /\ answers' = answers
  BY DEF SendMessage, Unshifted
<1>2. stage'[r] # "new" /\ \A q \in Requests : q # r => stage'[q] = stage[q]
  BY DEF SendMessage, UseSession, Move, TypeOK
<1>3. /\ Len(messageIds) \in Nat
      /\ Len(messageIds') = Len(messageIds) + 1
      /\ messageIds'[1] = r
      /\ \A i \in 2..Len(messageIds') :
           i - 1 \in 1..Len(messageIds) /\ messageIds'[i] = messageIds[i - 1]
  BY <1>1 DEF TypeOK
<1>4. /\ \A i \in 1..Len(messageIds) : messageIds[i] # r
      /\ \A a \in answers : a.id # r
  BY <1>1 DEF IdsInv, NewIdsAreUnused
<1>5. \A i \in 1..Len(messageIds') :
        \/ i = 1 /\ messageIds'[i] = r
        \/ i # 1 /\ i - 1 \in 1..Len(messageIds) /\ messageIds'[i] = messageIds[i - 1]
  BY <1>3
<1>6. QueueHasNoDoubles'
  <2>. SUFFICES ASSUME NEW i \in 1..Len(messageIds'), NEW j \in 1..Len(messageIds'),
                       messageIds'[i] = messageIds'[j]
                PROVE  i = j
    BY DEF QueueHasNoDoubles
  <2>1. CASE i # 1 /\ j # 1
    <3>1. i - 1 = j - 1
      BY <1>5, <2>1 DEF IdsInv, QueueHasNoDoubles
    <3>. QED
      BY <1>3, <3>1
  <2>2. CASE i = 1 \/ j = 1
    BY <1>4, <1>5, <2>2
  <2>. QED
    BY <2>1, <2>2
<1>7. NewIdsAreUnused'
  BY <1>1, <1>2, <1>5 DEF IdsInv, NewIdsAreUnused
<1>8. NoIdAnsweredTwice'
  BY <1>1, <1>4, <1>5 DEF IdsInv, NoIdAnsweredTwice
<1>. QED
  BY <1>6, <1>7, <1>8 DEF IdsInv

\* Every step keeps the ids in the queue and those given away apart.
LEMMA NextIdsInv == TypeOK /\ IdsInv /\ [Next]_vars => IdsInv'
<1>. SUFFICES ASSUME TypeOK, IdsInv, [Next]_vars
              PROVE  IdsInv'
  OBVIOUS
<1>. USE DEF requestVars, clientVars
<1>1. ASSUME NEW r \in Requests, NEW to \in Stages \ {"new"}, NEW s, Move(r, to, s)
      PROVE  NoneTakenBack
  BY <1>1 DEF NoneTakenBack, Move, TypeOK
<1>2. ASSUME UNCHANGED stage
      PROVE  NoneTakenBack
  BY <1>2 DEF NoneTakenBack
<1>3. ASSUME NEW r \in Requests, SendMessage(r)
      PROVE  IdsInv'
  BY <1>3, SendMessageIds
<1>4. ASSUME NEW r \in Requests, PrepareRequest(r)
      PROVE  IdsInv'
  BY <1>1, <1>4, IdsFrame, StageNames
     DEF PrepareRequest, NoSignClient, NotConnected, CheckAndExtendSession, Fail
<1>5. ASSUME NEW r \in Requests, AskWallet(r)
      PROVE  IdsInv'
  BY <1>1, <1>5, IdsFrame, StageNames DEF AskWallet, Fail
<1>6. ASSUME NEW r \in Requests, FinishPermission(r)
      PROVE  IdsInv'
  BY <1>1, <1>6, IdsFrame, NotifyIds, StageNames DEF FinishPermission, NoAccounts, Fail
<1>7. ASSUME NEW r \in Requests, NEW kind \in {"response", "error"},
             WalletAnswers(r, kind)
      PROVE  IdsInv'
  BY <1>1, <1>7, NotifyIds, StageNames DEF WalletAnswers
<1>8. ASSUME NEW r \in Requests, NEW s \in Sessions, NEW n \in Namespaces,
             OpenSession(r, s, n)
      PROVE  IdsInv'
  BY <1>1, <1>8, IdsFrame, StageNames DEF OpenSession, UseSession
<1>9. ASSUME NEW r \in Requests, NEW s \in Sessions, NEW n \in Namespaces,
             OpenSessionInvalid(r, s, n)
      PROVE  IdsInv'
  BY <1>1, <1>9, NotifyIds, StageNames DEF OpenSessionInvalid
<1>10. ASSUME NEW r \in Requests, NEW expired \in BOOLEAN,
              OpenSessionFails(r, expired)
       PROVE  IdsInv'
  <2>1. NoneTakenBack
    BY <1>1, <1>10, StageNames DEF OpenSessionFails, UseSession
  <2>2. CASE expired
    BY <1>10, <2>1, <2>2, IdsFrame DEF OpenSessionFails
  <2>3. CASE ~expired
    BY <1>10, <2>1, <2>3, NotifyIds DEF OpenSessionFails
  <2>. QED
    BY <2>2, <2>3
<1>11. ASSUME NEW s \in Sessions, NEW n \in Namespaces, PairingApproved(s, n)
       PROVE  IdsInv'
  BY <1>2, <1>11, IdsFrame, NotifyIds DEF PairingApproved
<1>12. ASSUME NEW s \in Sessions,
              SessionUpdated(s) \/ WalletClosesSession(s) \/ FinishDisconnect(s)
       PROVE  IdsInv'
  BY <1>2, <1>12, IdsFrame DEF SessionUpdated, WalletClosesSession, FinishDisconnect
<1>13. ASSUME NEW why \in {"close", "init"}, ClosePairings(why)
       PROVE  IdsInv'
  BY <1>2, <1>13, IdsFrame DEF ClosePairings
<1>14. ASSUME PairingRejected
       PROVE  IdsInv'
  BY <1>2, <1>14, NotifyIds DEF PairingRejected
<1>15. ASSUME FinishClose \/ StorageReset \/ RefreshState
       PROVE  IdsInv'
  BY <1>2, <1>15, IdsFrame DEF FinishClose, StorageReset, RefreshState
<1>16. ASSUME UNCHANGED vars
       PROVE  IdsInv'
  BY <1>2, <1>16, IdsFrame DEF vars
<1>. QED
  BY <1>3, <1>4, <1>5, <1>6, <1>7, <1>8, <1>9, <1>10, <1>11, <1>12,
     <1>13, <1>14, <1>15, <1>16
     DEF Next

\* However answers overtake each other, and whatever fails or is closed in
\* between, the queue gives no id away twice (messageIds.unshift and pop).
THEOREM IdsAreGivenOnce == Spec => []NoIdAnsweredTwice
<1>1. Init => IdsInv
  BY DEF Init, IdsInv, QueueHasNoDoubles, NewIdsAreUnused, NoIdAnsweredTwice
<1>2. IdsInv => NoIdAnsweredTwice
  BY DEF IdsInv
<1>. QED
  BY <1>1, <1>2, NextIdsInv, TypeCorrect, PTL DEF Spec

-----------------------------------------------------------------------------
(***************************************************************************)
(* Answers in order                                                        *)
(***************************************************************************)

\* The order of the requests ends with those that wait for an answer, and the
\* queue is that end, turned round.
QueueIsWaiting ==
  LET n == Len(order)
      m == Len(messageIds)
  IN  /\ m <= n
      /\ \A i \in 1..m : messageIds[i] = order[n + 1 - i]
      /\ \A i \in 1..n : stage[order[i]] \in Pending <=> n - m < i

\* Requests are noted when they are sent, each of them once.
OrderIsOfSent ==
  /\ \A i, j \in 1..Len(order) : order[i] = order[j] => i = j
  /\ \A i \in 1..Len(order) : stage[order[i]] # "new"
  /\ \A r \in Requests : stage[r] \in Pending => \E i \in 1..Len(order) : order[i] = r

AnswersMatch == \A a \in answers : a.id = a.request

OrderInv ==
  order # None => /\ tearing = "no"
                  /\ QueueIsWaiting
                  /\ OrderIsOfSent
                  /\ AnswersMatch

\* Which stages are those of a request that waits.
LEMMA PendingNames ==
  /\ "dispatched" \in Pending /\ "preparing" \in Pending /\ "asked" \in Pending
  /\ "opening" \in Pending /\ "fetching" \in Pending
  /\ "new" \notin Pending /\ "finished" \notin Pending
  BY DEF Pending

\* A step of a handler that goes on waiting, or no step of a handler.
LEMMA OrderFrame ==
  ASSUME OrderInv,
         UNCHANGED <<order, messageIds, answers, tearing>>,
         \A r \in Requests : /\ stage'[r] \in Pending <=> stage[r] \in Pending
                             /\ stage'[r] = "new" => stage[r] = "new",
         TypeOK
  PROVE  OrderInv'
<1>. SUFFICES ASSUME order # None PROVE OrderInv'
  BY DEF OrderInv
<1>1. \A i \in 1..Len(order) : order[i] \in Requests
  BY DEF TypeOK
<1>2. QueueIsWaiting'
  BY <1>1 DEF OrderInv, QueueIsWaiting
<1>3. OrderIsOfSent'
  BY <1>1 DEF OrderInv, OrderIsOfSent
<1>4. AnswersMatch'
  BY DEF OrderInv, AnswersMatch
<1>. QED
  BY <1>2, <1>3, <1>4 DEF OrderInv

\* A handler goes on waiting.
LEMMA MoveOnOrder ==
  ASSUME TypeOK, OrderInv, UNCHANGED <<order, messageIds, answers, tearing>>,
         NEW r \in Requests, stage[r] \in Pending,
         NEW to \in Pending, NEW s, Move(r, to, s)
  PROVE  OrderInv'
<1>1. \A q \in Requests : stage'[q] = IF q = r THEN to ELSE stage[q]
  BY DEF Move, TypeOK
<1>2. to # "new"
  BY PendingNames
<1>. QED
  BY <1>1, <1>2, OrderFrame

\* A message that is sent comes last in the order and first in the queue.
LEMMA SendOrder ==
  ASSUME TypeOK, OrderInv, NEW r \in Requests, stage[r] = "new",
         messageIds' = Unshifted(r), Sent(r), UNCHANGED <<answers, tearing>>,
         NEW to \in Pending, NEW s, Move(r, to, s)
  PROVE  OrderInv'
<1>. SUFFICES ASSUME order # None PROVE OrderInv'
  BY DEF OrderInv, Sent
<1>. DEFINE n == Len(order)
            m == Len(messageIds)
<1>1. /\ n \in Nat /\ m \in Nat
      /\ order \in Seq(Requests)
      /\ \A i \in 1..n : order[i] \in Requests
  BY DEF TypeOK
<1>2. /\ Len(order') = n + 1
      /\ order'[n + 1] = r
      /\ \A i \in 1..n : order'[i] = order[i]
  BY <1>1 DEF Sent
<1>3. /\ Len(messageIds') = m + 1
      /\ messageIds'[1] = r
      /\ \A i \in 2..m + 1 : i - 1 \in 1..m /\ messageIds'[i] = messageIds[i - 1]
  BY <1>1 DEF Unshifted, TypeOK
<1>4. \A q \in Requests : stage'[q] = IF q = r THEN to ELSE stage[q]
  BY DEF Move, TypeOK
<1>5. to # "new"
  BY PendingNames
<1>6. \A i \in 1..n : order[i] # r
  BY DEF OrderInv, OrderIsOfSent
<1>7. QueueIsWaiting /\ OrderIsOfSent /\ AnswersMatch /\ tearing = "no"
  BY DEF OrderInv
<1>8. QueueIsWaiting'
  <2>. HIDE DEF n, m
  <2>1. m <= n /\ m + 1 <= n + 1 /\ (n + 1) - (m + 1) = n - m
    BY <1>1, <1>7 DEF QueueIsWaiting, n, m
  <2>2. ASSUME NEW i \in 1..(m + 1)
        PROVE  messageIds'[i] = order'[(n + 1) + 1 - i]
    <3>1. CASE i = 1
      <4>1. (n + 1) + 1 - 1 = n + 1
        BY <1>1
      <4>. QED
        BY <1>2, <1>3, <3>1, <4>1
    <3>2. CASE i # 1
      <4>1. i \in 2..(m + 1) /\ i - 1 \in 1..m
        BY <1>1, <3>2
      <4>2. messageIds'[i] = messageIds[i - 1]
        BY <1>3, <4>1
      <4>3. messageIds[i - 1] = order[n + 1 - (i - 1)]
        BY <1>7, <4>1 DEF QueueIsWaiting, n, m
      <4>4. n + 1 - (i - 1) = (n + 1) + 1 - i /\ n + 1 - (i - 1) \in 1..n
        BY <1>1, <2>1, <4>1
      <4>. QED
        BY <1>2, <4>2, <4>3, <4>4
    <3>. QED
      BY <3>1, <3>2
  <2>3. ASSUME NEW i \in 1..(n + 1)
        PROVE  stage'[order'[i]] \in Pending <=> n - m < i
    <3>1. CASE i = n + 1
      BY <1>1, <1>2, <1>4, <3>1
    <3>2. CASE i # n + 1
      <4>1. i \in 1..n
        BY <1>1, <3>2
      <4>2. order'[i] = order[i] /\ order[i] \in Requests /\ order[i] # r
        BY <1>1, <1>2, <1>6, <4>1 DEF n
      <4>3. stage[order[i]] \in Pending <=> n - m < i
        BY <1>7, <4>1 DEF QueueIsWaiting, n, m
      <4>. QED
        BY <1>4, <4>2, <4>3
    <3>. QED
      BY <3>1, <3>2
  <2>. QED
    BY <1>2, <1>3, <2>1, <2>2, <2>3 DEF QueueIsWaiting
<1>9. OrderIsOfSent'
  <2>1. \A i \in 1..(n + 1) : i # n + 1 => i \in 1..n
    BY <1>1
  <2>2. n + 1 \in 1..(n + 1) /\ \A i \in 1..n : i \in 1..(n + 1)
    BY <1>1
  <2>. HIDE DEF n
  <2>3. \A i, j \in 1..Len(order') : order'[i] = order'[j] => i = j
    BY <1>2, <1>6, <1>7, <2>1 DEF OrderIsOfSent, n
  <2>4. \A i \in 1..Len(order') : stage'[order'[i]] # "new"
    BY <1>1, <1>2, <1>4, <1>5, <1>7, <2>1 DEF OrderIsOfSent, n
  <2>5. ASSUME NEW q \in Requests, stage'[q] \in Pending
        PROVE  \E i \in 1..Len(order') : order'[i] = q
    <3>1. CASE q = r
      BY <1>2, <2>2, <3>1
    <3>2. CASE q # r
      <4>1. PICK i \in 1..n : order[i] = q
        BY <1>4, <1>7, <2>5, <3>2 DEF OrderIsOfSent, n
      <4>. QED
        BY <1>2, <2>2, <4>1
    <3>. QED
      BY <3>1, <3>2
  <2>. QED
    BY <2>3, <2>4, <2>5 DEF OrderIsOfSent
<1>10. AnswersMatch'
  BY <1>7 DEF AnswersMatch
<1>. QED
  BY <1>7, <1>8, <1>9, <1>10 DEF OrderInv

\* A request that no other waits before is the one whose id is popped.
LEMMA AnswerOrder ==
  ASSUME TypeOK, OrderInv, NEW r \in Requests, stage[r] \in Pending,
         NEW kind, Notify(r, kind), Move(r, "finished", None), AnswersInTurn(r),
         UNCHANGED tearing
  PROVE  OrderInv'
<1>. SUFFICES ASSUME order # None, ~Overtakes(r) PROVE OrderInv'
  BY DEF OrderInv, AnswersInTurn
<1>. DEFINE n == Len(order)
            m == Len(messageIds)
<1>1. /\ n \in Nat /\ m \in Nat
      /\ messageIds \in Seq(Requests)
      /\ \A i \in 1..n : order[i] \in Requests
  BY DEF TypeOK
<1>2. QueueIsWaiting /\ OrderIsOfSent /\ AnswersMatch /\ tearing = "no"
  BY DEF OrderInv
<1>3. \A q \in Requests : stage'[q] = IF q = r THEN "finished" ELSE stage[q]
  BY DEF Move, TypeOK
<1>4. order' = order
  BY DEF AnswersInTurn
<1>5. PICK j \in 1..n : order[j] = r
  BY <1>2 DEF OrderIsOfSent
<1>6. n - m < j /\ m <= n /\ m # 0
  <2>1. n - m < j /\ m <= n
    BY <1>2, <1>5 DEF QueueIsWaiting
  <2>. QED
    BY <1>1, <1>5, <2>1
<1>7. j = n - m + 1
  <2>1. n - m + 1 \in 1..n
    BY <1>1, <1>6
  <2>2. stage[order[n - m + 1]] \in Pending
    BY <1>1, <1>2, <2>1 DEF QueueIsWaiting
  <2>3. ~(n - m + 1 < j)
    BY <1>5, <2>1, <2>2 DEF Overtakes
  <2>. QED
    BY <1>1, <1>5, <1>6, <2>3
<1>8. messageIds # <<>>
  BY <1>6
<1>9. /\ Len(Popped) = m - 1
      /\ \A i \in 1..(m - 1) : Popped[i] = messageIds[i]
      /\ Oldest = messageIds[m]
  BY <1>1, <1>8, PopRemovesOldest
<1>10. Oldest = r
  <2>1. m \in 1..m /\ n + 1 - m = j
    BY <1>1, <1>6, <1>7
  <2>. QED
    BY <1>2, <1>5, <1>9, <2>1 DEF QueueIsWaiting
<1>11. messageIds' = Popped
  BY DEF Notify
<1>12. QueueIsWaiting'
  <2>1. \A i \in 1..(m - 1) : i \in 1..m
    BY <1>1
  <2>2. m - 1 <= n
    BY <1>1, <1>6
  <2>. HIDE DEF n, m
  <2>3. \A i \in 1..(m - 1) : messageIds'[i] = order[n + 1 - i]
    BY <1>2, <1>9, <1>11, <2>1 DEF QueueIsWaiting, n, m
  <2>4. ASSUME NEW i \in 1..n
        PROVE  stage'[order[i]] \in Pending <=> n - (m - 1) < i
    <3>1. CASE i = j
      BY <1>1, <1>3, <1>5, <1>7, <3>1, PendingNames
    <3>2. CASE i # j
      <4>1. order[i] # r /\ order[i] \in Requests
        BY <1>1, <1>2, <1>5, <3>2 DEF OrderIsOfSent, n
      <4>2. stage[order[i]] \in Pending <=> n - m < i
        BY <1>2 DEF QueueIsWaiting, n, m
      <4>3. n - m < i <=> n - (m - 1) < i
        BY <1>1, <1>7, <3>2
      <4>. QED
        BY <1>3, <4>1, <4>2, <4>3
    <3>. QED
      BY <3>1, <3>2
  <2>5. Len(messageIds') = m - 1 /\ Len(order') = n
    BY <1>4, <1>9, <1>11 DEF n
  <2>. QED
    BY <1>4, <2>2, <2>3, <2>4, <2>5 DEF QueueIsWaiting
<1>13. OrderIsOfSent'
  BY <1>1, <1>2, <1>3, <1>4, PendingNames DEF OrderIsOfSent
<1>14. AnswersMatch'
  BY <1>2, <1>10 DEF AnswersMatch, Notify
<1>. QED
  BY <1>2, <1>12, <1>13, <1>14 DEF OrderInv

\* Every step keeps the order or gives it up.
LEMMA NextOrderInv == TypeOK /\ OrderInv /\ [Next]_vars => OrderInv'
<1>. SUFFICES ASSUME TypeOK, OrderInv, [Next]_vars
              PROVE  OrderInv'
  OBVIOUS
<1>. USE DEF requestVars, clientVars
<1>1. ASSUME Disorder
      PROVE  OrderInv'
  BY <1>1 DEF Disorder, OrderInv
<1>2. ASSUME UNCHANGED <<order, messageIds, answers, tearing, stage>>
      PROVE  OrderInv'
  BY <1>2, OrderFrame
<1>3. ASSUME NEW r \in Requests, SendMessage(r)
      PROVE  OrderInv'
  BY <1>1, <1>3, SendOrder, PendingNames DEF SendMessage, UseSession
<1>4. ASSUME NEW r \in Requests, PrepareRequest(r)
      PROVE  OrderInv'
  BY <1>1, <1>4, MoveOnOrder, PendingNames
     DEF PrepareRequest, NoSignClient, NotConnected, CheckAndExtendSession, Fail
<1>5. ASSUME NEW r \in Requests, AskWallet(r)
      PROVE  OrderInv'
  BY <1>1, <1>5, MoveOnOrder, PendingNames DEF AskWallet, Fail
<1>6. ASSUME NEW r \in Requests, FinishPermission(r)
      PROVE  OrderInv'
  BY <1>1, <1>6, AnswerOrder, PendingNames DEF FinishPermission, NoAccounts, Fail
<1>7. ASSUME NEW r \in Requests, NEW kind \in {"response", "error"},
             WalletAnswers(r, kind)
      PROVE  OrderInv'
  BY <1>7, AnswerOrder, PendingNames DEF WalletAnswers
<1>8. ASSUME NEW r \in Requests, NEW s \in Sessions, NEW n \in Namespaces,
             OpenSession(r, s, n)
      PROVE  OrderInv'
  BY <1>8, MoveOnOrder, PendingNames DEF OpenSession, UseSession
<1>9. ASSUME NEW r \in Requests, NEW s \in Sessions, NEW n \in Namespaces,
             OpenSessionInvalid(r, s, n)
      PROVE  OrderInv'
  BY <1>1, <1>9 DEF OpenSessionInvalid
<1>10. ASSUME NEW r \in Requests, NEW expired \in BOOLEAN,
              OpenSessionFails(r, expired)
       PROVE  OrderInv'
  BY <1>1, <1>10 DEF OpenSessionFails
<1>11. ASSUME NEW s \in Sessions, NEW n \in Namespaces, PairingApproved(s, n)
       PROVE  OrderInv'
  BY <1>1, <1>2, <1>11 DEF PairingApproved
<1>12. ASSUME NEW s \in Sessions,
              SessionUpdated(s) \/ WalletClosesSession(s) \/ FinishDisconnect(s)
       PROVE  OrderInv'
  BY <1>1, <1>2, <1>12 DEF SessionUpdated, WalletClosesSession, FinishDisconnect
<1>13. ASSUME NEW why \in {"close", "init"}, ClosePairings(why)
       PROVE  OrderInv'
  BY <1>1, <1>13 DEF ClosePairings
<1>14. ASSUME PairingRejected \/ StorageReset \/ RefreshState
       PROVE  OrderInv'
  BY <1>1, <1>14 DEF PairingRejected, StorageReset, RefreshState
<1>15. ASSUME FinishClose
       PROVE  OrderInv'
  BY <1>15 DEF FinishClose, OrderInv
<1>16. ASSUME UNCHANGED vars
       PROVE  OrderInv'
  BY <1>2, <1>16 DEF vars
<1>. QED
  BY <1>3, <1>4, <1>5, <1>6, <1>7, <1>8, <1>9, <1>10, <1>11, <1>12,
     <1>13, <1>14, <1>15, <1>16
     DEF Next

\* As long as nothing fails and the wallet answers in the order it was asked,
\* the queue, which knows no requests, gives each answer the id of its own, for
\* any number of requests on their way (messageIds.unshift and pop, sendMessage).
THEOREM OrderlyAnswersAreMatched == Spec => []OrderlyAnswersMatch
<1>1. Init => OrderInv
  <2>. SUFFICES ASSUME Init PROVE OrderInv
    OBVIOUS
  <2>1. Len(order) = 0 /\ Len(messageIds) = 0 /\ 1..0 = {} /\ answers = {} /\ tearing = "no"
    BY DEF Init
  <2>2. \A r \in Requests : stage[r] \notin Pending
    BY PendingNames DEF Init
  <2>. QED
    BY <2>1, <2>2 DEF OrderInv, QueueIsWaiting, OrderIsOfSent, AnswersMatch
<1>2. TypeOK /\ OrderInv => OrderlyAnswersMatch
  <2>. SUFFICES ASSUME TypeOK, OrderInv, order # None
                PROVE  /\ \A a \in answers : a.id = a.request
                       /\ {messageIds[i] : i \in 1..Len(messageIds)}
                            = {r \in Requests : stage[r] \in Pending}
    BY DEF OrderlyAnswersMatch
  <2>. DEFINE n == Len(order)
              m == Len(messageIds)
  <2>1. QueueIsWaiting /\ OrderIsOfSent /\ AnswersMatch /\ m <= n
    BY DEF OrderInv, QueueIsWaiting
  <2>2. n \in Nat /\ m \in Nat
    BY DEF TypeOK
  <2>3. ASSUME NEW i \in 1..m
        PROVE  messageIds[i] \in Requests /\ stage[messageIds[i]] \in Pending
    <3>1. n + 1 - i \in 1..n /\ n - m < n + 1 - i
      BY <2>1, <2>2
    <3>2. messageIds[i] = order[n + 1 - i] /\ stage[order[n + 1 - i]] \in Pending
      BY <2>1, <3>1 DEF QueueIsWaiting
    <3>. QED
      BY <3>2 DEF TypeOK
  <2>4. ASSUME NEW r \in Requests, stage[r] \in Pending
        PROVE  \E i \in 1..m : messageIds[i] = r
    <3>1. PICK j \in 1..n : order[j] = r
      BY <2>1, <2>4 DEF OrderIsOfSent
    <3>2. n - m < j
      BY <2>1, <2>4, <3>1 DEF QueueIsWaiting
    <3>3. n + 1 - j \in 1..m /\ n + 1 - (n + 1 - j) = j
      BY <2>2, <3>2
    <3>4. messageIds[n + 1 - j] = r
      BY <2>1, <3>1, <3>3 DEF QueueIsWaiting
    <3>. QED
      BY <3>3, <3>4
  <2>. QED
    BY <2>1, <2>3, <2>4 DEF AnswersMatch
<1>. QED
  BY <1>1, <1>2, NextOrderInv, TypeCorrect, PTL DEF Spec

=============================================================================
