------------------------- MODULE RequestFlowProofs -------------------------
(***************************************************************************)
(* Theorems about RequestFlow for any number of dApps and requests, any    *)
(* transport (duplicating or not), any removals and restarts.              *)
(***************************************************************************)
EXTENDS RequestFlow, FiniteSetTheorems, TLAPS

-----------------------------------------------------------------------------
(***************************************************************************)
(* The inductive invariant                                                 *)
(***************************************************************************)

\* Nothing of the system knows an id before its dApp drew it.
IdleRequestsAreUnknown ==
  \A r \in Requests : phase[r] = "idle" =>
    /\ r \notin openRequests
    /\ r \notin toWallet
    /\ r \notin prompted
    /\ promise[r] = NewPromise(Nothing)
    /\ answered[r] = {}
    /\ \A stage \in {"intercept", "store"}, seen \in SUBSET DApps :
         <<r, stage, seen>> \notin intercepting

\* A request whose page is gone is waited for by nobody.
GoneRequestsAreForgotten ==
  \A r \in Requests : phase[r] = "gone" =>
    /\ r \notin openRequests
    /\ IsPending(promise[r])
    /\ \A a \in Answers : <<r, a>> \notin settling

\* Every answer, wherever it has got to, was given by the user.
AnswersWereGiven ==
  \A r \in Requests, a \in Answers :
    \/ a \in answered[r]
    \/ /\ <<r, a>> \notin composing
       /\ <<r, a>> \notin sending
       /\ \A d \in DApps : <<d, r, a>> \notin toDApp
       /\ <<r, a>> \notin settling
       /\ promise[r].value # a

IInv ==
  /\ TypeOK
  /\ IdleRequestsAreUnknown
  /\ GoneRequestsAreForgotten
  /\ AnswersWereGiven

-----------------------------------------------------------------------------
(***************************************************************************)
(* What the OutgoingResponseInterceptor makes of a message                 *)
(***************************************************************************)

\* An acknowledgement is sent, whatever it acknowledges: nothing is composed.
LEMMA AcknowledgementIsSent ==
  ASSUME NEW r \in Requests, SendAcknowledgeResponse(r)
  PROVE  /\ sending' = sending \cup {<<r, "acknowledge">>}
         /\ UNCHANGED composing
  BY DEF SendAcknowledgeResponse, InterceptResponse, HandleV2Response,
         HandleV3Response

\* What the app answers is composed or sent; a permission response of version 2
\* is never sent before it is composed.
LEMMA ResponseIsSentOrComposed ==
  ASSUME NEW r \in Requests, NEW a \in AppAnswers, InterceptResponse(r, a)
  PROVE  \/ /\ composing' = composing \cup {<<r, a>>}
            /\ UNCHANGED sending
         \/ /\ Kind[r] # "permission" \/ Version[r] # "2" \/ a = "abort"
            /\ sending' = sending \cup {<<r, a>>}
            /\ UNCHANGED composing
  <1>1. a # "acknowledge"
    BY RequestFlowAssumption DEF Answers
  <1>. QED
    BY <1>1 DEF InterceptResponse, HandleV2Response, HandleV3Response

-----------------------------------------------------------------------------
(***************************************************************************)
(* Type correctness                                                        *)
(***************************************************************************)

\* The initial state has the declared types.
LEMMA InitTypeOK == Init => TypeOK
  BY DEF Init, TypeOK, Promise, NewPromise, Nothing

\* Every step keeps the declared types; in particular ReceiveRequest and
\* Respond keep at most one pending entry for each id.
LEMMA NextTypeOK ==
  ASSUME TypeOK, [Next]_vars
  PROVE  TypeOK'
<1>. USE DEF TypeOK, dAppVars, channelVars, walletVars, linkVars
<1>1. ASSUME NEW r \in Requests, MakeRequest(r)
     PROVE  TypeOK'
  BY <1>1, RequestFlowAssumption DEF MakeRequest, Promise, NewPromise, Nothing
<1>2. ASSUME NEW r \in Requests, SendRequest(r)
     PROVE  TypeOK'
  BY <1>2 DEF SendRequest
<1>3. ASSUME NEW r \in Requests, SetAccount(r)
     PROVE  TypeOK'
  BY <1>3, RequestFlowAssumption DEF SetAccount
<1>4. ASSUME NEW r \in Requests, NEW a \in Answers, FinishPermission(r, a)
     PROVE  TypeOK'
  BY <1>4 DEF FinishPermission, SettleWith, Promise, Resolve, Reject, IsSettled,
         IsResolved, IsRejected, DeleteOpenRequest
<1>5. ASSUME NEW d \in DApps, NEW r \in Requests, NEW body \in Bodies,
             ReceiveMessage(d, r, body)
     PROVE  TypeOK'
  BY <1>5 DEF ReceiveMessage, SettleWith, Promise, Resolve, Reject, IsSettled,
         IsResolved, IsRejected, DeleteOpenRequest, Delivered, Bodies
<1>6. ASSUME NEW d \in DApps, RemoveWallet(d)
     PROVE  TypeOK'
  BY <1>6 DEF RemoveWallet
<1>7. ASSUME NEW d \in DApps, ReceiveDisconnect(d)
     PROVE  TypeOK'
  BY <1>7 DEF ReceiveDisconnect, Delivered
<1>8. ASSUME NEW d \in DApps, RemoveAccounts(d)
     PROVE  TypeOK'
  BY <1>8 DEF RemoveAccounts
<1>9. ASSUME NEW d \in DApps, DAppRestart(d)
     PROVE  TypeOK'
  BY <1>9 DEF DAppRestart
<1>10. ASSUME NEW d \in DApps, Pair(d)
     PROVE  TypeOK'
  BY <1>10 DEF Pair, Listen
<1>11. ASSUME NEW r \in Requests, ReceiveRequest(r)
     PROVE  TypeOK'
  <2>1. toWallet' \subseteq Requests
    BY <1>11 DEF ReceiveRequest, Delivered
  <2>2. pendingRequests' \in [Requests -> 0..1]
    BY <1>11 DEF ReceiveRequest
  <2>3. intercepting' \subseteq Requests \X {"intercept", "store"} \X SUBSET DApps
    <3>1. <<r, "intercept", {}>> \in Requests \X {"intercept", "store"} \X SUBSET DApps
      OBVIOUS
    <3>. QED
      BY <3>1, <1>11 DEF ReceiveRequest
  <2>4. sending' \subseteq Requests \X Bodies
    BY <1>11, AcknowledgementIsSent DEF ReceiveRequest, Bodies
  <2>. QED
    BY <2>1, <2>2, <2>3, <2>4, <1>11, AcknowledgementIsSent DEF ReceiveRequest
<1>12. ASSUME NEW r \in Requests, NEW seen \in SUBSET DApps,
             InterceptRequest(r, seen)
     PROVE  TypeOK'
  <2>1. intercepting' \subseteq Requests \X {"intercept", "store"} \X SUBSET DApps
    <3>1. <<r, "store", appMetadata>> \in Requests \X {"intercept", "store"} \X SUBSET DApps
      OBVIOUS
    <3>. QED
      BY <3>1, <1>12 DEF InterceptRequest
  <2>2. prompted' \subseteq Requests
    BY <1>12 DEF InterceptRequest
  <2>. QED
    BY <2>1, <2>2, <1>12 DEF InterceptRequest
<1>13. ASSUME NEW r \in Requests, NEW seen \in SUBSET DApps,
             StoreMetadata(r, seen)
     PROVE  TypeOK'
  <2>1. appMetadata' \subseteq DApps
    BY <1>13, RequestFlowAssumption DEF StoreMetadata
  <2>2. intercepting' \subseteq Requests \X {"intercept", "store"} \X SUBSET DApps
    BY <1>13 DEF StoreMetadata
  <2>. QED
    BY <2>1, <2>2, <1>13 DEF StoreMetadata
<1>14. ASSUME NEW r \in Requests, NEW a \in AppAnswers, Respond(r, a)
     PROVE  TypeOK'
  <2>1. a \in Answers
    BY RequestFlowAssumption
  <2>2. pendingRequests' \in [Requests -> 0..1]
    BY <1>14 DEF Respond
  <2>3. answered' \in [Requests -> SUBSET Answers]
    BY <1>14, <2>1 DEF Respond
  <2>4. composing' \subseteq Requests \X Answers /\ sending' \subseteq Requests \X Bodies
    BY <1>14, <2>1, ResponseIsSentOrComposed DEF Respond, Bodies
  <2>. QED
    BY <2>2, <2>3, <2>4, <1>14 DEF Respond
<1>15. ASSUME NEW r \in Requests, NEW a \in Answers, ComposePermission(r, a)
     PROVE  TypeOK'
  BY <1>15 DEF ComposePermission, Bodies
<1>16. ASSUME NEW r \in Requests, NEW body \in Bodies, SendToDApp(r, body)
     PROVE  TypeOK'
  <2>1. toDApp' \subseteq DApps \X Requests \X Bodies
    BY <1>16, RequestFlowAssumption DEF SendToDApp
  <2>2. sending' \subseteq Requests \X Bodies
    BY <1>16 DEF SendToDApp
  <2>. QED
    BY <2>1, <2>2, <1>16 DEF SendToDApp
<1>17. ASSUME NEW d \in DApps, NEW tell \in BOOLEAN, RemovePeer(d, tell)
     PROVE  TypeOK'
  BY <1>17 DEF RemovePeer, ForgetPeer
<1>18. ASSUME NEW d \in DApps, ReceiveDisconnectFrom(d)
     PROVE  TypeOK'
  BY <1>18 DEF ReceiveDisconnectFrom, Delivered, ForgetPeer
<1>19. ASSUME Connect
     PROVE  TypeOK'
  BY <1>19 DEF Connect, Listen
<1>20. ASSUME WalletRestart
     PROVE  TypeOK'
  <2>1. pendingRequests' \in [Requests -> 0..1]
    BY <1>20 DEF WalletRestart
  <2>. QED
    BY <2>1, <1>20 DEF WalletRestart
<1>21. ASSUME UNCHANGED vars
     PROVE  TypeOK'
  BY <1>21 DEF vars
<1>. QED
  BY <1>1, <1>2, <1>3, <1>4, <1>5, <1>6, <1>7, <1>8, <1>9, <1>10,
     <1>11, <1>12, <1>13, <1>14, <1>15, <1>16, <1>17, <1>18, <1>19, <1>20,
     <1>21
     DEF Next, DAppNext, WalletNext

\* The variables of the dApps, the transport and the wallet keep their types
\* in every behaviour; the wallet's pendingRequests list never holds two
\* entries for one id (WalletClient.connect).
THEOREM TypeCorrect == Spec => []TypeOK
<1>1. Init => TypeOK
  BY InitTypeOK
<1>2. TypeOK /\ [Next]_vars => TypeOK'
  BY NextTypeOK
<1>. QED
  BY <1>1, <1>2, PTL DEF Spec

-----------------------------------------------------------------------------
(***************************************************************************)
(* Preservation of the inductive invariant                                 *)
(***************************************************************************)

\* SettleWith touches one promise, and only one that is pending.
LEMMA SettleWithSettles ==
  ASSUME TypeOK, NEW r \in Requests, NEW a \in Answers, SettleWith(r, a)
  PROVE  /\ \A q \in Requests : q # r => promise'[q] = promise[q]
         /\ IsPending(promise[r]) => /\ IsSettled(promise'[r])
                                    /\ promise'[r].value = a
         /\ ~IsPending(promise[r]) => promise'[r] = promise[r]
  BY DEF SettleWith, TypeOK, Promise, Resolve, Reject, IsPending, IsSettled,
         IsResolved, IsRejected

\* The initial state satisfies the invariant.
LEMMA InitIInv == Init => IInv
<1>. SUFFICES ASSUME Init PROVE IInv
  OBVIOUS
<1>1. TypeOK
  BY InitTypeOK
<1>2. IdleRequestsAreUnknown
  BY DEF Init, IdleRequestsAreUnknown
<1>3. GoneRequestsAreForgotten
  BY DEF Init, GoneRequestsAreForgotten
<1>4. AnswersWereGiven
  BY DEF Init, AnswersWereGiven, NewPromise, Nothing, Answers
<1>. QED
  BY <1>1, <1>2, <1>3, <1>4 DEF IInv

\* An id only gets known to the system by makeRequest.
LEMMA NextIdleRequestsAreUnknown ==
  ASSUME IInv, TypeOK', [Next]_vars
  PROVE  IdleRequestsAreUnknown'
<1>. USE DEF IInv, IdleRequestsAreUnknown, dAppVars, channelVars, walletVars,
        linkVars
<1>1. ASSUME NEW r \in Requests, MakeRequest(r)
     PROVE  IdleRequestsAreUnknown'
  BY <1>1 DEF MakeRequest, TypeOK
<1>2. ASSUME NEW r \in Requests, SendRequest(r)
     PROVE  IdleRequestsAreUnknown'
  BY <1>2 DEF SendRequest, TypeOK
<1>3. ASSUME NEW r \in Requests, SetAccount(r)
     PROVE  IdleRequestsAreUnknown'
  BY <1>3 DEF SetAccount, TypeOK
<1>4. ASSUME NEW r \in Requests, NEW a \in Answers, FinishPermission(r, a)
     PROVE  IdleRequestsAreUnknown'
  BY <1>4 DEF FinishPermission, TypeOK, AnswersWereGiven, DeleteOpenRequest, SettleWith,
         Resolve, Reject, IsSettled, IsResolved, IsRejected
<1>5. ASSUME NEW d \in DApps, NEW r \in Requests, NEW body \in Bodies,
             ReceiveMessage(d, r, body)
     PROVE  IdleRequestsAreUnknown'
  BY <1>5 DEF ReceiveMessage, TypeOK, DeleteOpenRequest, SettleWith, Resolve, Reject,
         IsSettled, IsResolved, IsRejected
<1>6. ASSUME NEW d \in DApps, RemoveWallet(d)
     PROVE  IdleRequestsAreUnknown'
  BY <1>6 DEF RemoveWallet
<1>7. ASSUME NEW d \in DApps, ReceiveDisconnect(d)
     PROVE  IdleRequestsAreUnknown'
  BY <1>7 DEF ReceiveDisconnect
<1>8. ASSUME NEW d \in DApps, RemoveAccounts(d)
     PROVE  IdleRequestsAreUnknown'
  BY <1>8 DEF RemoveAccounts
<1>9. ASSUME NEW d \in DApps, DAppRestart(d)
     PROVE  IdleRequestsAreUnknown'
  BY <1>9 DEF DAppRestart, TypeOK
<1>10. ASSUME NEW d \in DApps, Pair(d)
     PROVE  IdleRequestsAreUnknown'
  BY <1>10 DEF Pair
<1>11. ASSUME NEW r \in Requests, ReceiveRequest(r)
     PROVE  IdleRequestsAreUnknown'
  BY <1>11 DEF ReceiveRequest, TypeOK, Delivered
<1>12. ASSUME NEW r \in Requests, NEW seen \in SUBSET DApps,
             InterceptRequest(r, seen)
     PROVE  IdleRequestsAreUnknown'
  BY <1>12 DEF InterceptRequest, TypeOK
<1>13. ASSUME NEW r \in Requests, NEW seen \in SUBSET DApps,
             StoreMetadata(r, seen)
     PROVE  IdleRequestsAreUnknown'
  BY <1>13 DEF StoreMetadata, TypeOK
<1>14. ASSUME NEW r \in Requests, NEW a \in AppAnswers, Respond(r, a)
     PROVE  IdleRequestsAreUnknown'
  BY <1>14 DEF Respond, TypeOK
<1>15. ASSUME NEW r \in Requests, NEW a \in Answers, ComposePermission(r, a)
     PROVE  IdleRequestsAreUnknown'
  BY <1>15 DEF ComposePermission
<1>16. ASSUME NEW r \in Requests, NEW body \in Bodies, SendToDApp(r, body)
     PROVE  IdleRequestsAreUnknown'
  BY <1>16 DEF SendToDApp
<1>17. ASSUME NEW d \in DApps, NEW tell \in BOOLEAN, RemovePeer(d, tell)
     PROVE  IdleRequestsAreUnknown'
  BY <1>17 DEF RemovePeer
<1>18. ASSUME NEW d \in DApps, ReceiveDisconnectFrom(d)
     PROVE  IdleRequestsAreUnknown'
  BY <1>18 DEF ReceiveDisconnectFrom
<1>19. ASSUME Connect
     PROVE  IdleRequestsAreUnknown'
  BY <1>19 DEF Connect
<1>20. ASSUME WalletRestart
     PROVE  IdleRequestsAreUnknown'
  BY <1>20 DEF WalletRestart, TypeOK
<1>21. ASSUME UNCHANGED vars
     PROVE  IdleRequestsAreUnknown'
  BY <1>21 DEF vars
<1>. QED
  BY <1>1, <1>2, <1>3, <1>4, <1>5, <1>6, <1>7, <1>8, <1>9, <1>10,
     <1>11, <1>12, <1>13, <1>14, <1>15, <1>16, <1>17, <1>18, <1>19, <1>20,
     <1>21
     DEF Next, DAppNext, WalletNext

\* Nothing comes back to a page that is gone.
LEMMA NextGoneRequestsAreForgotten ==
  ASSUME IInv, TypeOK', [Next]_vars
  PROVE  GoneRequestsAreForgotten'
<1>. USE DEF IInv, GoneRequestsAreForgotten, dAppVars, channelVars,
        walletVars, linkVars
<1>1. ASSUME NEW r \in Requests, MakeRequest(r)
     PROVE  GoneRequestsAreForgotten'
  BY <1>1 DEF MakeRequest, TypeOK, IsPending, NewPromise
<1>2. ASSUME NEW r \in Requests, SendRequest(r)
     PROVE  GoneRequestsAreForgotten'
  BY <1>2 DEF SendRequest, TypeOK
<1>3. ASSUME NEW r \in Requests, SetAccount(r)
     PROVE  GoneRequestsAreForgotten'
  BY <1>3 DEF SetAccount, TypeOK
<1>4. ASSUME NEW r \in Requests, NEW a \in Answers, FinishPermission(r, a)
     PROVE  GoneRequestsAreForgotten'
  BY <1>4 DEF FinishPermission, TypeOK, DeleteOpenRequest, IsPending, SettleWith,
         Resolve, Reject, IsSettled, IsResolved, IsRejected
<1>5. ASSUME NEW d \in DApps, NEW r \in Requests, NEW body \in Bodies,
             ReceiveMessage(d, r, body)
     PROVE  GoneRequestsAreForgotten'
  BY <1>5 DEF ReceiveMessage, TypeOK, DeleteOpenRequest, IsPending, SettleWith, Resolve,
         Reject, IsSettled, IsResolved, IsRejected
<1>6. ASSUME NEW d \in DApps, RemoveWallet(d)
     PROVE  GoneRequestsAreForgotten'
  BY <1>6 DEF RemoveWallet
<1>7. ASSUME NEW d \in DApps, ReceiveDisconnect(d)
     PROVE  GoneRequestsAreForgotten'
  BY <1>7 DEF ReceiveDisconnect
<1>8. ASSUME NEW d \in DApps, RemoveAccounts(d)
     PROVE  GoneRequestsAreForgotten'
  BY <1>8 DEF RemoveAccounts
<1>9. ASSUME NEW d \in DApps, DAppRestart(d)
     PROVE  GoneRequestsAreForgotten'
  BY <1>9 DEF DAppRestart, TypeOK
<1>10. ASSUME NEW d \in DApps, Pair(d)
     PROVE  GoneRequestsAreForgotten'
  BY <1>10 DEF Pair
<1>11. ASSUME NEW r \in Requests, ReceiveRequest(r)
     PROVE  GoneRequestsAreForgotten'
  BY <1>11 DEF ReceiveRequest
<1>12. ASSUME NEW r \in Requests, NEW seen \in SUBSET DApps,
             InterceptRequest(r, seen)
     PROVE  GoneRequestsAreForgotten'
  BY <1>12 DEF InterceptRequest
<1>13. ASSUME NEW r \in Requests, NEW seen \in SUBSET DApps,
             StoreMetadata(r, seen)
     PROVE  GoneRequestsAreForgotten'
  BY <1>13 DEF StoreMetadata
<1>14. ASSUME NEW r \in Requests, NEW a \in AppAnswers, Respond(r, a)
     PROVE  GoneRequestsAreForgotten'
  BY <1>14 DEF Respond
<1>15. ASSUME NEW r \in Requests, NEW a \in Answers, ComposePermission(r, a)
     PROVE  GoneRequestsAreForgotten'
  BY <1>15 DEF ComposePermission
<1>16. ASSUME NEW r \in Requests, NEW body \in Bodies, SendToDApp(r, body)
     PROVE  GoneRequestsAreForgotten'
  BY <1>16 DEF SendToDApp
<1>17. ASSUME NEW d \in DApps, NEW tell \in BOOLEAN, RemovePeer(d, tell)
     PROVE  GoneRequestsAreForgotten'
  BY <1>17 DEF RemovePeer
<1>18. ASSUME NEW d \in DApps, ReceiveDisconnectFrom(d)
     PROVE  GoneRequestsAreForgotten'
  BY <1>18 DEF ReceiveDisconnectFrom
<1>19. ASSUME Connect
     PROVE  GoneRequestsAreForgotten'
  BY <1>19 DEF Connect
<1>20. ASSUME WalletRestart
     PROVE  GoneRequestsAreForgotten'
  BY <1>20 DEF WalletRestart
<1>21. ASSUME UNCHANGED vars
     PROVE  GoneRequestsAreForgotten'
  BY <1>21 DEF vars
<1>. QED
  BY <1>1, <1>2, <1>3, <1>4, <1>5, <1>6, <1>7, <1>8, <1>9, <1>10,
     <1>11, <1>12, <1>13, <1>14, <1>15, <1>16, <1>17, <1>18, <1>19, <1>20,
     <1>21
     DEF Next, DAppNext, WalletNext

\* No step invents an answer or gives it to another request.
LEMMA NextAnswersWereGiven ==
  ASSUME IInv, TypeOK', [Next]_vars
  PROVE  AnswersWereGiven'
<1>. USE DEF IInv, AnswersWereGiven, dAppVars, channelVars, walletVars,
        linkVars
<1>1. ASSUME NEW r \in Requests, MakeRequest(r)
     PROVE  AnswersWereGiven'
  <2>1. promise' = [promise EXCEPT ![r] = NewPromise(Nothing)]
    BY <1>1 DEF MakeRequest
  <2>2. \A q \in Requests, a \in Answers : promise[q].value # a => promise'[q].value # a
    BY <2>1 DEF TypeOK, NewPromise, Nothing, Answers
  <2>. QED
    BY <1>1, <2>2 DEF MakeRequest
<1>2. ASSUME NEW r \in Requests, SendRequest(r)
     PROVE  AnswersWereGiven'
  BY <1>2 DEF SendRequest
<1>3. ASSUME NEW r \in Requests, SetAccount(r)
     PROVE  AnswersWereGiven'
  BY <1>3 DEF SetAccount
<1>4. ASSUME NEW r \in Requests, NEW a \in Answers, FinishPermission(r, a)
     PROVE  AnswersWereGiven'
  BY <1>4 DEF FinishPermission, TypeOK, SettleWith, Resolve, Reject, IsSettled,
         IsResolved, IsRejected
<1>5. ASSUME NEW d \in DApps, NEW r \in Requests, NEW body \in Bodies,
             ReceiveMessage(d, r, body)
     PROVE  AnswersWereGiven'
  <2>. SUFFICES ASSUME NEW q \in Requests, NEW a \in Answers, a \notin answered[q]
       PROVE  /\ \A e \in DApps : <<e, q, a>> \notin toDApp'
              /\ <<q, a>> \notin settling'
              /\ promise'[q].value # a
    BY <1>5 DEF ReceiveMessage
  <2>1. \A e \in DApps : <<e, q, a>> \notin toDApp'
    BY <1>5 DEF ReceiveMessage, Delivered
  <2>2. <<q, a>> # <<r, body>>
    BY <1>5 DEF ReceiveMessage
  <2>3. <<q, a>> \notin settling'
    BY <1>5, <2>2 DEF ReceiveMessage
  <2>4. promise'[q].value # a
    <3>1. CASE promise' = promise
      BY <3>1
    <3>2. CASE SettleWith(r, body) /\ body \in Answers
      BY <3>2, <2>2, SettleWithSettles
    <3>. QED
      BY <3>1, <3>2, <1>5 DEF ReceiveMessage, Bodies
  <2>. QED
    BY <2>1, <2>3, <2>4
<1>6. ASSUME NEW d \in DApps, RemoveWallet(d)
     PROVE  AnswersWereGiven'
  BY <1>6 DEF RemoveWallet
<1>7. ASSUME NEW d \in DApps, ReceiveDisconnect(d)
     PROVE  AnswersWereGiven'
  BY <1>7 DEF ReceiveDisconnect
<1>8. ASSUME NEW d \in DApps, RemoveAccounts(d)
     PROVE  AnswersWereGiven'
  BY <1>8 DEF RemoveAccounts
<1>9. ASSUME NEW d \in DApps, DAppRestart(d)
     PROVE  AnswersWereGiven'
  BY <1>9 DEF DAppRestart
<1>10. ASSUME NEW d \in DApps, Pair(d)
     PROVE  AnswersWereGiven'
  BY <1>10 DEF Pair
<1>11. ASSUME NEW r \in Requests, ReceiveRequest(r)
     PROVE  AnswersWereGiven'
  <2>1. sending' = sending \/ sending' = sending \cup {<<r, "acknowledge">>}
    BY <1>11, AcknowledgementIsSent DEF ReceiveRequest
  <2>2. \A q \in Requests, a \in Answers : <<q, a>> \in sending' => <<q, a>> \in sending
    BY <2>1 DEF Answers
  <2>. QED
    BY <1>11, <2>2, AcknowledgementIsSent DEF ReceiveRequest
<1>12. ASSUME NEW r \in Requests, NEW seen \in SUBSET DApps,
             InterceptRequest(r, seen)
     PROVE  AnswersWereGiven'
  BY <1>12 DEF InterceptRequest
<1>13. ASSUME NEW r \in Requests, NEW seen \in SUBSET DApps,
             StoreMetadata(r, seen)
     PROVE  AnswersWereGiven'
  BY <1>13 DEF StoreMetadata
<1>14. ASSUME NEW r \in Requests, NEW a \in AppAnswers, Respond(r, a)
     PROVE  AnswersWereGiven'
  <2>1. \A q \in Requests, b \in Answers :
          /\ b \in answered[q] => b \in answered'[q]
          /\ b \notin answered'[q] => <<q, b>> # <<r, a>>
    BY <1>14 DEF Respond, TypeOK
  <2>2. \A q \in Requests, b \in Answers :
          /\ <<q, b>> \in composing' => <<q, b>> \in composing \/ <<q, b>> = <<r, a>>
          /\ <<q, b>> \in sending' => <<q, b>> \in sending \/ <<q, b>> = <<r, a>>
    <3>1. InterceptResponse(r, a)
      BY <1>14 DEF Respond
    <3>2. \/ composing' = composing \cup {<<r, a>>} /\ sending' = sending
          \/ composing' = composing /\ sending' = sending \cup {<<r, a>>}
      BY <3>1, ResponseIsSentOrComposed
    <3>. QED
      BY <3>2
  <2>. QED
    BY <1>14, <2>1, <2>2 DEF Respond
<1>15. ASSUME NEW r \in Requests, NEW a \in Answers, ComposePermission(r, a)
     PROVE  AnswersWereGiven'
  BY <1>15 DEF ComposePermission, TypeOK
<1>16. ASSUME NEW r \in Requests, NEW body \in Bodies, SendToDApp(r, body)
     PROVE  AnswersWereGiven'
  BY <1>16 DEF SendToDApp, TypeOK
<1>17. ASSUME NEW d \in DApps, NEW tell \in BOOLEAN, RemovePeer(d, tell)
     PROVE  AnswersWereGiven'
  BY <1>17 DEF RemovePeer
<1>18. ASSUME NEW d \in DApps, ReceiveDisconnectFrom(d)
     PROVE  AnswersWereGiven'
  BY <1>18 DEF ReceiveDisconnectFrom
<1>19. ASSUME Connect
     PROVE  AnswersWereGiven'
  BY <1>19 DEF Connect
<1>20. ASSUME WalletRestart
     PROVE  AnswersWereGiven'
  BY <1>20 DEF WalletRestart
<1>21. ASSUME UNCHANGED vars
     PROVE  AnswersWereGiven'
  BY <1>21 DEF vars
<1>. QED
  BY <1>1, <1>2, <1>3, <1>4, <1>5, <1>6, <1>7, <1>8, <1>9, <1>10,
     <1>11, <1>12, <1>13, <1>14, <1>15, <1>16, <1>17, <1>18, <1>19, <1>20,
     <1>21
     DEF Next, DAppNext, WalletNext

\* The invariant is inductive.
LEMMA NextIInv ==
  ASSUME IInv, [Next]_vars
  PROVE  IInv'
<1>1. TypeOK'
  BY NextTypeOK DEF IInv
<1>. QED
  BY <1>1, NextIdleRequestsAreUnknown, NextGoneRequestsAreForgotten,
     NextAnswersWereGiven DEF IInv

\* What is in flight was asked for, and what is answered was answered by the
\* user, in every state the system can reach.
THEOREM InvariantHolds == Spec => []IInv
<1>1. Init => IInv
  BY InitIInv
<1>2. IInv /\ [Next]_vars => IInv'
  BY NextIInv
<1>. QED
  BY <1>1, <1>2, PTL DEF Spec

-----------------------------------------------------------------------------
(***************************************************************************)
(* The requests implement RequestResponse                                  *)
(***************************************************************************)

\* The initial states correspond.
LEMMA InitRefines == Init => Abstract!Init
  BY DEF Init, Abstract!Init, Outcome

\* The outcome the dApp sees depends on phase and promise alone.
LEMMA OutcomeFrame ==
  ASSUME phase' = phase, promise' = promise, answered' = answered
  PROVE  UNCHANGED Abstract!vars
  BY DEF Abstract!vars, Outcome, IsPending

\* An outcome is never mistaken for an idle or a waiting request.
LEMMA OutcomeIsIdle ==
  ASSUME TypeOK, NEW r \in Requests, Outcome(r) = "idle"
  PROVE  phase[r] = "idle"
  BY DEF TypeOK, Promise, Outcome, Answers, Nothing

\* Settling a request with an answer the user gave is a step of the abstract
\* specification, and settling it again is none.
LEMMA SettlingRefines ==
  ASSUME IInv, NEW r \in Requests, NEW a \in Answers, a \in answered[r],
         phase[r] \notin {"idle", "gone"},
         SettleWith(r, a), phase' = phase, answered' = answered
  PROVE  Abstract!Settle(r, a) \/ UNCHANGED Abstract!vars
<1>. USE SettleWithSettles DEF IInv
<1>1. CASE ~IsPending(promise[r])
  <2>1. \A q \in Requests : promise'[q] = promise[q]
    BY <1>1
  <2>2. \A q \in Requests : Outcome(q)' = Outcome(q)
    BY <2>1 DEF Outcome, IsPending
  <2>. QED
    BY <2>2 DEF Abstract!vars
<1>2. CASE IsPending(promise[r])
  <2>1. Outcome(r) = "waiting"
    BY <1>2 DEF Outcome
  <2>2. Outcome(r)' = a
    BY <1>2 DEF Outcome, IsPending, IsSettled, IsResolved, IsRejected
  <2>3. \A q \in Requests : q # r => Outcome(q)' = Outcome(q)
    BY DEF Outcome, IsPending
  <2>4. [q \in Requests |-> Outcome(q)]'
          = [[q \in Requests |-> Outcome(q)] EXCEPT ![r] = a]
    BY <2>2, <2>3
  <2>. QED
    BY <2>1, <2>4 DEF Abstract!Settle
<1>. QED
  BY <1>1, <1>2

\* Every step is a step of the abstract specification or leaves it alone.
LEMMA NextRefines ==
  ASSUME IInv, [Next]_vars
  PROVE  [Abstract!Next]_(Abstract!vars)
<1>. USE DEF IInv, dAppVars, channelVars, walletVars, linkVars
<1>1. ASSUME NEW r \in Requests, MakeRequest(r)
     PROVE  [Abstract!Next]_(Abstract!vars)
  <2>1. Outcome(r) = "idle"
    BY <1>1 DEF MakeRequest, Outcome
  <2>2. Outcome(r)' = "waiting"
    BY <1>1 DEF MakeRequest, Outcome, IsPending, NewPromise, TypeOK
  <2>3. \A q \in Requests : q # r => Outcome(q)' = Outcome(q)
    BY <1>1 DEF MakeRequest, Outcome, IsPending, TypeOK
  <2>4. [q \in Requests |-> Outcome(q)]'
          = [[q \in Requests |-> Outcome(q)] EXCEPT ![r] = "waiting"]
    BY <2>2, <2>3
  <2>5. Abstract!Ask(r)
    BY <1>1, <2>1, <2>4 DEF MakeRequest, Abstract!Ask
  <2>. QED
    BY <2>5 DEF Abstract!Next
<1>2. ASSUME NEW r \in Requests, SendRequest(r)
     PROVE  [Abstract!Next]_(Abstract!vars)
  <2>1. \A q \in Requests : Outcome(q)' = Outcome(q)
    BY <1>2 DEF SendRequest, Outcome, TypeOK, IsPending
  <2>. QED
    BY <1>2, <2>1 DEF SendRequest, Abstract!vars
<1>3. ASSUME NEW r \in Requests, SetAccount(r)
     PROVE  [Abstract!Next]_(Abstract!vars)
  <2>1. \A q \in Requests : Outcome(q)' = Outcome(q)
    BY <1>3 DEF SetAccount, Outcome, TypeOK, IsPending, IsResolved
  <2>. QED
    BY <1>3, <2>1 DEF SetAccount, Abstract!vars
<1>4. ASSUME NEW r \in Requests, NEW a \in Answers, FinishPermission(r, a)
     PROVE  [Abstract!Next]_(Abstract!vars)
  <2>1. a \in answered[r] /\ phase[r] \notin {"idle", "gone"}
    BY <1>4 DEF FinishPermission, AnswersWereGiven, IdleRequestsAreUnknown,
                GoneRequestsAreForgotten
  <2>2. Abstract!Settle(r, a) \/ UNCHANGED Abstract!vars
    BY <1>4, <2>1, SettlingRefines DEF FinishPermission
  <2>. QED
    BY <2>2 DEF Abstract!Next
<1>5. ASSUME NEW d \in DApps, NEW r \in Requests, NEW body \in Bodies,
             ReceiveMessage(d, r, body)
     PROVE  [Abstract!Next]_(Abstract!vars)
  <2>1. CASE promise' = promise
    BY <1>5, <2>1, OutcomeFrame DEF ReceiveMessage
  <2>2. CASE r \in openRequests /\ body # "acknowledge" /\ SettleWith(r, body)
    <3>1. body \in Answers
      BY <2>2 DEF Bodies
    <3>2. body \in answered[r] /\ phase[r] \notin {"idle", "gone"}
      BY <1>5, <2>2, <3>1 DEF ReceiveMessage, AnswersWereGiven,
         IdleRequestsAreUnknown, GoneRequestsAreForgotten
    <3>3. Abstract!Settle(r, body) \/ UNCHANGED Abstract!vars
      BY <1>5, <2>2, <3>1, <3>2, SettlingRefines DEF ReceiveMessage
    <3>. QED
      BY <3>1, <3>3 DEF Abstract!Next
  <2>. QED
    BY <1>5, <2>1, <2>2 DEF ReceiveMessage
<1>6. ASSUME NEW d \in DApps, RemoveWallet(d)
     PROVE  [Abstract!Next]_(Abstract!vars)
  BY <1>6, OutcomeFrame DEF RemoveWallet
<1>7. ASSUME NEW d \in DApps, ReceiveDisconnect(d)
     PROVE  [Abstract!Next]_(Abstract!vars)
  BY <1>7, OutcomeFrame DEF ReceiveDisconnect
<1>8. ASSUME NEW d \in DApps, RemoveAccounts(d)
     PROVE  [Abstract!Next]_(Abstract!vars)
  BY <1>8, OutcomeFrame DEF RemoveAccounts
<1>9. ASSUME NEW d \in DApps, DAppRestart(d)
     PROVE  [Abstract!Next]_(Abstract!vars)
  <2>. DEFINE lost == {q \in Requests : Sender[q] = d /\ Outcome(q) = "waiting"}
  <2>1. \A q \in Requests : Outcome(q)' = IF q \in lost THEN "gone" ELSE Outcome(q)
    BY <1>9 DEF DAppRestart, Outcome, IsPending, TypeOK, Promise, Answers, Nothing
  <2>2. [q \in Requests |-> Outcome(q)]' = [q \in Requests |->
           IF q \in lost THEN "gone" ELSE [p \in Requests |-> Outcome(p)][q]]
    BY <2>1
  <2>3. Abstract!Abandon(lost)
    BY <1>9, <2>2 DEF DAppRestart, Abstract!Abandon
  <2>. QED
    BY <2>3 DEF Abstract!Next
<1>10. ASSUME NEW d \in DApps, Pair(d)
     PROVE  [Abstract!Next]_(Abstract!vars)
  BY <1>10, OutcomeFrame DEF Pair
<1>11. ASSUME NEW r \in Requests, ReceiveRequest(r)
     PROVE  [Abstract!Next]_(Abstract!vars)
  BY <1>11, OutcomeFrame DEF ReceiveRequest
<1>12. ASSUME NEW r \in Requests, NEW seen \in SUBSET DApps,
             InterceptRequest(r, seen)
     PROVE  [Abstract!Next]_(Abstract!vars)
  BY <1>12, OutcomeFrame DEF InterceptRequest
<1>13. ASSUME NEW r \in Requests, NEW seen \in SUBSET DApps,
             StoreMetadata(r, seen)
     PROVE  [Abstract!Next]_(Abstract!vars)
  BY <1>13, OutcomeFrame DEF StoreMetadata
<1>14. ASSUME NEW r \in Requests, NEW a \in AppAnswers, Respond(r, a)
     PROVE  [Abstract!Next]_(Abstract!vars)
  <2>1. a \in Answers
    BY RequestFlowAssumption
  <2>2. Outcome(r) # "idle"
    BY <1>14, OutcomeIsIdle DEF Respond, IdleRequestsAreUnknown
  <2>3. \A q \in Requests : Outcome(q)' = Outcome(q)
    BY <1>14 DEF Respond, Outcome, IsPending
  <2>4. Abstract!Answer(r, a)
    BY <1>14, <2>2, <2>3 DEF Respond, Abstract!Answer
  <2>. QED
    BY <2>1, <2>4 DEF Abstract!Next
<1>15. ASSUME NEW r \in Requests, NEW a \in Answers, ComposePermission(r, a)
     PROVE  [Abstract!Next]_(Abstract!vars)
  BY <1>15, OutcomeFrame DEF ComposePermission
<1>16. ASSUME NEW r \in Requests, NEW body \in Bodies, SendToDApp(r, body)
     PROVE  [Abstract!Next]_(Abstract!vars)
  BY <1>16, OutcomeFrame DEF SendToDApp
<1>17. ASSUME NEW d \in DApps, NEW tell \in BOOLEAN, RemovePeer(d, tell)
     PROVE  [Abstract!Next]_(Abstract!vars)
  BY <1>17, OutcomeFrame DEF RemovePeer
<1>18. ASSUME NEW d \in DApps, ReceiveDisconnectFrom(d)
     PROVE  [Abstract!Next]_(Abstract!vars)
  BY <1>18, OutcomeFrame DEF ReceiveDisconnectFrom
<1>19. ASSUME Connect
     PROVE  [Abstract!Next]_(Abstract!vars)
  BY <1>19, OutcomeFrame DEF Connect
<1>20. ASSUME WalletRestart
     PROVE  [Abstract!Next]_(Abstract!vars)
  BY <1>20, OutcomeFrame DEF WalletRestart
<1>21. ASSUME UNCHANGED vars
     PROVE  [Abstract!Next]_(Abstract!vars)
  BY <1>21, OutcomeFrame DEF vars
<1>. QED
  BY <1>1, <1>2, <1>3, <1>4, <1>5, <1>6, <1>7, <1>8, <1>9, <1>10,
     <1>11, <1>12, <1>13, <1>14, <1>15, <1>16, <1>17, <1>18, <1>19, <1>20,
     <1>21
     DEF Next, DAppNext, WalletNext

\* Whatever the transport duplicates, reorders, loses or hands to another
\* dApp, and whoever restarts, each request a dApp makes is settled at most
\* once, for good, with an answer the user gave to that request
\* (DAppClient.handleResponse, WalletClient.respond).
THEOREM RequestsImplementRequestResponse == Spec => ImplementsRequestResponse
<1>1. Init => Abstract!Init
  BY InitRefines
<1>2. IInv /\ [Next]_vars => [Abstract!Next]_(Abstract!vars)
  BY NextRefines
<1>. QED
  BY <1>1, <1>2, InvariantHolds, PTL
     DEF Spec, ImplementsRequestResponse, Abstract!Spec

-----------------------------------------------------------------------------
(***************************************************************************)
(* Accounts are approved                                                   *)
(***************************************************************************)

\* An address the wallet rejects never leaves it, so a request is resolved
\* with nothing but an approval.
OnlyApprovalsResolve ==
  \A r \in Requests :
    /\ <<r, "invalid">> \notin sending
    /\ <<r, "invalid">> \notin settling
    /\ \A d \in DApps : <<d, r, "invalid">> \notin toDApp
    /\ IsResolved(promise[r]) => promise[r].value = "approve"

\* No step sends an invalid approval or resolves a request with an Error.
LEMMA NextOnlyApprovalsResolve ==
  ASSUME TypeOK, OnlyApprovalsResolve, [Next]_vars
  PROVE  OnlyApprovalsResolve'
<1>. USE DEF OnlyApprovalsResolve, dAppVars, channelVars, walletVars, linkVars
<1>1. ASSUME NEW r \in Requests, MakeRequest(r)
     PROVE  OnlyApprovalsResolve'
  BY <1>1 DEF MakeRequest, TypeOK, NewPromise, IsResolved
<1>2. ASSUME NEW r \in Requests, SendRequest(r)
     PROVE  OnlyApprovalsResolve'
  BY <1>2 DEF SendRequest, IsResolved
<1>3. ASSUME NEW r \in Requests, SetAccount(r)
     PROVE  OnlyApprovalsResolve'
  BY <1>3 DEF SetAccount, IsResolved
<1>4. ASSUME NEW r \in Requests, NEW a \in Answers, FinishPermission(r, a)
     PROVE  OnlyApprovalsResolve'
  <2>1. a # "invalid"
    BY <1>4 DEF FinishPermission
  <2>2. \A q \in Requests : IsResolved(promise'[q]) => promise'[q].value = "approve"
    BY <1>4, <2>1 DEF FinishPermission, TypeOK, Answers, SettleWith, Resolve, Reject,
                      IsSettled, IsResolved, IsRejected
  <2>. QED
    BY <1>4, <2>2 DEF FinishPermission
<1>5. ASSUME NEW d \in DApps, NEW r \in Requests, NEW body \in Bodies,
             ReceiveMessage(d, r, body)
     PROVE  OnlyApprovalsResolve'
  <2>1. body # "invalid"
    BY <1>5 DEF ReceiveMessage
  <2>2. \A q \in Requests : IsResolved(promise'[q]) => promise'[q].value = "approve"
    <3>1. CASE promise' = promise
      BY <3>1 DEF IsResolved
    <3>2. CASE SettleWith(r, body) /\ body # "acknowledge"
      BY <2>1, <3>2 DEF TypeOK, Answers, Bodies, SettleWith, Resolve, Reject, IsSettled,
                        IsResolved, IsRejected
    <3>. QED
      BY <3>1, <3>2, <1>5 DEF ReceiveMessage
  <2>3. toDApp' \subseteq toDApp
    BY <1>5 DEF ReceiveMessage, Delivered
  <2>4. \A q \in Requests : <<q, "invalid">> \notin settling'
    <3>1. settling' = settling \/ settling' = settling \cup {<<r, body>>}
      BY <1>5 DEF ReceiveMessage
    <3>2. \A q \in Requests : <<q, "invalid">> # <<r, body>>
      BY <2>1
    <3>3. \A q \in Requests : <<q, "invalid">> \notin settling
      OBVIOUS
    <3>. QED
      BY <3>1, <3>2, <3>3
  <2>. QED
    BY <1>5, <2>2, <2>3, <2>4 DEF ReceiveMessage
<1>6. ASSUME NEW d \in DApps, RemoveWallet(d)
     PROVE  OnlyApprovalsResolve'
  BY <1>6 DEF RemoveWallet, IsResolved
<1>7. ASSUME NEW d \in DApps, ReceiveDisconnect(d)
     PROVE  OnlyApprovalsResolve'
  BY <1>7 DEF ReceiveDisconnect, IsResolved
<1>8. ASSUME NEW d \in DApps, RemoveAccounts(d)
     PROVE  OnlyApprovalsResolve'
  BY <1>8 DEF RemoveAccounts, IsResolved
<1>9. ASSUME NEW d \in DApps, DAppRestart(d)
     PROVE  OnlyApprovalsResolve'
  BY <1>9 DEF DAppRestart, IsResolved
<1>10. ASSUME NEW d \in DApps, Pair(d)
     PROVE  OnlyApprovalsResolve'
  BY <1>10 DEF Pair, IsResolved
<1>11. ASSUME NEW r \in Requests, ReceiveRequest(r)
     PROVE  OnlyApprovalsResolve'
  <2>1. \A q \in Requests : <<q, "invalid">> \in sending' => <<q, "invalid">> \in sending
    BY <1>11, AcknowledgementIsSent DEF ReceiveRequest
  <2>. QED
    BY <1>11, <2>1 DEF ReceiveRequest, IsResolved
<1>12. ASSUME NEW r \in Requests, NEW seen \in SUBSET DApps,
             InterceptRequest(r, seen)
     PROVE  OnlyApprovalsResolve'
  BY <1>12 DEF InterceptRequest, IsResolved
<1>13. ASSUME NEW r \in Requests, NEW seen \in SUBSET DApps,
             StoreMetadata(r, seen)
     PROVE  OnlyApprovalsResolve'
  BY <1>13 DEF StoreMetadata, IsResolved
<1>14. ASSUME NEW r \in Requests, NEW a \in AppAnswers, Respond(r, a)
     PROVE  OnlyApprovalsResolve'
  <2>1. \A q \in Requests : <<q, "invalid">> \in sending' => <<q, "invalid">> \in sending
    BY <1>14, ResponseIsSentOrComposed DEF Respond
  <2>. QED
    BY <1>14, <2>1 DEF Respond, IsResolved
<1>15. ASSUME NEW r \in Requests, NEW a \in Answers, ComposePermission(r, a)
     PROVE  OnlyApprovalsResolve'
  BY <1>15 DEF ComposePermission, IsResolved
<1>16. ASSUME NEW r \in Requests, NEW body \in Bodies, SendToDApp(r, body)
     PROVE  OnlyApprovalsResolve'
  BY <1>16 DEF SendToDApp, IsResolved
<1>17. ASSUME NEW d \in DApps, NEW tell \in BOOLEAN, RemovePeer(d, tell)
     PROVE  OnlyApprovalsResolve'
  BY <1>17 DEF RemovePeer, IsResolved
<1>18. ASSUME NEW d \in DApps, ReceiveDisconnectFrom(d)
     PROVE  OnlyApprovalsResolve'
  BY <1>18 DEF ReceiveDisconnectFrom, IsResolved
<1>19. ASSUME Connect
     PROVE  OnlyApprovalsResolve'
  BY <1>19 DEF Connect, IsResolved
<1>20. ASSUME WalletRestart
     PROVE  OnlyApprovalsResolve'
  BY <1>20 DEF WalletRestart, IsResolved
<1>21. ASSUME UNCHANGED vars
     PROVE  OnlyApprovalsResolve'
  BY <1>21 DEF vars, IsResolved
<1>. QED
  BY <1>1, <1>2, <1>3, <1>4, <1>5, <1>6, <1>7, <1>8, <1>9, <1>10,
     <1>11, <1>12, <1>13, <1>14, <1>15, <1>16, <1>17, <1>18, <1>19, <1>20,
     <1>21
     DEF Next, DAppNext, WalletNext

\* Giving an account to a dApp takes an approval; nothing takes one back.
LEMMA NextAccountNeedsApproval ==
  ASSUME IInv, OnlyApprovalsResolve, AccountNeedsApproval, [Next]_vars
  PROVE  AccountNeedsApproval'
<1>. USE DEF IInv, AccountNeedsApproval, dAppVars, channelVars, walletVars,
        linkVars
<1>1. ASSUME NEW r \in Requests, MakeRequest(r)
     PROVE  AccountNeedsApproval'
  BY <1>1 DEF MakeRequest
<1>2. ASSUME NEW r \in Requests, SendRequest(r)
     PROVE  AccountNeedsApproval'
  BY <1>2 DEF SendRequest
<1>3. ASSUME NEW r \in Requests, SetAccount(r)
     PROVE  AccountNeedsApproval'
  <2>1. "approve" \in answered[r]
    BY <1>3 DEF SetAccount, OnlyApprovalsResolve, AnswersWereGiven, Answers
  <2>. QED
    BY <1>3, <2>1 DEF SetAccount, TypeOK
<1>4. ASSUME NEW r \in Requests, NEW a \in Answers, FinishPermission(r, a)
     PROVE  AccountNeedsApproval'
  BY <1>4 DEF FinishPermission
<1>5. ASSUME NEW d \in DApps, NEW r \in Requests, NEW body \in Bodies,
             ReceiveMessage(d, r, body)
     PROVE  AccountNeedsApproval'
  BY <1>5 DEF ReceiveMessage
<1>6. ASSUME NEW d \in DApps, RemoveWallet(d)
     PROVE  AccountNeedsApproval'
  BY <1>6 DEF RemoveWallet
<1>7. ASSUME NEW d \in DApps, ReceiveDisconnect(d)
     PROVE  AccountNeedsApproval'
  BY <1>7 DEF ReceiveDisconnect
<1>8. ASSUME NEW d \in DApps, RemoveAccounts(d)
     PROVE  AccountNeedsApproval'
  BY <1>8 DEF RemoveAccounts, TypeOK
<1>9. ASSUME NEW d \in DApps, DAppRestart(d)
     PROVE  AccountNeedsApproval'
  BY <1>9 DEF DAppRestart
<1>10. ASSUME NEW d \in DApps, Pair(d)
     PROVE  AccountNeedsApproval'
  BY <1>10 DEF Pair
<1>11. ASSUME NEW r \in Requests, ReceiveRequest(r)
     PROVE  AccountNeedsApproval'
  BY <1>11 DEF ReceiveRequest
<1>12. ASSUME NEW r \in Requests, NEW seen \in SUBSET DApps,
             InterceptRequest(r, seen)
     PROVE  AccountNeedsApproval'
  BY <1>12 DEF InterceptRequest
<1>13. ASSUME NEW r \in Requests, NEW seen \in SUBSET DApps,
             StoreMetadata(r, seen)
     PROVE  AccountNeedsApproval'
  BY <1>13 DEF StoreMetadata
<1>14. ASSUME NEW r \in Requests, NEW a \in AppAnswers, Respond(r, a)
     PROVE  AccountNeedsApproval'
  BY <1>14 DEF Respond, TypeOK
<1>15. ASSUME NEW r \in Requests, NEW a \in Answers, ComposePermission(r, a)
     PROVE  AccountNeedsApproval'
  BY <1>15 DEF ComposePermission
<1>16. ASSUME NEW r \in Requests, NEW body \in Bodies, SendToDApp(r, body)
     PROVE  AccountNeedsApproval'
  BY <1>16 DEF SendToDApp
<1>17. ASSUME NEW d \in DApps, NEW tell \in BOOLEAN, RemovePeer(d, tell)
     PROVE  AccountNeedsApproval'
  BY <1>17 DEF RemovePeer
<1>18. ASSUME NEW d \in DApps, ReceiveDisconnectFrom(d)
     PROVE  AccountNeedsApproval'
  BY <1>18 DEF ReceiveDisconnectFrom
<1>19. ASSUME Connect
     PROVE  AccountNeedsApproval'
  BY <1>19 DEF Connect
<1>20. ASSUME WalletRestart
     PROVE  AccountNeedsApproval'
  BY <1>20 DEF WalletRestart
<1>21. ASSUME UNCHANGED vars
     PROVE  AccountNeedsApproval'
  BY <1>21 DEF vars
<1>. QED
  BY <1>1, <1>2, <1>3, <1>4, <1>5, <1>6, <1>7, <1>8, <1>9, <1>10,
     <1>11, <1>12, <1>13, <1>14, <1>15, <1>16, <1>17, <1>18, <1>19, <1>20,
     <1>21
     DEF Next, DAppNext, WalletNext

\* A dApp has an active account only after the user approved one of its own
\* permission requests (DAppClient.requestPermissions, permissionRequest).
THEOREM AccountsAreApproved == Spec => []AccountNeedsApproval
<1>1. Init => OnlyApprovalsResolve /\ AccountNeedsApproval
  BY DEF Init, OnlyApprovalsResolve, AccountNeedsApproval, NewPromise, IsResolved
<1>2. IInv /\ OnlyApprovalsResolve /\ AccountNeedsApproval /\ [Next]_vars
        => OnlyApprovalsResolve' /\ AccountNeedsApproval'
  BY NextOnlyApprovalsResolve, NextAccountNeedsApproval DEF IInv
<1>. QED
  BY <1>1, <1>2, InvariantHolds, PTL DEF Spec

-----------------------------------------------------------------------------
(***************************************************************************)
(* The openRequests map and the promises agree                             *)
(***************************************************************************)

\* No step closes a request that a live page still waits for.
LEMMA NextWaitingRequestsAreOpen ==
  ASSUME TypeOK, WaitingRequestsAreOpen, [Next]_vars
  PROVE  WaitingRequestsAreOpen'
<1>. USE DEF WaitingRequestsAreOpen, dAppVars, channelVars, walletVars,
        linkVars
<1>1. ASSUME NEW r \in Requests, MakeRequest(r)
     PROVE  WaitingRequestsAreOpen'
  BY <1>1 DEF MakeRequest, TypeOK, NewPromise, IsPending
<1>2. ASSUME NEW r \in Requests, SendRequest(r)
     PROVE  WaitingRequestsAreOpen'
  BY <1>2 DEF SendRequest, TypeOK, IsPending
<1>3. ASSUME NEW r \in Requests, SetAccount(r)
     PROVE  WaitingRequestsAreOpen'
  BY <1>3 DEF SetAccount, TypeOK, IsPending
<1>4. ASSUME NEW r \in Requests, NEW a \in Answers, FinishPermission(r, a)
     PROVE  WaitingRequestsAreOpen'
  <2>1. ~IsPending(promise'[r]) /\ \A q \in Requests : q # r => promise'[q] = promise[q]
    BY <1>4, SettleWithSettles DEF FinishPermission, IsPending, IsSettled, IsResolved,
                                   IsRejected
  <2>. QED
    BY <1>4, <2>1 DEF FinishPermission, DeleteOpenRequest, IsPending
<1>5. ASSUME NEW d \in DApps, NEW r \in Requests, NEW body \in Bodies,
             ReceiveMessage(d, r, body)
     PROVE  WaitingRequestsAreOpen'
  <2>1. CASE promise' = promise /\ openRequests' = openRequests
    BY <1>5, <2>1 DEF ReceiveMessage, IsPending
  <2>2. CASE body \in Answers /\ SettleWith(r, body) /\ DeleteOpenRequest(r, body)
    <3>1. ~IsPending(promise'[r]) /\ \A q \in Requests : q # r => promise'[q] = promise[q]
      BY <2>2, SettleWithSettles DEF IsPending, IsSettled, IsResolved, IsRejected
    <3>. QED
      BY <1>5, <2>2, <3>1 DEF ReceiveMessage, DeleteOpenRequest, IsPending
  <2>. QED
    BY <1>5, <2>1, <2>2 DEF ReceiveMessage, Bodies
<1>6. ASSUME NEW d \in DApps, RemoveWallet(d)
     PROVE  WaitingRequestsAreOpen'
  BY <1>6 DEF RemoveWallet, IsPending
<1>7. ASSUME NEW d \in DApps, ReceiveDisconnect(d)
     PROVE  WaitingRequestsAreOpen'
  BY <1>7 DEF ReceiveDisconnect, IsPending
<1>8. ASSUME NEW d \in DApps, RemoveAccounts(d)
     PROVE  WaitingRequestsAreOpen'
  BY <1>8 DEF RemoveAccounts, IsPending
<1>9. ASSUME NEW d \in DApps, DAppRestart(d)
     PROVE  WaitingRequestsAreOpen'
  BY <1>9 DEF DAppRestart, TypeOK, IsPending
<1>10. ASSUME NEW d \in DApps, Pair(d)
     PROVE  WaitingRequestsAreOpen'
  BY <1>10 DEF Pair, IsPending
<1>11. ASSUME NEW r \in Requests, ReceiveRequest(r)
     PROVE  WaitingRequestsAreOpen'
  BY <1>11 DEF ReceiveRequest, IsPending
<1>12. ASSUME NEW r \in Requests, NEW seen \in SUBSET DApps,
             InterceptRequest(r, seen)
     PROVE  WaitingRequestsAreOpen'
  BY <1>12 DEF InterceptRequest, IsPending
<1>13. ASSUME NEW r \in Requests, NEW seen \in SUBSET DApps,
             StoreMetadata(r, seen)
     PROVE  WaitingRequestsAreOpen'
  BY <1>13 DEF StoreMetadata, IsPending
<1>14. ASSUME NEW r \in Requests, NEW a \in AppAnswers, Respond(r, a)
     PROVE  WaitingRequestsAreOpen'
  BY <1>14 DEF Respond, IsPending
<1>15. ASSUME NEW r \in Requests, NEW a \in Answers, ComposePermission(r, a)
     PROVE  WaitingRequestsAreOpen'
  BY <1>15 DEF ComposePermission, IsPending
<1>16. ASSUME NEW r \in Requests, NEW body \in Bodies, SendToDApp(r, body)
     PROVE  WaitingRequestsAreOpen'
  BY <1>16 DEF SendToDApp, IsPending
<1>17. ASSUME NEW d \in DApps, NEW tell \in BOOLEAN, RemovePeer(d, tell)
     PROVE  WaitingRequestsAreOpen'
  BY <1>17 DEF RemovePeer, IsPending
<1>18. ASSUME NEW d \in DApps, ReceiveDisconnectFrom(d)
     PROVE  WaitingRequestsAreOpen'
  BY <1>18 DEF ReceiveDisconnectFrom, IsPending
<1>19. ASSUME Connect
     PROVE  WaitingRequestsAreOpen'
  BY <1>19 DEF Connect, IsPending
<1>20. ASSUME WalletRestart
     PROVE  WaitingRequestsAreOpen'
  BY <1>20 DEF WalletRestart, IsPending
<1>21. ASSUME UNCHANGED vars
     PROVE  WaitingRequestsAreOpen'
  BY <1>21 DEF vars, IsPending
<1>. QED
  BY <1>1, <1>2, <1>3, <1>4, <1>5, <1>6, <1>7, <1>8, <1>9, <1>10,
     <1>11, <1>12, <1>13, <1>14, <1>15, <1>16, <1>17, <1>18, <1>19, <1>20,
     <1>21
     DEF Next, DAppNext, WalletNext

\* A request a live page waits for can still be settled
\* (DAppClient.addOpenRequest, handleResponse).
THEOREM WaitingRequestsStayOpen == Spec => []WaitingRequestsAreOpen
<1>1. Init => WaitingRequestsAreOpen
  BY DEF Init, WaitingRequestsAreOpen
<1>2. TypeOK /\ WaitingRequestsAreOpen /\ [Next]_vars => WaitingRequestsAreOpen'
  BY NextWaitingRequestsAreOpen
<1>. QED
  BY <1>1, <1>2, TypeCorrect, PTL DEF Spec

\* What is left in the map of requests that are settled: approvals of wrapped messages.
OnlyWrappedStay ==
  \A r \in openRequests :
    IsPending(promise[r]) \/ (Version[r] = "3" /\ IsResolved(promise[r]))

\* An answer other than an error resolves what it finds pending.
LEMMA ApprovalsResolve ==
  ASSUME TypeOK, NEW r \in Requests, NEW a \in Answers, SettleWith(r, a), a # "abort",
         ~IsRejected(promise[r])
  PROVE  IsResolved(promise'[r])
  BY DEF SettleWith, TypeOK, Promise, Resolve, IsSettled, IsResolved, IsRejected

LEMMA SettledMayStay ==
  ASSUME TypeOK, OnlyWrappedStay, NEW r \in Requests, NEW a \in Answers, SettleWith(r, a),
         DeleteOpenRequest(r, a), \A q \in Requests : q # r => promise'[q] = promise[q]
  PROVE  OnlyWrappedStay'
<1>1. openRequests' \subseteq openRequests /\ openRequests \subseteq Requests
  BY DEF DeleteOpenRequest, TypeOK
<1>2. ASSUME r \in openRequests'
      PROVE  Version[r] = "3" /\ IsResolved(promise'[r])
  <2>1. Version[r] = "3" /\ a # "abort"
    BY <1>2 DEF DeleteOpenRequest
  <2>2. ~IsRejected(promise[r])
    BY <1>1, <1>2 DEF OnlyWrappedStay, IsPending, IsResolved, IsRejected
  <2>. QED
    BY <2>1, <2>2, ApprovalsResolve
<1>. QED
  BY <1>1, <1>2 DEF OnlyWrappedStay, IsPending, IsResolved

\* A settled request leaves the map, or it is wrapped and was resolved.
LEMMA NextOnlyWrappedStay ==
  ASSUME TypeOK, OnlyWrappedStay, [Next]_vars
  PROVE  OnlyWrappedStay'
<1>. USE DEF OnlyWrappedStay, dAppVars, channelVars, walletVars,
        linkVars
<1>1. ASSUME NEW r \in Requests, MakeRequest(r)
     PROVE  OnlyWrappedStay'
  BY <1>1 DEF MakeRequest, TypeOK, NewPromise, IsPending, IsResolved
<1>2. ASSUME NEW r \in Requests, SendRequest(r)
     PROVE  OnlyWrappedStay'
  BY <1>2 DEF SendRequest, IsPending, IsResolved
<1>3. ASSUME NEW r \in Requests, SetAccount(r)
     PROVE  OnlyWrappedStay'
  BY <1>3 DEF SetAccount, IsPending, IsResolved
<1>4. ASSUME NEW r \in Requests, NEW a \in Answers, FinishPermission(r, a)
     PROVE  OnlyWrappedStay'
  <2>1. \A q \in Requests : q # r => promise'[q] = promise[q]
    BY <1>4, SettleWithSettles DEF FinishPermission
  <2>2. SettleWith(r, a) /\ DeleteOpenRequest(r, a)
    BY <1>4 DEF FinishPermission
  <2>. QED
    BY <2>1, <2>2, SettledMayStay
<1>5. ASSUME NEW d \in DApps, NEW r \in Requests, NEW body \in Bodies,
             ReceiveMessage(d, r, body)
     PROVE  OnlyWrappedStay'
  <2>1. CASE promise' = promise /\ openRequests' = openRequests
    BY <1>5, <2>1 DEF ReceiveMessage, IsPending, IsResolved
  <2>2. CASE body \in Answers /\ SettleWith(r, body) /\ DeleteOpenRequest(r, body)
    <3>1. \A q \in Requests : q # r => promise'[q] = promise[q]
      BY <2>2, SettleWithSettles
    <3>. QED
      BY <2>2, <3>1, SettledMayStay
  <2>. QED
    BY <1>5, <2>1, <2>2 DEF ReceiveMessage, Bodies
<1>6. ASSUME NEW d \in DApps, RemoveWallet(d)
     PROVE  OnlyWrappedStay'
  BY <1>6 DEF RemoveWallet, IsPending, IsResolved
<1>7. ASSUME NEW d \in DApps, ReceiveDisconnect(d)
     PROVE  OnlyWrappedStay'
  BY <1>7 DEF ReceiveDisconnect, IsPending, IsResolved
<1>8. ASSUME NEW d \in DApps, RemoveAccounts(d)
     PROVE  OnlyWrappedStay'
  BY <1>8 DEF RemoveAccounts, IsPending, IsResolved
<1>9. ASSUME NEW d \in DApps, DAppRestart(d)
     PROVE  OnlyWrappedStay'
  BY <1>9 DEF DAppRestart, IsPending, IsResolved
<1>10. ASSUME NEW d \in DApps, Pair(d)
     PROVE  OnlyWrappedStay'
  BY <1>10 DEF Pair, IsPending, IsResolved
<1>11. ASSUME NEW r \in Requests, ReceiveRequest(r)
     PROVE  OnlyWrappedStay'
  BY <1>11 DEF ReceiveRequest, IsPending, IsResolved
<1>12. ASSUME NEW r \in Requests, NEW seen \in SUBSET DApps,
             InterceptRequest(r, seen)
     PROVE  OnlyWrappedStay'
  BY <1>12 DEF InterceptRequest, IsPending, IsResolved
<1>13. ASSUME NEW r \in Requests, NEW seen \in SUBSET DApps,
             StoreMetadata(r, seen)
     PROVE  OnlyWrappedStay'
  BY <1>13 DEF StoreMetadata, IsPending, IsResolved
<1>14. ASSUME NEW r \in Requests, NEW a \in AppAnswers, Respond(r, a)
     PROVE  OnlyWrappedStay'
  BY <1>14 DEF Respond, IsPending, IsResolved
<1>15. ASSUME NEW r \in Requests, NEW a \in Answers, ComposePermission(r, a)
     PROVE  OnlyWrappedStay'
  BY <1>15 DEF ComposePermission, IsPending, IsResolved
<1>16. ASSUME NEW r \in Requests, NEW body \in Bodies, SendToDApp(r, body)
     PROVE  OnlyWrappedStay'
  BY <1>16 DEF SendToDApp, IsPending, IsResolved
<1>17. ASSUME NEW d \in DApps, NEW tell \in BOOLEAN, RemovePeer(d, tell)
     PROVE  OnlyWrappedStay'
  BY <1>17 DEF RemovePeer, IsPending, IsResolved
<1>18. ASSUME NEW d \in DApps, ReceiveDisconnectFrom(d)
     PROVE  OnlyWrappedStay'
  BY <1>18 DEF ReceiveDisconnectFrom, IsPending, IsResolved
<1>19. ASSUME Connect
     PROVE  OnlyWrappedStay'
  BY <1>19 DEF Connect, IsPending, IsResolved
<1>20. ASSUME WalletRestart
     PROVE  OnlyWrappedStay'
  BY <1>20 DEF WalletRestart, IsPending, IsResolved
<1>21. ASSUME UNCHANGED vars
     PROVE  OnlyWrappedStay'
  BY <1>21 DEF vars, IsPending, IsResolved
<1>. QED
  BY <1>1, <1>2, <1>3, <1>4, <1>5, <1>6, <1>7, <1>8, <1>9, <1>10,
     <1>11, <1>12, <1>13, <1>14, <1>15, <1>16, <1>17, <1>18, <1>19, <1>20,
     <1>21
     DEF Next, DAppNext, WalletNext

\* Whatever is duplicated, late or lost by a reload, a settled request stays in the
\* openRequests map only if it was wrapped (version 3) and resolved: the inner message
\* of its response has no id to delete it by (handleResponse).
THEOREM WrappedAnswersAloneStay == Spec => []OnlyWrappedStay
<1>1. Init => OnlyWrappedStay
  BY DEF Init, OnlyWrappedStay
<1>2. TypeOK /\ OnlyWrappedStay /\ [Next]_vars => OnlyWrappedStay'
  BY NextOnlyWrappedStay
<1>. QED
  BY <1>1, <1>2, TypeCorrect, PTL DEF Spec

\* A dApp that does not use wrapped (version 3) messages has only requests in
\* its openRequests map that still wait for an answer; MCRequestFlow_v3.cfg shows
\* that the assumption is needed.
THEOREM OpenRequestsAreOpen ==
  ASSUME \A q \in Requests : Version[q] = "2"
  PROVE  Spec => []OpenRequestsAwaitResponse
<1>1. TypeOK /\ OnlyWrappedStay => OpenRequestsAwaitResponse
  BY DEF OnlyWrappedStay, OpenRequestsAwaitResponse, TypeOK
<1>. QED
  BY <1>1, TypeCorrect, WrappedAnswersAloneStay, PTL

-----------------------------------------------------------------------------
(***************************************************************************)
(* One answer for each request                                             *)
(***************************************************************************)

\* While a request can still reach the app, or waits for its answer there, the
\* app has not answered it; and it never gets to answer twice.
AnswersAreCounted ==
  ~Duplicates =>
    \A r \in Requests :
      /\ phase[r] \in {"idle", "opened"} => r \notin toWallet
      /\ phase[r] \in {"idle", "opened"} \/ r \in toWallet
           => pendingRequests[r] = 0 /\ answered[r] = {}
      /\ pendingRequests[r] > 0 => answered[r] = {}
      /\ answered[r] = {} \/ \E a \in Answers : answered[r] = {a}

\* Answering takes the pending entry, which only the one delivery makes.
LEMMA NextAnswersAreCounted ==
  ASSUME TypeOK, AnswersAreCounted, [Next]_vars
  PROVE  AnswersAreCounted'
<1>. USE DEF AnswersAreCounted, dAppVars, channelVars, walletVars, linkVars
<1>1. ASSUME NEW r \in Requests, MakeRequest(r)
     PROVE  AnswersAreCounted'
  BY <1>1 DEF MakeRequest, TypeOK
<1>2. ASSUME NEW r \in Requests, SendRequest(r)
     PROVE  AnswersAreCounted'
  BY <1>2 DEF SendRequest, TypeOK
<1>3. ASSUME NEW r \in Requests, SetAccount(r)
     PROVE  AnswersAreCounted'
  BY <1>3 DEF SetAccount, TypeOK
<1>4. ASSUME NEW r \in Requests, NEW a \in Answers,
             FinishPermission(r, a)
     PROVE  AnswersAreCounted'
  BY <1>4 DEF FinishPermission
<1>5. ASSUME NEW d \in DApps, NEW r \in Requests, NEW body \in Bodies,
             ReceiveMessage(d, r, body)
     PROVE  AnswersAreCounted'
  BY <1>5 DEF ReceiveMessage
<1>6. ASSUME NEW d \in DApps, RemoveWallet(d)
     PROVE  AnswersAreCounted'
  BY <1>6 DEF RemoveWallet
<1>7. ASSUME NEW d \in DApps, ReceiveDisconnect(d)
     PROVE  AnswersAreCounted'
  BY <1>7 DEF ReceiveDisconnect
<1>8. ASSUME NEW d \in DApps, RemoveAccounts(d)
     PROVE  AnswersAreCounted'
  BY <1>8 DEF RemoveAccounts
<1>9. ASSUME NEW d \in DApps, DAppRestart(d)
     PROVE  AnswersAreCounted'
  BY <1>9 DEF DAppRestart, TypeOK
<1>10. ASSUME NEW d \in DApps, Pair(d)
     PROVE  AnswersAreCounted'
  BY <1>10 DEF Pair
<1>11. ASSUME NEW r \in Requests, ReceiveRequest(r)
     PROVE  AnswersAreCounted'
  BY <1>11 DEF ReceiveRequest, Delivered, TypeOK
<1>12. ASSUME NEW r \in Requests, NEW seen \in SUBSET DApps,
             InterceptRequest(r, seen)
     PROVE  AnswersAreCounted'
  BY <1>12 DEF InterceptRequest
<1>13. ASSUME NEW r \in Requests, NEW seen \in SUBSET DApps,
             StoreMetadata(r, seen)
     PROVE  AnswersAreCounted'
  BY <1>13 DEF StoreMetadata
<1>14. ASSUME NEW r \in Requests, NEW a \in AppAnswers,
             Respond(r, a)
     PROVE  AnswersAreCounted'
  <2>. SUFFICES ASSUME ~Duplicates
               PROVE  AnswersAreCounted'
    OBVIOUS
  <2>1. pendingRequests[r] > 0
    BY <1>14 DEF Respond
  <2>2. /\ answered[r] = {}
        /\ r \notin toWallet
        /\ phase[r] \notin {"idle", "opened"}
    BY <2>1 DEF TypeOK
  <2>3. a \in Answers /\ answered' = [answered EXCEPT ![r] = {a}]
    BY <1>14, <2>2, RequestFlowAssumption DEF Respond
  <2>4. /\ pendingRequests' = [pendingRequests EXCEPT ![r] = 0]
        /\ UNCHANGED <<phase, toWallet>>
    BY <1>14 DEF Respond
  <2>5. answered'[r] = {a} /\ pendingRequests'[r] = 0
    BY <2>3, <2>4 DEF TypeOK
  <2>6. \A q \in Requests : q # r => /\ answered'[q] = answered[q]
                                     /\ pendingRequests'[q] = pendingRequests[q]
    BY <2>3, <2>4 DEF TypeOK
  <2>. QED
    BY <2>2, <2>3, <2>4, <2>5, <2>6
<1>15. ASSUME NEW r \in Requests, NEW a \in Answers,
             ComposePermission(r, a)
     PROVE  AnswersAreCounted'
  BY <1>15 DEF ComposePermission
<1>16. ASSUME NEW r \in Requests, NEW body \in Bodies,
             SendToDApp(r, body)
     PROVE  AnswersAreCounted'
  BY <1>16 DEF SendToDApp
<1>17. ASSUME NEW d \in DApps, NEW tell \in BOOLEAN,
             RemovePeer(d, tell)
     PROVE  AnswersAreCounted'
  BY <1>17 DEF RemovePeer
<1>18. ASSUME NEW d \in DApps, ReceiveDisconnectFrom(d)
     PROVE  AnswersAreCounted'
  BY <1>18 DEF ReceiveDisconnectFrom
<1>19. ASSUME Connect
     PROVE  AnswersAreCounted'
  BY <1>19 DEF Connect
<1>20. ASSUME WalletRestart
     PROVE  AnswersAreCounted'
  BY <1>20 DEF WalletRestart, TypeOK
<1>21. ASSUME UNCHANGED vars
     PROVE  AnswersAreCounted'
  BY <1>21 DEF vars
<1>. QED
  BY <1>1, <1>2, <1>3, <1>4, <1>5, <1>6, <1>7, <1>8, <1>9, <1>10,
     <1>11, <1>12, <1>13, <1>14, <1>15, <1>16, <1>17, <1>18, <1>19, <1>20,
     <1>21
     DEF Next, DAppNext, WalletNext

\* Over a transport that does not duplicate, the wallet answers no request
\* twice, whatever restarts in between (WalletClient.respond).
THEOREM RequestsAreAnsweredOnce == Spec => []OneAnswer
<1>1. Init => AnswersAreCounted
  BY DEF Init, AnswersAreCounted
<1>2. TypeOK /\ AnswersAreCounted /\ [Next]_vars => AnswersAreCounted'
  BY NextAnswersAreCounted
<1>3. AnswersAreCounted => OneAnswer
  <2>1. Cardinality({}) <= 1
    BY FS_EmptySet
  <2>2. ASSUME NEW a \in Answers
        PROVE  Cardinality({a}) <= 1
    <3>1. Cardinality({a}) = 1
      BY FS_Singleton, Zenon
    <3>. QED
      BY <3>1
  <2>. QED
    BY <2>1, <2>2 DEF AnswersAreCounted, OneAnswer
<1>. QED
  BY <1>1, <1>2, <1>3, TypeCorrect, PTL DEF Spec

-----------------------------------------------------------------------------
(***************************************************************************)
(* Acknowledged requests reach the app                                     *)
(***************************************************************************)

\* Two dApps do not ask for permissions so close together that each call has read the
\* metadata list before the other has written it: of two that do, the metadata of one
\* gets lost (MCRequestFlow_metadata.cfg).
StoresDoNotOverlap ==
  \A q, r \in Requests, seen, read \in SUBSET DApps :
    <<q, "store", seen>> \in intercepting /\ <<r, "store", read>> \in intercepting
      => Sender[q] = Sender[r]

\* At most one dApp asks the wallet for permissions.
OneDAppAsks ==
  \A q, r \in Requests :
    Kind[q] = "permission" /\ Kind[r] = "permission" => Sender[q] = Sender[r]

\* Only permission requests store metadata.
PermissionsStore ==
  \A r \in Requests, seen \in SUBSET DApps :
    <<r, "store", seen>> \in intercepting => Kind[r] = "permission"

\* The metadata of a dApp is stored before the app sees its permission request,
\* and so before the dApp has an account to ask for an operation with.
MetadataStays ==
  \A r \in Requests :
    /\ Kind[r] = "permission" /\ (r \in prompted \/ answered[r] # {})
         => Sender[r] \in appMetadata
    /\ Kind[r] = "operation" /\ phase[r] # "idle"
         => Sender[r] \in appMetadata

\* A copy of the list is as good as the list: it lacks at most the sender it is for.
CopiesAreCurrent ==
  \A r \in Requests, seen \in SUBSET DApps :
    <<r, "store", seen>> \in intercepting
      => seen \cup {Sender[r]} = appMetadata \cup {Sender[r]}

MetadataInv == MetadataStays /\ CopiesAreCurrent

\* An interceptor call works on r.
BeingIntercepted(r) ==
  \E stage \in {"intercept", "store"}, seen \in SUBSET DApps :
    <<r, stage, seen>> \in intercepting

\* ReachesApp, by the parts of an interceptor call.
IsShown(r) == pendingRequests[r] > 0 => r \in prompted \/ BeingIntercepted(r)

\* The interceptor hands it over whatever metadata is stored.
NeedsNoMetadata(r) == Kind[r] = "permission" \/ Version[r] = "3"

LEMMA ShownReachesApp == ASSUME NEW r \in Requests, IsShown(r) PROVE ReachesApp(r)
<1>1. ASSUME NEW stage \in {"intercept", "store"}, NEW seen \in SUBSET DApps,
             <<r, stage, seen>> \in intercepting
      PROVE  \E task \in intercepting : task[1] = r
  <2>. WITNESS <<r, stage, seen>> \in intercepting
  <2>. QED
    OBVIOUS
<1>. QED
  BY <1>1 DEF IsShown, BeingIntercepted, ReachesApp

\* The steps that leave the interceptor, the app and the pending list alone.
QuietStep ==
  /\ UNCHANGED <<intercepting, appMetadata, prompted, answered, pendingRequests>>
  /\ \A q \in Requests : phase'[q] # "idle" => phase[q] # "idle"

\* Every step is one of those, draws an id, or is one of five steps of the wallet.
LEMMA StepsOfWallet ==
  ASSUME TypeOK, [Next]_vars
  PROVE  \/ QuietStep
         \/ \E r \in Requests : MakeRequest(r) \/ ReceiveRequest(r)
         \/ \E r \in Requests, seen \in SUBSET DApps :
              InterceptRequest(r, seen) \/ StoreMetadata(r, seen)
         \/ \E r \in Requests, a \in AppAnswers : Respond(r, a)
         \/ WalletRestart
<1>. USE DEF dAppVars, channelVars, walletVars, linkVars
<1>1. ASSUME NEW r \in Requests, SendRequest(r) \/ SetAccount(r)
      PROVE  QuietStep
  BY <1>1 DEF SendRequest, SetAccount, TypeOK, QuietStep
<1>2. ASSUME NEW r \in Requests, NEW a \in Answers, FinishPermission(r, a)
      PROVE  QuietStep
  BY <1>2 DEF FinishPermission, QuietStep
<1>3. ASSUME NEW d \in DApps, NEW r \in Requests, NEW body \in Bodies,
             ReceiveMessage(d, r, body)
      PROVE  QuietStep
  BY <1>3 DEF ReceiveMessage, QuietStep
<1>4. ASSUME NEW d \in DApps,
             RemoveWallet(d) \/ ReceiveDisconnect(d) \/ RemoveAccounts(d) \/ Pair(d)
      PROVE  QuietStep
  BY <1>4 DEF RemoveWallet, ReceiveDisconnect, RemoveAccounts, Pair, QuietStep
<1>5. ASSUME NEW d \in DApps, DAppRestart(d)
      PROVE  QuietStep
  BY <1>5 DEF DAppRestart, TypeOK, QuietStep
<1>6. ASSUME NEW r \in Requests, NEW a \in Answers, ComposePermission(r, a)
      PROVE  QuietStep
  BY <1>6 DEF ComposePermission, QuietStep
<1>7. ASSUME NEW r \in Requests, NEW body \in Bodies, SendToDApp(r, body)
      PROVE  QuietStep
  BY <1>7 DEF SendToDApp, QuietStep
<1>8. ASSUME NEW d \in DApps, NEW tell \in BOOLEAN,
             RemovePeer(d, tell) \/ ReceiveDisconnectFrom(d)
      PROVE  QuietStep
  BY <1>8 DEF RemovePeer, ReceiveDisconnectFrom, QuietStep
<1>9. CASE Connect \/ UNCHANGED vars
  BY <1>9 DEF Connect, vars, QuietStep
<1>. QED
  BY <1>1, <1>2, <1>3, <1>4, <1>5, <1>6, <1>7, <1>8, <1>9 DEF Next, DAppNext, WalletNext

LEMMA NextPermissionsStore ==
  ASSUME TypeOK, PermissionsStore, [Next]_vars
  PROVE  PermissionsStore'
<1>. USE DEF PermissionsStore
<1>1. CASE QuietStep
  BY <1>1 DEF QuietStep
<1>2. ASSUME NEW r \in Requests, MakeRequest(r) \/ ReceiveRequest(r)
      PROVE  PermissionsStore'
  BY <1>2 DEF MakeRequest, ReceiveRequest, walletVars
<1>3. ASSUME NEW r \in Requests, NEW old \in SUBSET DApps,
             InterceptRequest(r, old) \/ StoreMetadata(r, old)
      PROVE  PermissionsStore'
  BY <1>3 DEF InterceptRequest, StoreMetadata
<1>4. ASSUME NEW r \in Requests, NEW a \in AppAnswers, Respond(r, a)
      PROVE  PermissionsStore'
  BY <1>4 DEF Respond
<1>5. CASE WalletRestart
  BY <1>5 DEF WalletRestart
<1>. QED
  BY <1>1, <1>2, <1>3, <1>4, <1>5, StepsOfWallet

\* A pending request leaves the interceptor for the app, unless it is an operation
\* that finds no metadata of its sender.
LEMMA NextIsShown ==
  ASSUME TypeOK, [Next]_vars, NEW q \in Requests, IsShown(q),
         NeedsNoMetadata(q) \/ (BeingIntercepted(q) => Sender[q] \in appMetadata)
  PROVE  IsShown(q)'
<1>1. CASE QuietStep
  BY <1>1 DEF QuietStep, IsShown, BeingIntercepted
<1>2. ASSUME NEW r \in Requests, MakeRequest(r)
      PROVE  IsShown(q)'
  BY <1>2 DEF MakeRequest, walletVars, IsShown, BeingIntercepted
<1>3. ASSUME NEW r \in Requests, ReceiveRequest(r)
      PROVE  IsShown(q)'
  <2>1. prompted' = prompted
    BY <1>3 DEF ReceiveRequest
  <2>2. CASE UNCHANGED <<pendingRequests, intercepting>>
    BY <2>1, <2>2 DEF IsShown, BeingIntercepted
  <2>3. CASE /\ pendingRequests' = [pendingRequests EXCEPT ![r] = @ + 1]
             /\ intercepting' = intercepting \cup {<<r, "intercept", {}>>}
    <3>1. BeingIntercepted(q) \/ q = r => BeingIntercepted(q)'
      BY <2>3 DEF BeingIntercepted
    <3>2. q # r => pendingRequests'[q] = pendingRequests[q]
      BY <2>3 DEF TypeOK
    <3>. QED
      BY <2>1, <3>1, <3>2 DEF IsShown
  <2>. QED
    BY <1>3, <2>2, <2>3 DEF ReceiveRequest
<1>4. ASSUME NEW r \in Requests, NEW old \in SUBSET DApps, InterceptRequest(r, old)
      PROVE  IsShown(q)'
  <2>1. pendingRequests' = pendingRequests /\ prompted \subseteq prompted'
    BY <1>4 DEF InterceptRequest
  <2>2. q # r /\ BeingIntercepted(q) => BeingIntercepted(q)'
    BY <1>4 DEF InterceptRequest, BeingIntercepted
  <2>3. CASE q = r /\ Kind[r] = "permission"
    <3>1. appMetadata \in SUBSET DApps
      BY DEF TypeOK
    <3>2. BeingIntercepted(q)'
      BY <1>4, <2>3, <3>1 DEF InterceptRequest, BeingIntercepted
    <3>. QED
      BY <3>2 DEF IsShown
  <2>4. CASE q = r /\ Kind[r] # "permission"
    <3>1. BeingIntercepted(q)
      BY <1>4, <2>4 DEF InterceptRequest, BeingIntercepted
    <3>2. q \in prompted'
      BY <1>4, <2>4, <3>1 DEF InterceptRequest, NeedsNoMetadata
    <3>. QED
      BY <3>2 DEF IsShown
  <2>. QED
    BY <2>1, <2>2, <2>3, <2>4 DEF IsShown
<1>5. ASSUME NEW r \in Requests, NEW old \in SUBSET DApps, StoreMetadata(r, old)
      PROVE  IsShown(q)'
  <2>1. pendingRequests' = pendingRequests /\ prompted' = prompted \cup {r}
    BY <1>5 DEF StoreMetadata
  <2>2. q # r /\ BeingIntercepted(q) => BeingIntercepted(q)'
    BY <1>5 DEF StoreMetadata, BeingIntercepted
  <2>. QED
    BY <2>1, <2>2 DEF IsShown
<1>6. ASSUME NEW r \in Requests, NEW a \in AppAnswers, Respond(r, a)
      PROVE  IsShown(q)'
  BY <1>6 DEF Respond, TypeOK, IsShown, BeingIntercepted
<1>7. CASE WalletRestart
  BY <1>7 DEF WalletRestart, IsShown
<1>. QED
  BY <1>1, <1>2, <1>3, <1>4, <1>5, <1>6, <1>7, StepsOfWallet

\* The list only grows while the calls that write it back hold current copies, and a
\* copy stays current when the call that writes is for the same dApp.
LEMMA NextMetadataInv ==
  ASSUME StoresDoNotOverlap, IInv, AccountNeedsApproval, PermissionsStore, MetadataInv,
         [Next]_vars
  PROVE  MetadataInv'
<1>. USE DEF MetadataInv
<1>0. TypeOK
  BY DEF IInv
<1>1. CASE QuietStep
  BY <1>1 DEF QuietStep, MetadataStays, CopiesAreCurrent
<1>2. ASSUME NEW r \in Requests, MakeRequest(r)
      PROVE  MetadataInv'
  <2>1. UNCHANGED <<intercepting, appMetadata, prompted, answered>>
    BY <1>2 DEF MakeRequest, walletVars
  <2>2. \A q \in Requests : q # r => phase'[q] = phase[q]
    BY <1>0, <1>2 DEF MakeRequest, TypeOK
  <2>3. ASSUME Kind[r] = "operation" PROVE Sender[r] \in appMetadata
    <3>1. Sender[r] \in DApps /\ account[Sender[r]]
      BY <1>2, <2>3, RequestFlowAssumption DEF MakeRequest
    <3>2. PICK q \in Requests : /\ Sender[q] = Sender[r]
                                /\ Kind[q] = "permission"
                                /\ "approve" \in answered[q]
      BY <3>1 DEF AccountNeedsApproval
    <3>. QED
      BY <3>2 DEF MetadataStays
  <2>. QED
    BY <2>1, <2>2, <2>3 DEF MetadataStays, CopiesAreCurrent
<1>3. ASSUME NEW r \in Requests, ReceiveRequest(r)
      PROVE  MetadataInv'
  BY <1>3 DEF ReceiveRequest, dAppVars, MetadataStays, CopiesAreCurrent
<1>4. ASSUME NEW r \in Requests, NEW old \in SUBSET DApps, InterceptRequest(r, old)
      PROVE  MetadataInv'
  <2>1. UNCHANGED <<phase, appMetadata, answered>>
    BY <1>4 DEF InterceptRequest, dAppVars
  <2>2. \A q \in Requests : Kind[q] = "permission" /\ q \in prompted' => q \in prompted
    BY <1>4 DEF InterceptRequest
  <2>3. CopiesAreCurrent'
    BY <1>4, <2>1 DEF InterceptRequest, CopiesAreCurrent
  <2>. QED
    BY <2>1, <2>2, <2>3 DEF MetadataStays
<1>5. ASSUME NEW r \in Requests, NEW old \in SUBSET DApps, StoreMetadata(r, old)
      PROVE  MetadataInv'
  <2>1. /\ UNCHANGED <<phase, answered>>
        /\ <<r, "store", old>> \in intercepting
        /\ appMetadata' = old \cup {Sender[r]}
        /\ prompted' = prompted \cup {r}
        /\ intercepting' = intercepting \ {<<r, "store", old>>}
    BY <1>5 DEF StoreMetadata, dAppVars
  <2>2. old \cup {Sender[r]} = appMetadata \cup {Sender[r]}
    BY <2>1 DEF CopiesAreCurrent
  <2>3. MetadataStays'
    BY <2>1, <2>2 DEF MetadataStays
  <2>4. ASSUME NEW q \in Requests, NEW seen \in SUBSET DApps,
               <<q, "store", seen>> \in intercepting'
        PROVE  seen \cup {Sender[q]} = appMetadata' \cup {Sender[q]}
    <3>1. <<q, "store", seen>> \in intercepting
      BY <2>1, <2>4
    <3>2. Sender[q] = Sender[r]
      BY <2>1, <3>1 DEF StoresDoNotOverlap
    <3>3. seen \cup {Sender[q]} = appMetadata \cup {Sender[q]}
      BY <3>1 DEF CopiesAreCurrent
    <3>. QED
      BY <2>1, <2>2, <3>2, <3>3
  <2>. QED
    BY <2>3, <2>4 DEF CopiesAreCurrent
<1>6. ASSUME NEW r \in Requests, NEW a \in AppAnswers, Respond(r, a)
      PROVE  MetadataInv'
  <2>1. /\ UNCHANGED <<phase, appMetadata, intercepting, prompted>>
        /\ r \in prompted
        /\ answered' = [answered EXCEPT ![r] = @ \cup {a}]
    BY <1>6 DEF Respond, dAppVars
  <2>2. \A q \in Requests : q # r => answered'[q] = answered[q]
    BY <1>0, <2>1 DEF TypeOK
  <2>. QED
    BY <2>1, <2>2 DEF MetadataStays, CopiesAreCurrent
<1>7. CASE WalletRestart
  BY <1>7 DEF WalletRestart, dAppVars, MetadataStays, CopiesAreCurrent
<1>. QED
  BY <1>0, <1>1, <1>2, <1>3, <1>4, <1>5, <1>6, <1>7, StepsOfWallet

\* Whatever the app sees was asked for: an operation under way is not idle, and so its
\* sender had an account.
LEMMA OperationsFindMetadata ==
  ASSUME IInv, MetadataStays, NEW q \in Requests, BeingIntercepted(q), ~NeedsNoMetadata(q)
  PROVE  Sender[q] \in appMetadata
<1>1. phase[q] # "idle"
  BY DEF IInv, IdleRequestsAreUnknown, BeingIntercepted
<1>2. Kind[q] = "operation"
  BY RequestFlowAssumption DEF NeedsNoMetadata
<1>. QED
  BY <1>1, <1>2 DEF MetadataStays

LEMMA PermissionsAloneStore == Spec => []PermissionsStore
<1>1. Init => PermissionsStore
  BY DEF Init, PermissionsStore
<1>2. TypeOK /\ PermissionsStore /\ [Next]_vars => PermissionsStore'
  BY NextPermissionsStore
<1>. QED
  BY <1>1, <1>2, TypeCorrect, PTL DEF Spec

\* Permission requests and wrapped (version 3) messages that the wallet has acknowledged
\* and lists as pending were handed to its app or are on their way there, whatever is
\* duplicated, removed, restarted or overlaps (connect, IncomingRequestInterceptor).
THEOREM UncheckedRequestsReachApp ==
  Spec => [](\A r \in Requests : NeedsNoMetadata(r) => ReachesApp(r))
<1>. DEFINE Unchecked == \A r \in Requests : NeedsNoMetadata(r) => IsShown(r)
<1>1. Init => Unchecked
  BY DEF Init, IsShown
<1>2. TypeOK /\ Unchecked /\ [Next]_vars => Unchecked'
  BY NextIsShown DEF NeedsNoMetadata
<1>3. Unchecked => \A r \in Requests : NeedsNoMetadata(r) => ReachesApp(r)
  BY ShownReachesApp
<1>. QED
  BY <1>1, <1>2, <1>3, TypeCorrect, PTL DEF Spec

\* All acknowledged requests do, as long as the calls that add the metadata of two dApps
\* do not overlap: that is all that stands between a dApp and its metadata, and an
\* operation needs it to be handed over (StorageManager.addOne).
THEOREM AcknowledgedRequestsReachApp ==
  Spec /\ []StoresDoNotOverlap => []PendingReachesApp
<1>. DEFINE ReachInv == MetadataInv /\ \A r \in Requests : IsShown(r)
<1>1. Init => ReachInv
  BY RequestFlowAssumption
     DEF Init, MetadataInv, MetadataStays, CopiesAreCurrent, IsShown
<1>2. StoresDoNotOverlap /\ IInv /\ AccountNeedsApproval /\ PermissionsStore
        /\ ReachInv /\ [Next]_vars => ReachInv'
  <2>. SUFFICES ASSUME StoresDoNotOverlap, IInv, AccountNeedsApproval, PermissionsStore,
                       ReachInv, [Next]_vars
                PROVE  ReachInv'
    OBVIOUS
  <2>1. MetadataInv'
    BY NextMetadataInv
  <2>2. ASSUME NEW q \in Requests PROVE IsShown(q)'
    <3>1. NeedsNoMetadata(q) \/ (BeingIntercepted(q) => Sender[q] \in appMetadata)
      BY OperationsFindMetadata DEF MetadataInv
    <3>. QED
      BY <3>1, NextIsShown DEF IInv
  <2>. QED
    BY <2>1, <2>2
<1>3. ReachInv => PendingReachesApp
  BY ShownReachesApp DEF PendingReachesApp
<1>. QED
  BY <1>1, <1>2, <1>3, InvariantHolds, AccountsAreApproved, PermissionsAloneStore, PTL
     DEF Spec

\* They do not overlap where one dApp asks for permissions, however often it asks.
THEOREM OneDAppsRequestsReachApp ==
  ASSUME OneDAppAsks
  PROVE  Spec => []PendingReachesApp
<1>1. PermissionsStore => StoresDoNotOverlap
  BY DEF OneDAppAsks, PermissionsStore, StoresDoNotOverlap
<1>. QED
  BY <1>1, PermissionsAloneStore, AcknowledgedRequestsReachApp, PTL

-----------------------------------------------------------------------------
(***************************************************************************)
(* Where answers go, and who is heard                                      *)
(***************************************************************************)

\* Only pairings that may be removed are; the others stay among the wallet's peers.
RemovalsAreAllowed ==
  /\ \A d \in DApps : forgetting[d] = "local" => d \in Removable
  /\ byeToWallet \subseteq Removable
  /\ DApps \subseteq peers \cup Removable

\* An answer that goes astray is one to a dApp whose pairing may have been removed.
StrayAnswersWereRemoved ==
  \A m \in toDApp : m[1] = Sender[m[2]] \/ Sender[m[2]] \in Removable

AddressInv == RemovalsAreAllowed /\ StrayAnswersWereRemoved

LEMMA NextAddressInv ==
  ASSUME TypeOK, AddressInv, [Next]_vars
  PROVE  AddressInv'
<1>. USE DEF AddressInv, RemovalsAreAllowed, StrayAnswersWereRemoved
<1>1. ASSUME UNCHANGED <<forgetting, byeToWallet, peers>>, toDApp' \subseteq toDApp
      PROVE  AddressInv'
  BY <1>1
<1>2. CASE DAppNext
  <2>. USE DEF walletVars, linkVars, channelVars
  <2>1. ASSUME NEW r \in Requests, MakeRequest(r) \/ SendRequest(r) \/ SetAccount(r)
        PROVE  AddressInv'
    BY <1>1, <2>1 DEF MakeRequest, SendRequest, SetAccount
  <2>2. ASSUME NEW r \in Requests, NEW a \in Answers, FinishPermission(r, a)
        PROVE  AddressInv'
    BY <1>1, <2>2 DEF FinishPermission
  <2>3. ASSUME NEW d \in DApps, NEW r \in Requests, NEW body \in Bodies,
               ReceiveMessage(d, r, body)
        PROVE  AddressInv'
    BY <1>1, <2>3 DEF ReceiveMessage, Delivered
  <2>4. ASSUME NEW d \in DApps, RemoveWallet(d) \/ ReceiveDisconnect(d) \/ DAppRestart(d)
        PROVE  AddressInv'
    BY <2>4 DEF RemoveWallet, ReceiveDisconnect, DAppRestart, TypeOK
  <2>5. ASSUME NEW d \in DApps, RemoveAccounts(d)
        PROVE  AddressInv'
    BY <2>5 DEF RemoveAccounts, TypeOK
  <2>6. ASSUME NEW d \in DApps, Pair(d)
        PROVE  AddressInv'
    BY <2>6 DEF Pair
  <2>. QED
    BY <1>2, <2>1, <2>2, <2>3, <2>4, <2>5, <2>6 DEF DAppNext
<1>3. CASE WalletNext
  <2>. USE DEF dAppVars, channelVars, linkVars
  <2>1. ASSUME NEW r \in Requests, ReceiveRequest(r)
        PROVE  AddressInv'
    BY <1>1, <2>1 DEF ReceiveRequest
  <2>2. ASSUME NEW r \in Requests, NEW seen \in SUBSET DApps,
               InterceptRequest(r, seen) \/ StoreMetadata(r, seen)
        PROVE  AddressInv'
    BY <1>1, <2>2 DEF InterceptRequest, StoreMetadata
  <2>3. ASSUME NEW r \in Requests, NEW a \in Answers, Respond(r, a) \/ ComposePermission(r, a)
        PROVE  AddressInv'
    BY <1>1, <2>3 DEF Respond, ComposePermission
  <2>4. ASSUME NEW r \in Requests, NEW body \in Bodies, SendToDApp(r, body)
        PROVE  AddressInv'
    <3>1. Sender[r] \in peers \cup Removable
      BY RequestFlowAssumption
    <3>2. \A m \in toDApp' : m \in toDApp \/ m[1] = Sender[m[2]] \/ Sender[m[2]] \in Removable
      BY <2>4, <3>1 DEF SendToDApp
    <3>. QED
      BY <2>4, <3>2 DEF SendToDApp
  <2>5. ASSUME NEW d \in DApps, NEW tell \in BOOLEAN,
               RemovePeer(d, tell) \/ ReceiveDisconnectFrom(d)
        PROVE  AddressInv'
    BY <2>5 DEF RemovePeer, ReceiveDisconnectFrom, ForgetPeer, Delivered
  <2>6. CASE Connect \/ WalletRestart
    BY <1>1, <2>6 DEF Connect, WalletRestart
  <2>. QED
    BY <1>3, <2>1, <2>2, <2>3, <2>4, <2>5, <2>6, RequestFlowAssumption DEF WalletNext
<1>4. CASE UNCHANGED vars
  BY <1>1, <1>4 DEF vars, dAppVars, channelVars, walletVars, linkVars
<1>. QED
  BY <1>2, <1>3, <1>4 DEF Next

\* What the wallet sends for a request goes to nobody but the dApp that made it, unless
\* the pairing with that dApp may have been removed: an answer to a removed dApp is what
\* the broadcast of respondToMessage needs.
THEOREM PairedDAppsAreAnswered == Spec => []StrayAnswersWereRemoved
<1>1. Init => AddressInv
  BY DEF Init, AddressInv, RemovalsAreAllowed, StrayAnswersWereRemoved
<1>2. TypeOK /\ AddressInv /\ [Next]_vars => AddressInv'
  BY NextAddressInv
<1>3. AddressInv => StrayAnswersWereRemoved
  BY DEF AddressInv
<1>. QED
  BY <1>1, <1>2, <1>3, TypeCorrect, PTL DEF Spec

\* Every callback is subscribed, and there is one for each peer once the wallet connects.
ListenersHear ==
  /\ activeListeners = subscribed
  /\ IF connected THEN peers \subseteq subscribed ELSE subscribed = {}

\* No dApp's Disconnect arrives.
NobodyDisconnects == \A d \in DApps : ~ReceiveDisconnectFrom(d)

LEMMA NextListenersHear ==
  ASSUME ListenersHear, [Next]_vars, NobodyDisconnects \/ UNCHANGED vars
  PROVE  ListenersHear'
<1>. USE DEF ListenersHear
<1>1. ASSUME UNCHANGED linkVars
      PROVE  ListenersHear'
  BY <1>1 DEF linkVars
<1>2. CASE UNCHANGED vars
  BY <1>1, <1>2 DEF vars, walletVars
<1>3. ASSUME NEW d \in DApps, Pair(d)
      PROVE  ListenersHear'
  BY <1>3 DEF Pair, Listen
<1>4. CASE DAppNext
  <2>1. ASSUME NEW r \in Requests, MakeRequest(r) \/ SendRequest(r) \/ SetAccount(r)
        PROVE  ListenersHear'
    BY <1>1, <2>1 DEF MakeRequest, SendRequest, SetAccount, walletVars
  <2>2. ASSUME NEW r \in Requests, NEW a \in Answers, FinishPermission(r, a)
        PROVE  ListenersHear'
    BY <1>1, <2>2 DEF FinishPermission, walletVars
  <2>3. ASSUME NEW d \in DApps, NEW r \in Requests, NEW body \in Bodies,
               ReceiveMessage(d, r, body)
        PROVE  ListenersHear'
    BY <1>1, <2>3 DEF ReceiveMessage, walletVars
  <2>4. ASSUME NEW d \in DApps, \/ RemoveWallet(d) \/ ReceiveDisconnect(d)
                                \/ RemoveAccounts(d) \/ DAppRestart(d)
        PROVE  ListenersHear'
    BY <1>1, <2>4 DEF RemoveWallet, ReceiveDisconnect, RemoveAccounts, DAppRestart, walletVars
  <2>. QED
    BY <1>3, <1>4, <2>1, <2>2, <2>3, <2>4 DEF DAppNext
<1>5. ASSUME WalletNext, NobodyDisconnects
      PROVE  ListenersHear'
  <2>1. ASSUME NEW r \in Requests, ReceiveRequest(r)
        PROVE  ListenersHear'
    BY <1>1, <2>1 DEF ReceiveRequest
  <2>2. ASSUME NEW r \in Requests, NEW seen \in SUBSET DApps,
               InterceptRequest(r, seen) \/ StoreMetadata(r, seen)
        PROVE  ListenersHear'
    BY <1>1, <2>2 DEF InterceptRequest, StoreMetadata
  <2>3. ASSUME NEW r \in Requests, NEW a \in Answers, Respond(r, a) \/ ComposePermission(r, a)
        PROVE  ListenersHear'
    BY <1>1, <2>3 DEF Respond, ComposePermission
  <2>4. ASSUME NEW r \in Requests, NEW body \in Bodies, SendToDApp(r, body)
        PROVE  ListenersHear'
    BY <1>1, <2>4 DEF SendToDApp
  <2>5. ASSUME NEW d \in DApps, NEW tell \in BOOLEAN, RemovePeer(d, tell)
        PROVE  ListenersHear'
    BY <2>5 DEF RemovePeer, ForgetPeer
  <2>6. CASE Connect \/ WalletRestart
    BY <2>6 DEF Connect, Listen, WalletRestart
  <2>. QED
    BY <1>5, <2>1, <2>2, <2>3, <2>4, <2>5, <2>6, RequestFlowAssumption
       DEF WalletNext, NobodyDisconnects
<1>. QED
  BY <1>2, <1>4, <1>5 DEF Next, NobodyDisconnects

\* A connected wallet hears all its peers, however often it restarts, removes peers and
\* pairs again, as long as no dApp disconnects: only handling a Disconnect resets the
\* Matrix client and leaves the activeListeners behind.
THEOREM WalletHearsPeers ==
  Spec /\ [][NobodyDisconnects]_vars => []ConnectedWalletHearsPeers
<1>1. Init => ListenersHear
  BY DEF Init, ListenersHear
<1>2. ListenersHear /\ [Next]_vars /\ [NobodyDisconnects]_vars => ListenersHear'
  BY NextListenersHear
<1>3. ListenersHear => ConnectedWalletHearsPeers
  BY DEF ListenersHear, ConnectedWalletHearsPeers
<1>. QED
  BY <1>1, <1>2, <1>3, PTL DEF Spec

=============================================================================
