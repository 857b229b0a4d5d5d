-------------------------- MODULE P2PClientProofs --------------------------
(***************************************************************************)
(* Theorems about P2PClient for any messages, peers and resets: its relay  *)
(* server, and how often it handles a message; and about MatrixRooms: the  *)
(* rooms a client has recorded for its peer are shared with it.            *)
(***************************************************************************)
EXTENDS P2PClient, MatrixRooms, SequenceTheorems, TLAPS

-----------------------------------------------------------------------------
(***************************************************************************)
(* The inductive invariant                                                 *)
(***************************************************************************)

\* A server that was found is stored; a client is connected to such a one, if no
\* start() came late.
FoundServerIsStored ==
  /\ relay = "known" => node
  /\ conn \in {"starting", "on"} /\ ~cameLate => relay = "known"

\* Each message is sent once.
SentOnce ==
  \A i, j \in 1..Len(timeline) : timeline[i] = timeline[j] => i = j

\* A callback that waits for the client is noted and not subscribed.
WaitingIsNoted ==
  \A p \in Peers : listening[p] = "waiting" => p \in activeListeners \ subscribed

\* A callback that a dropped client calls is noted, and neither waits nor is it
\* subscribed to another client.
DroppedKeepTheirs ==
  /\ \A c \in abandoned, p \in Peers :
       p \in c.subs => p \in activeListeners \ subscribed /\ listening[p] # "waiting"
  /\ \A c, d \in abandoned, p \in Peers : p \in c.subs /\ p \in d.subs => c = d

\* Has a client with sync token t got past m?
Read(t, m) == t # None /\ \E i \in 1..t : timeline[i] = m

\* Who sees the initial event has stored the token it came with.
InitialIsStored == initialEvent # None => Read(stored, initialEvent)

\* A dropped client has the callback of m's sender.
Elsewhere(m) == \E c \in abandoned : From[m] \in c.subs

\* The client, or one that starts with the storage or has the callback of m's
\* sender, has yet to get m.
Unread(m) ==
  \/ ~Read(stored, m)
  \/ conn \in {"starting", "on"} /\ ~Read(token, m) /\ ~Elsewhere(m)
  \/ \E c \in abandoned : From[m] \in c.subs /\ ~Read(c.token, m)

\* The client is going to get m in a poll, after its first sync.
New(m) ==
  \/ \A i \in 1..Len(timeline) : timeline[i] # m
  \/ conn = "on" /\ ~Read(token, m)

\* The callback of p may still be subscribed in this page.  It is never
\* subscribed twice, because activeListeners only grows.
Fresh(p) == p \notin activeListeners \/ listening[p] = "waiting"

\* m may be the initial event when the callback of its sender is subscribed; of
\* clients that were dropped or come late, any message may be.
MayBeInitial(m) ==
  Fresh(From[m]) /\ (initialEvent = m \/ abandoned \cup late # {})

Bit(b) == IF b THEN 1 ELSE 0

\* How often m was or is being handled.
Spent(m) == handled[m] + Bit(m \in handling)

\* How often m can be handled from now on if the client is not reset: by a callback
\* that a client calls, and, if that is in a poll, before as the initial event.
Left(m) == Bit(Unread(m) \/ MayBeInitial(m)) + Bit(New(m) /\ MayBeInitial(m))

Paid(m) == Spent(m) + Left(m) <= 1 + resets

ResetsPay == \A m \in Messages : Paid(m)

\* What is left alone by the count of handled messages.
PageInv ==
  /\ TypeOK
  /\ SentOnce
  /\ WaitingIsNoted
  /\ DroppedKeepTheirs
  /\ InitialIsStored
  /\ conn = "on" => token # None

IInv == PageInv /\ ResetsPay

-----------------------------------------------------------------------------
(***************************************************************************)
(* The timeline                                                            *)
(***************************************************************************)

\* The position a sync with token t starts behind.
Base(t) == IF t = None THEN 0 ELSE t

\* What a sync returns is the rest of the timeline.
LEMMA NewSinceIsRest ==
  ASSUME TypeOK, NEW t \in Tokens
  PROVE  /\ Len(timeline) \in Nat
         /\ Base(t) \in 0..Len(timeline)
         /\ NewSince(t) \in Seq(Messages)
         /\ Len(NewSince(t)) = Len(timeline) - Base(t)
         /\ \A i \in 1..Len(NewSince(t)) :
              /\ Base(t) + i \in 1..Len(timeline)
              /\ NewSince(t)[i] = timeline[Base(t) + i]
              /\ NewSince(t)[i] \in Messages
<1>. DEFINE n == Len(timeline)
<1>1. timeline \in Seq(Messages) /\ n \in Nat
  BY DEF TypeOK
<1>2. \A i \in 1..n : timeline[i] \in Messages
  BY <1>1
<1>3. CASE t = None
  BY <1>1, <1>2, <1>3, P2PClientAssumption DEF NewSince, Base
<1>4. CASE t # None
  <2>1. t \in Nat /\ t + 1 \in Nat /\ t <= n
    BY <1>1, <1>4 DEF Tokens
  <2>2. NewSince(t) = SubSeq(timeline, t + 1, n) /\ Base(t) = t
    BY <1>4 DEF NewSince, Base
  <2>3. \A i \in t + 1 .. n : timeline[i] \in Messages
    BY <1>2, <2>1
  <2>. HIDE DEF n
  <2>4. /\ SubSeq(timeline, t + 1, n) \in Seq(Messages)
        /\ Len(SubSeq(timeline, t + 1, n)) = IF t + 1 <= n THEN n - (t + 1) + 1 ELSE 0
        /\ \A i \in 1..(n - (t + 1) + 1) :
             SubSeq(timeline, t + 1, n)[i] = timeline[t + 1 + i - 1]
    BY <1>1, <2>1, <2>3, SubSeqProperties
  <2>5. Len(SubSeq(timeline, t + 1, n)) = n - t
    BY <1>1, <2>1, <2>4
  <2>6. \A i \in 1..(n - t) : /\ t + i \in 1..n
                              /\ SubSeq(timeline, t + 1, n)[i] = timeline[t + i]
                              /\ timeline[t + i] \in Messages
    BY <1>1, <1>2, <2>1, <2>4
  <2>. QED
    BY <1>1, <2>1, <2>2, <2>4, <2>5, <2>6 DEF n
<1>. QED
  BY <1>3, <1>4

\* What a client is told was not read, if each message was sent once.
LEMMA NewIsUnread ==
  ASSUME TypeOK, SentOnce, NEW t \in Tokens, NEW i \in 1..Len(NewSince(t))
  PROVE  ~Read(t, NewSince(t)[i])
<1>1. CASE t = None
  BY <1>1 DEF Read
<1>2. CASE t # None
  <2>1. Base(t) = t /\ t \in Nat
    BY <1>2 DEF Base, Tokens
  <2>2. /\ t + i \in 1..Len(timeline)
        /\ NewSince(t)[i] = timeline[t + i]
        /\ Len(timeline) \in Nat /\ t <= Len(timeline)
    BY <2>1, NewSinceIsRest
  <2>3. \A j \in 1..t : j \in 1..Len(timeline) /\ j # t + i
    BY <2>1, <2>2
  <2>. QED
    BY <2>2, <2>3 DEF Read, SentOnce
<1>. QED
  BY <1>1, <1>2

\* After a sync all messages there are have been read.
LEMMA AllIsRead ==
  ASSUME TypeOK, NEW i \in 1..Len(timeline)
  PROVE  Read(Len(timeline), timeline[i])
BY P2PClientAssumption DEF Read, TypeOK

\* The newest message of a sync is a new one, or the initial event there was.
LEMMA NewestIsMessage ==
  ASSUME TypeOK, NEW t \in Tokens
  PROVE  /\ Newest(t) \in Messages \cup {None}
         /\ \/ Newest(t) = initialEvent
            \/ \E i \in 1..Len(NewSince(t)) : Newest(t) = NewSince(t)[i]
<1>1. CASE NewSince(t) = <<>>
  BY <1>1 DEF Newest, TypeOK
<1>2. CASE NewSince(t) # <<>>
  <2>1. NewSince(t) \in Seq(Messages)
    BY NewSinceIsRest
  <2>2. Len(NewSince(t)) \in 1..Len(NewSince(t))
    BY <1>2, <2>1
  <2>. QED
    BY <1>2, <2>2, NewSinceIsRest DEF Newest
<1>. QED
  BY <1>1, <1>2

-----------------------------------------------------------------------------
(***************************************************************************)
(* Type correctness, and the callbacks of the dropped clients              *)
(***************************************************************************)

\* What the callbacks are called with are messages.
LEMMA EmittedAreMessages ==
  ASSUME TypeOK, NEW t \in Tokens, NEW S
  PROVE  EmittedTo(t, S) \subseteq Messages
BY NewSinceIsRest DEF EmittedTo

\* A client whose start() failed, if it polls.
LEMMA DroppedIsClient ==
  ASSUME TypeOK, NEW t \in Tokens, NEW polls \in BOOLEAN
  PROVE  /\ Dropped(t, polls) \subseteq Client
         /\ \A c \in Dropped(t, polls) : c.subs = {}
<1>1. Len(timeline) \in Nat /\ None \notin Nat
  BY P2PClientAssumption DEF TypeOK
<1>2. PICK b : b = IF t = None THEN 0 ELSE t
  OBVIOUS
<1>3. PICK c : c = [token |-> b, subs |-> {}, hears |-> TRUE]
  OBVIOUS
<1>4. b \in Tokens \ {None}
  BY <1>1, <1>2 DEF Tokens
<1>5. c \in Client /\ c.subs = {}
  BY <1>3, <1>4 DEF Client
<1>6. Dropped(t, polls) \subseteq {c}
  BY <1>2, <1>3 DEF Dropped
<1>. QED
  BY <1>5, <1>6

\* A sync token is still one after a step that sends no message.
LEMMA TokensStay ==
  ASSUME timeline' = timeline
  PROVE  Tokens' = Tokens /\ Client' = Client /\ (SentOnce => SentOnce')
BY DEF Tokens, Client, SentOnce

\* Clients without callbacks may be dropped, and callbacks be given up or added.
LEMMA DroppedKeep ==
  ASSUME TypeOK, DroppedKeepTheirs, NEW N,
         \A c \in N : c.subs = {},
         abandoned' \subseteq abandoned \cup N,
         activeListeners \subseteq activeListeners',
         \A p \in Peers : /\ p \in subscribed' => p \in subscribed \/ listening[p] = "waiting"
                          /\ listening'[p] = "waiting" =>
                               listening[p] = "waiting" \/ p \notin activeListeners
  PROVE  DroppedKeepTheirs'
<1>1. \A c \in abandoned', p \in Peers : p \in c.subs => c \in abandoned
  OBVIOUS
<1>. QED
  BY <1>1 DEF DroppedKeepTheirs

\* The initial event stays, or is forgotten, or comes with a stored token.
LEMMA InitialStays ==
  ASSUME TypeOK, InitialIsStored, timeline' = timeline,
         \/ initialEvent' = None
         \/ initialEvent' = initialEvent /\ stored' = stored
         \/ /\ stored' = Len(timeline)
            /\ \/ initialEvent' = initialEvent
               \/ \E t \in Tokens : initialEvent' = Newest(t)
  PROVE  InitialIsStored'
<1>0. Len(timeline) \in Nat /\ Len(timeline) # None /\ stored \in Tokens
  BY P2PClientAssumption DEF TypeOK
<1>1. CASE initialEvent' = None
  BY <1>1 DEF InitialIsStored
<1>2. CASE initialEvent' = initialEvent /\ stored' = stored
  BY <1>2 DEF InitialIsStored, Read
<1>3. CASE /\ stored' = Len(timeline)
           /\ \/ initialEvent' = initialEvent
              \/ \E t \in Tokens : initialEvent' = Newest(t)
  <2>1. initialEvent # None => Read(Len(timeline), initialEvent)
    BY <1>0 DEF InitialIsStored, Read, Tokens
  <2>2. ASSUME NEW t \in Tokens, initialEvent' = Newest(t), initialEvent' # initialEvent
        PROVE  Read(Len(timeline), initialEvent')
    <3>1. PICK i \in 1..Len(NewSince(t)) : initialEvent' = NewSince(t)[i]
      BY <2>2, NewestIsMessage
    <3>2. \E j \in 1..Len(timeline) : initialEvent' = timeline[j]
      BY <3>1, NewSinceIsRest
    <3>. QED
      BY <1>0, <3>2 DEF Read
  <2>3. initialEvent' # None => Read(Len(timeline), initialEvent')
    BY <1>3, <2>1, <2>2
  <2>. QED
    BY <1>3, <2>3 DEF InitialIsStored, Read
<1>. QED
  BY <1>1, <1>2, <1>3

LEMMA NextPageInv == PageInv /\ [Next]_vars => PageInv'
<1>. SUFFICES ASSUME PageInv, [Next]_vars PROVE PageInv'
  OBVIOUS
<1>. USE P2PClientAssumption DEF relayVars, startVars, pageVars, PageInv
<1>. DEFINE n == Len(timeline)
<1>0. n \in Nat /\ n \in Tokens /\ None \in Tokens /\ n # None /\ token \in Tokens
  BY DEF TypeOK, Tokens
<1>a. ASSUME timeline' = timeline,
             stored' \in {stored, None, n}, peers' \subseteq Peers, node' \in BOOLEAN,
             relay' \in {"none", "pending", "known"}, region' \in BOOLEAN,
             conn' \in {"off", "starting", "on", "stuck", "deaf"},
             token' \in {token, stored, None, n}, late' \subseteq (1..MaxResets) \X Tokens,
             abandoned' \subseteq Client, activeListeners' \subseteq Peers,
             listening' \in [Peers -> {"no", "waiting", "finishing"}],
             subscribed' \subseteq activeListeners', initialOn' \in {"no", "yes", "kept"},
             initialEvent' \in Messages \cup {None}, handling' \subseteq Messages,
             cameLate' \in BOOLEAN, handled' \in [Messages -> Nat], resets' \in 0..MaxResets
      PROVE  TypeOK'
  <2>1. Tokens' = Tokens /\ Client' = Client
    BY <1>a, TokensStay
  <2>2. stored' \in Tokens /\ token' \in Tokens
    BY <1>0, <1>a DEF TypeOK
  <2>. QED
    BY <1>a, <2>1, <2>2 DEF TypeOK
<1>1. CASE UNCHANGED vars
  BY <1>1 DEF vars, TypeOK, Tokens, Client, SentOnce, WaitingIsNoted, DroppedKeepTheirs,
              InitialIsStored, Read
<1>2. ASSUME NEW m \in Messages, Send(m)
      PROVE  PageInv'
  <2>1. /\ timeline' \in Seq(Messages)
        /\ Len(timeline') = n + 1
        /\ \A i \in 1..n : timeline'[i] = timeline[i]
        /\ timeline'[n + 1] = m
    BY <1>2 DEF Send, TypeOK
  <2>2. Tokens \subseteq Tokens' /\ Client \subseteq Client'
    BY <1>0, <2>1 DEF Tokens, Client
  <2>3. TypeOK'
    <3>1. late' \subseteq (1..MaxResets) \X Tokens' /\ abandoned' \subseteq Client'
      BY <1>2, <2>2 DEF Send, TypeOK
    <3>. QED
      BY <1>2, <2>1, <2>2, <3>1 DEF Send, TypeOK
  <2>4. \A i \in 1..n : timeline[i] # m
    BY <1>2 DEF Send
  <2>5. InitialIsStored'
    <3>1. stored = None \/ stored \in 0..n
      BY DEF TypeOK, Tokens
    <3>2. \A e : Read(stored, e) => Read(stored, e)'
      BY <1>0, <1>2, <2>1, <3>1 DEF Send, Read
    <3>. QED
      BY <1>2, <3>2 DEF Send, InitialIsStored
  <2>. HIDE DEF n
  <2>6. SentOnce'
    BY <1>0, <2>1, <2>4 DEF SentOnce, n
  <2>7. WaitingIsNoted' /\ DroppedKeepTheirs'
    BY <1>2 DEF Send, WaitingIsNoted, DroppedKeepTheirs
  <2>. QED
    BY <1>2, <2>3, <2>5, <2>6, <2>7 DEF Send
<1>3. ASSUME NEW m \in Messages, Handle(m)
      PROVE  PageInv'
  <2>1. TypeOK'
    BY <1>a, <1>3 DEF Handle, TypeOK
  <2>. QED
    BY <1>3, <2>1 DEF Handle, SentOnce, WaitingIsNoted, DroppedKeepTheirs, InitialIsStored, Read
<1>4. ASSUME NEW p \in Peers, AddPeer(p)
      PROVE  PageInv'
  <2>1. TypeOK'
    BY <1>a, <1>4 DEF AddPeer, Register, TypeOK
  <2>2. DroppedKeepTheirs'
    BY <1>4 DEF AddPeer, Register, DroppedKeepTheirs
  <2>. QED
    BY <1>4, <2>1, <2>2 DEF AddPeer, Register, TypeOK, SentOnce, WaitingIsNoted, InitialIsStored, Read
<1>5. ASSUME NEW p \in Peers, Subscribe(p)
      PROVE  PageInv'
  <2>1. TypeOK'
    BY <1>a, <1>5 DEF Subscribe, TypeOK, WaitingIsNoted
  <2>2. DroppedKeepTheirs'
    BY <1>5 DEF Subscribe, DroppedKeepTheirs, TypeOK
  <2>. QED
    BY <1>5, <2>1, <2>2 DEF Subscribe, TypeOK, SentOnce, WaitingIsNoted, InitialIsStored, Read
<1>6. ASSUME NEW p \in Peers, FinishListening(p)
      PROVE  PageInv'
  <2>1. TypeOK'
    BY <1>a, <1>6 DEF FinishListening, TypeOK
  <2>2. DroppedKeepTheirs'
    BY <1>6 DEF FinishListening, DroppedKeepTheirs, TypeOK
  <2>. QED
    BY <1>6, <2>1, <2>2 DEF FinishListening, TypeOK, SentOnce, WaitingIsNoted, InitialIsStored, Read
<1>7. ASSUME NEW polls \in BOOLEAN, StartFails(polls)
      PROVE  PageInv'
  <2>1. Dropped(token, polls) \subseteq Client /\ \A c \in Dropped(token, polls) : c.subs = {}
    BY <1>0, DroppedIsClient
  <2>2. /\ resets' \in 0..MaxResets /\ relay' \in {"none", "pending"}
        /\ conn' \in {"stuck", "deaf"} /\ stored' = None /\ node' = FALSE /\ initialEvent' = None
    BY <1>7 DEF StartFails, Reset, ResetAndStart, Forget, TypeOK
  <2>3. /\ activeListeners' \subseteq Peers /\ activeListeners \subseteq activeListeners'
        /\ listening' \in [Peers -> {"no", "waiting", "finishing"}]
        /\ \A p \in Peers : listening'[p] = "waiting" =>
                              p \notin activeListeners /\ p \in activeListeners'
    BY <1>7 DEF StartFails, Relisten, Waiting, TypeOK
  <2>4. TypeOK'
    BY <1>a, <1>7, <2>1, <2>2, <2>3 DEF StartFails, TypeOK
  <2>5. DroppedKeepTheirs'
    BY <1>7, <2>1, <2>3, DroppedKeep DEF StartFails
  <2>6. SentOnce' /\ InitialIsStored'
    BY <1>7, <2>2, InitialStays, TokensStay DEF StartFails
  <2>. QED
    BY <1>7, <2>3, <2>4, <2>5, <2>6 DEF StartFails, WaitingIsNoted, TypeOK
<1>8. ASSUME NEW s \in late, LateStarts(s)
      PROVE  PageInv'
  <2>1. s[1] \in 1..MaxResets /\ s[2] \in Tokens
    BY DEF TypeOK
  <2>2. Dropped(n, TRUE) \subseteq Client /\ \A c \in Dropped(n, TRUE) : c.subs = {}
    BY <1>0, DroppedIsClient
  <2>3. Newest(s[2]) \in Messages \cup {None}
    BY <2>1, NewestIsMessage
  <2>4. /\ activeListeners' \subseteq Peers /\ activeListeners \subseteq activeListeners'
        /\ listening' \in [Peers -> {"no", "waiting", "finishing"}]
        /\ \A p \in Peers : listening'[p] = "waiting" =>
             listening[p] = "waiting" \/ (p \notin activeListeners /\ p \in activeListeners')
    BY <1>8 DEF LateStarts, Register, TypeOK
  <2>5. late' \subseteq (1..MaxResets) \X Tokens
    <3>1. PICK d : d = <<s[1], token>>
      OBVIOUS
    <3>2. d \in (1..MaxResets) \X Tokens
      BY <1>0, <2>1, <3>1
    <3>3. late' \subseteq late \cup {d}
      BY <1>8, <3>1 DEF LateStarts
    <3>. QED
      BY <3>2, <3>3 DEF TypeOK
  <2>6. /\ conn' \in {conn, "on"} /\ token' \in {token, n} /\ initialOn' \in {initialOn, "kept"}
        /\ abandoned' \subseteq abandoned \cup Dropped(n, TRUE)
    BY <1>8 DEF LateStarts
  <2>7. TypeOK'
    BY <1>a, <1>8, <2>2, <2>3, <2>4, <2>5, <2>6 DEF LateStarts, TypeOK
  <2>8. DroppedKeepTheirs'
    BY <1>8, <2>2, <2>4, <2>6, DroppedKeep DEF LateStarts
  <2>9. SentOnce' /\ InitialIsStored'
    BY <1>8, <2>1, InitialStays, TokensStay DEF LateStarts
  <2>. QED
    <3>1. (conn = "on" => token # None) /\ n # None
      BY <1>0
    <3>2. conn' = "on" => token' # None
      BY <1>8, <3>1 DEF LateStarts
    <3>3. WaitingIsNoted'
      BY <1>8, <2>4 DEF LateStarts, WaitingIsNoted, TypeOK
    <3>. QED
      BY <2>7, <2>8, <2>9, <3>2, <3>3
<1>9. ASSUME NEW s \in late, NEW polls \in BOOLEAN, LateFails(s, polls)
      PROVE  PageInv'
  <2>1. s[2] \in Tokens
    BY DEF TypeOK
  <2>2. Dropped(s[2], polls) \subseteq Client /\ \A c \in Dropped(s[2], polls) : c.subs = {}
    BY <2>1, DroppedIsClient
  <2>3. Replaced \subseteq Client /\ \A c \in Replaced : c.subs = subscribed \cup Waiting
    <3>1. PICK S : S = subscribed \cup Waiting
      OBVIOUS
    <3>2. PICK b \in BOOLEAN : b = (initialOn # "no")
      OBVIOUS
    <3>3. PICK c : c = [token |-> token, subs |-> S, hears |-> b]
      OBVIOUS
    <3>4. S \subseteq Peers
      BY <3>1 DEF Waiting, TypeOK
    <3>5. conn = "on" => c \in Client
      BY <1>0, <3>3, <3>4 DEF Client
    <3>6. Replaced = IF conn = "on" THEN {c} ELSE {}
      BY <3>1, <3>2, <3>3 DEF Replaced
    <3>7. c.subs = S
      BY <3>3
    <3>. QED
      BY <3>1, <3>5, <3>6, <3>7
  <2>4. /\ resets' \in 0..MaxResets /\ relay' \in {"none", "pending"}
        /\ conn' \in {"off", "starting", "stuck", "deaf"} /\ stored' = None
        /\ node' = FALSE /\ initialEvent' = None
    BY <1>9 DEF LateFails, Reset, ResetAndStart, Forget, TypeOK
  <2>5. /\ activeListeners' \subseteq Peers /\ activeListeners \subseteq activeListeners'
        /\ listening' \in [Peers -> {"no", "waiting", "finishing"}]
        /\ \A p \in Peers : listening'[p] = "waiting" =>
                              p \notin activeListeners /\ p \in activeListeners'
    BY <1>9 DEF LateFails, Relisten, Waiting, TypeOK
  <2>6. /\ late' \subseteq (1..MaxResets) \X Tokens /\ token' \in {token, None}
        /\ initialOn' \in {"no", "kept"} /\ subscribed' = {}
        /\ abandoned' = abandoned \cup Dropped(s[2], polls) \cup Replaced
    BY <1>9 DEF LateFails, TypeOK
  <2>7. TypeOK'
    <3>1. abandoned' \subseteq Client
      BY <2>2, <2>3, <2>6 DEF TypeOK
    <3>2. /\ timeline' = timeline /\ peers' = peers /\ region' = region /\ cameLate' = TRUE
          /\ handling' = handling /\ handled' = handled
      BY <1>9 DEF LateFails
    <3>. QED
      BY <1>a, <2>4, <2>5, <2>6, <3>1, <3>2 DEF TypeOK
  <2>8. DroppedKeepTheirs'
    <3>1. \A c \in Replaced, p \in Peers : p \in c.subs => p \in activeListeners
      BY <2>3 DEF Waiting, WaitingIsNoted, TypeOK
    <3>2. \A c \in Replaced, d \in abandoned, p \in Peers : ~(p \in c.subs /\ p \in d.subs)
      BY <2>3 DEF Waiting, DroppedKeepTheirs
    <3>3. \A c, d \in Replaced : c = d
      BY DEF Replaced
    <3>4. \A c \in abandoned', p \in Peers : p \in c.subs => c \in abandoned \cup Replaced
      BY <2>2, <2>6
    <3>5. \A c \in abandoned', p \in Peers :
            p \in c.subs => p \in activeListeners' \ subscribed' /\ listening'[p] # "waiting"
      BY <2>5, <2>6, <3>1, <3>4 DEF DroppedKeepTheirs
    <3>6. \A c, d \in abandoned', p \in Peers : p \in c.subs /\ p \in d.subs => c = d
      BY <3>2, <3>3, <3>4 DEF DroppedKeepTheirs
    <3>. QED
      BY <3>5, <3>6 DEF DroppedKeepTheirs
  <2>9. SentOnce' /\ InitialIsStored'
    BY <1>9, <2>4, InitialStays, TokensStay DEF LateFails
  <2>. QED
    BY <2>4, <2>5, <2>6, <2>7, <2>8, <2>9 DEF WaitingIsNoted
<1>10. ASSUME NEW c \in abandoned, AbandonedSync(c)
       PROVE  PageInv'
  <2>1. c \in Client /\ c.token \in Tokens
    BY DEF TypeOK, Client
  <2>2. Newest(c.token) \in Messages \cup {None} /\ EmittedTo(c.token, c.subs) \subseteq Messages
    BY <2>1, NewestIsMessage, EmittedAreMessages
  <2>3. PICK d : d = [c EXCEPT !.token = n]
    OBVIOUS
  <2>4. d \in Client /\ d.subs = c.subs /\ abandoned' = (abandoned \ {c}) \cup {d}
    BY <1>0, <1>10, <2>1, <2>3 DEF AbandonedSync, Client
  <2>5. TypeOK'
    <3>1. abandoned' \subseteq Client /\ initialEvent' \in Messages \cup {None} /\ handling' \subseteq Messages
      BY <1>10, <2>2, <2>4 DEF AbandonedSync, TypeOK
    <3>. QED
      BY <1>a, <1>10, <3>1 DEF AbandonedSync, TypeOK
  <2>6. DroppedKeepTheirs'
    <3>1. /\ subscribed' = subscribed /\ listening' = listening
          /\ activeListeners' = activeListeners
      BY <1>10 DEF AbandonedSync
    <3>. QED
      BY <2>4, <3>1 DEF DroppedKeepTheirs
  <2>7. SentOnce' /\ InitialIsStored'
    BY <1>10, <2>1, InitialStays, TokensStay DEF AbandonedSync
  <2>. QED
    BY <1>10, <2>5, <2>6, <2>7 DEF AbandonedSync, WaitingIsNoted
<1>11. CASE Connect
  <2>1. TypeOK'
    BY <1>a, <1>11 DEF Connect, ServerFound, TypeOK
  <2>2. DroppedKeepTheirs'
    BY <1>11 DEF Connect, DroppedKeepTheirs
  <2>. QED
    BY <1>11, <2>1, <2>2 DEF Connect, SentOnce, WaitingIsNoted, InitialIsStored, Read
<1>12. CASE ConnectFails
  <2>1. TypeOK'
    BY <1>a, <1>12 DEF ConnectFails, ServerNotFound, TypeOK
  <2>2. DroppedKeepTheirs'
    BY <1>12 DEF ConnectFails, DroppedKeepTheirs
  <2>. QED
    BY <1>12, <2>1, <2>2 DEF ConnectFails, SentOnce, WaitingIsNoted, InitialIsStored, Read
<1>13. CASE FirstSync
  <2>1. Newest(token) \in Messages \cup {None}
    BY <1>0, NewestIsMessage
  <2>2. TypeOK'
    BY <1>a, <1>13, <2>1 DEF FirstSync, Register, TypeOK
  <2>3. DroppedKeepTheirs'
    BY <1>13 DEF FirstSync, Register, DroppedKeepTheirs
  <2>4. SentOnce' /\ InitialIsStored'
    BY <1>0, <1>13, InitialStays, TokensStay DEF FirstSync
  <2>. QED
    BY <1>0, <1>13, <2>2, <2>3, <2>4 DEF FirstSync, Register, WaitingIsNoted, TypeOK
<1>14. CASE Disconnect
  <2>1. /\ resets' \in 1..MaxResets /\ stored' = None /\ node' = FALSE /\ initialEvent' = None
        /\ relay' = "none" /\ resets' \in 0..MaxResets
    BY <1>14 DEF Disconnect, Reset, Forget, TypeOK
  <2>2. /\ activeListeners' = activeListeners /\ subscribed' = {}
        /\ listening' \in [Peers -> {"no", "waiting", "finishing"}]
        /\ \A p \in Peers : listening'[p] # "waiting"
    BY <1>14 DEF Disconnect, Relisten, Waiting, TypeOK
  <2>3. late' \subseteq (1..MaxResets) \X Tokens
    <3>1. PICK d : d = <<resets', token>>
      OBVIOUS
    <3>2. d \in (1..MaxResets) \X Tokens
      BY <1>0, <2>1, <3>1
    <3>3. late' \subseteq late \cup {d}
      BY <1>14, <3>1 DEF Disconnect
    <3>. QED
      BY <3>2, <3>3 DEF TypeOK
  <2>4. TypeOK'
    BY <1>a, <1>14, <2>1, <2>2, <2>3 DEF Disconnect, TypeOK
  <2>5. DroppedKeepTheirs'
    BY <1>14, <2>2 DEF Disconnect, DroppedKeepTheirs
  <2>6. SentOnce' /\ InitialIsStored'
    BY <1>14, <2>1, InitialStays, TokensStay DEF Disconnect
  <2>. QED
    BY <1>14, <2>2, <2>4, <2>5, <2>6 DEF Disconnect, WaitingIsNoted
<1>15. CASE Reload
  <2>1. TypeOK'
    BY <1>a, <1>15 DEF Reload, FreshPage, TypeOK
  <2>2. DroppedKeepTheirs' /\ WaitingIsNoted'
    BY <1>15 DEF Reload, FreshPage, DroppedKeepTheirs, WaitingIsNoted
  <2>. QED
    BY <1>15, <2>1, <2>2 DEF Reload, FreshPage, SentOnce, InitialIsStored
<1>16. CASE Sync
  <2>1. Newest(token) \in Messages \cup {None} /\ EmittedTo(token, subscribed) \subseteq Messages
    BY <1>0, NewestIsMessage, EmittedAreMessages
  <2>2. TypeOK'
    <3>1. initialEvent' \in Messages \cup {None} /\ handling' \subseteq Messages
      BY <1>16, <2>1 DEF Sync, TypeOK
    <3>. QED
      BY <1>a, <1>16, <3>1 DEF Sync, TypeOK
  <2>3. DroppedKeepTheirs'
    BY <1>16 DEF Sync, DroppedKeepTheirs
  <2>4. SentOnce' /\ InitialIsStored'
    BY <1>0, <1>16, InitialStays, TokensStay DEF Sync
  <2>. QED
    BY <1>0, <1>16, <2>2, <2>3, <2>4 DEF Sync, WaitingIsNoted
<1>. QED
  BY <1>1, <1>2, <1>3, <1>4, <1>5, <1>6, <1>7, <1>8, <1>9, <1>10, <1>11, <1>12, <1>13,
     <1>14, <1>15, <1>16
     DEF Next

LEMMA InitPageInv == Init => PageInv
<1>. SUFFICES ASSUME Init PROVE PageInv
  OBVIOUS
<1>1. Len(timeline) = 0 /\ timeline \in Seq(Messages)
  BY DEF Init
<1>2. Tokens = {0, None} /\ 0 \in 0..MaxResets
  BY <1>1, P2PClientAssumption DEF Tokens
<1>3. handled \in [Messages -> Nat] /\ listening \in [Peers -> {"no", "waiting", "finishing"}]
  BY DEF Init
<1>4. TypeOK
  BY <1>1, <1>2, <1>3, P2PClientAssumption DEF Init, TypeOK
<1>5. SentOnce /\ WaitingIsNoted /\ DroppedKeepTheirs /\ InitialIsStored /\ conn # "on"
  BY <1>1 DEF Init, SentOnce, WaitingIsNoted, DroppedKeepTheirs, InitialIsStored
<1>. QED
  BY <1>4, <1>5 DEF PageInv

\* Whatever starts, fails, is reset or polls on, the state of the client is well
\* formed: only callbacks that are noted are subscribed, and no sync token is
\* beyond the messages there are.
THEOREM TypeCorrect == Spec => []TypeOK
<1>1. PageInv => TypeOK
  BY DEF PageInv
<1>. QED
  BY <1>1, InitPageInv, NextPageInv, PTL DEF Spec

-----------------------------------------------------------------------------
(***************************************************************************)
(* The relay server                                                        *)
(***************************************************************************)

LEMMA NextFoundServerIsStored ==
  TypeOK /\ FoundServerIsStored /\ [Next]_vars => FoundServerIsStored'
<1>. SUFFICES ASSUME TypeOK, FoundServerIsStored, [Next]_vars PROVE FoundServerIsStored'
  OBVIOUS
<1>. USE DEF relayVars, startVars, pageVars, FoundServerIsStored
<1>1. CASE UNCHANGED <<conn, relay, node, cameLate>>
  BY <1>1
<1>2. ASSUME NEW m \in Messages, Send(m) \/ Handle(m)
      PROVE  FoundServerIsStored'
  BY <1>1, <1>2 DEF Send, Handle
<1>3. ASSUME NEW p \in Peers, AddPeer(p) \/ Subscribe(p) \/ FinishListening(p)
      PROVE  FoundServerIsStored'
  BY <1>1, <1>3 DEF AddPeer, Subscribe, FinishListening
<1>4. ASSUME NEW polls \in BOOLEAN, StartFails(polls)
      PROVE  FoundServerIsStored'
  BY <1>4 DEF StartFails, Reset, ResetAndStart, Forget
<1>5. ASSUME NEW s \in late, LateStarts(s)
      PROVE  FoundServerIsStored'
  BY <1>5 DEF LateStarts
<1>6. ASSUME NEW s \in late, NEW polls \in BOOLEAN, LateFails(s, polls)
      PROVE  FoundServerIsStored'
  BY <1>6 DEF LateFails, Reset, ResetAndStart, Forget
<1>7. ASSUME NEW c \in abandoned, AbandonedSync(c)
      PROVE  FoundServerIsStored'
  BY <1>1, <1>7 DEF AbandonedSync
<1>8. CASE Connect
  <2>1. relay' = "known" /\ (relay = "none" \/ relay = "known")
    BY <1>8 DEF Connect, ServerFound, TypeOK
  <2>2. node'
    BY <1>8, <2>1 DEF Connect, ServerFound
  <2>. QED
    BY <2>1, <2>2
<1>9. CASE ConnectFails \/ FirstSync \/ Disconnect \/ Reload \/ Sync
  BY <1>9 DEF ConnectFails, ServerNotFound, FirstSync, Disconnect, Reset, Forget, Reload,
              FreshPage, Sync
<1>10. CASE UNCHANGED vars
  BY <1>1, <1>10 DEF vars
<1>. QED
  BY <1>2, <1>3, <1>4, <1>5, <1>6, <1>7, <1>8, <1>9, <1>10 DEF Next

\* However logins fail and clients are stopped while they start, reset, reloaded and
\* started again, the server in use is the one that a page loaded again would use,
\* until a start() that was overtaken ends (getRelayServer, start, stop, reset).
THEOREM ServersAreStored == Spec => []ServerIsStored
<1>1. Init => FoundServerIsStored
  BY DEF Init, FoundServerIsStored
<1>2. FoundServerIsStored => ServerIsStored
  BY DEF FoundServerIsStored, ServerIsStored
<1>. QED
  BY <1>1, <1>2, TypeCorrect, NextFoundServerIsStored, PTL DEF Spec

-----------------------------------------------------------------------------
(***************************************************************************)
(* How often a message is handled                                          *)
(***************************************************************************)

\* The counts are numbers, before a step and after it.
LEMMA CountsAreNumbers ==
  ASSUME TypeOK, TypeOK', NEW m \in Messages
  PROVE  /\ Spent(m) \in Nat /\ Left(m) \in Nat /\ resets \in Nat
         /\ Spent(m)' \in Nat /\ Left(m)' \in Nat /\ resets' \in Nat
<1>1. /\ handled[m] \in Nat /\ resets \in Nat
      /\ handled'[m] \in Nat /\ resets' \in Nat
  BY P2PClientAssumption DEF TypeOK
<1>2. Spent(m) \in Nat /\ Spent(m)' \in Nat
  BY <1>1 DEF Spent, Bit
<1>3. Left(m) \in Nat /\ Left(m)' \in Nat
  BY DEF Left, Bit
<1>. QED
  BY <1>1, <1>2, <1>3

\* A step that lets m be handled no more often than before.
LEMMA StaysPaid ==
  ASSUME TypeOK, TypeOK', NEW m \in Messages, Paid(m),
         Spent(m)' <= Spent(m),
         Unread(m)' => Unread(m) \/ MayBeInitial(m),
         MayBeInitial(m)' => Unread(m) \/ MayBeInitial(m),
         New(m)' /\ MayBeInitial(m)' => New(m) /\ MayBeInitial(m),
         resets <= resets'
  PROVE  Paid(m)'
<1>1. Left(m)' <= Left(m)
  BY DEF Left, Bit
<1>. QED
  BY <1>1, CountsAreNumbers DEF Paid

\* A step that takes one from what is left may begin to handle m.
LEMMA PaysOne ==
  ASSUME TypeOK, TypeOK', NEW m \in Messages, Paid(m),
         Spent(m)' <= Spent(m) + 1,
         Left(m)' + 1 <= Left(m),
         resets' = resets
  PROVE  Paid(m)'
BY CountsAreNumbers DEF Paid

\* What was never sent is read by nobody.
LEMMA UnsentIsUnread ==
  ASSUME TypeOK, NEW m \in Messages, \A i \in 1..Len(timeline) : timeline[i] # m
  PROVE  Unread(m)
<1>1. stored # None => stored \in 0..Len(timeline) /\ Len(timeline) \in Nat
  BY DEF TypeOK, Tokens
<1>. QED
  BY <1>1 DEF Unread, Read

\* A reset gives back what it forgets: when no client is on, what was sent can be
\* handled once more at most.
LEMMA ResetPays ==
  ASSUME TypeOK, TypeOK', NEW m \in Messages, Paid(m), timeline' = timeline,
         conn' # "on", handled' = handled, handling' = handling, resets' = resets + 1
  PROVE  Paid(m)'
<1>1. CASE New(m)'
  <2>1. \A i \in 1..Len(timeline) : timeline[i] # m
    BY <1>1 DEF New
  <2>2. 1 <= Left(m) /\ Left(m)' <= 2
    BY <2>1, UnsentIsUnread DEF Left, Bit
  <2>. QED
    BY <2>2, CountsAreNumbers DEF Paid, Spent
<1>2. CASE ~New(m)'
  <2>1. 0 <= Left(m) /\ Left(m)' <= 1
    BY <1>2 DEF Left, Bit
  <2>. QED
    BY <2>1, CountsAreNumbers DEF Paid, Spent
<1>. QED
  BY <1>1, <1>2

\* The newest token has read what any token has.
LEMMA LastReadsMore ==
  ASSUME TypeOK, NEW t \in Tokens, NEW m, Read(t, m)
  PROVE  Read(Len(timeline), m)
<1>1. Len(timeline) \in Nat /\ Len(timeline) # None /\ t \in 0..Len(timeline)
  BY P2PClientAssumption DEF TypeOK, Read, Tokens
<1>. QED
  BY <1>1 DEF Read

\* Whoever syncs, there is no message sent that the storage has not read.
LEMMA SyncedIsRead ==
  ASSUME TypeOK, NEW m \in Messages, timeline' = timeline, stored' = Len(timeline),
         \/ token' = Len(timeline)
         \/ /\ token' = token /\ conn' = conn
            /\ Elsewhere(m) => Elsewhere(m)',
         \A c \in abandoned' : From[m] \in c.subs => \/ c \in abandoned
                                                     \/ c.token = Len(timeline)
  PROVE  Unread(m)' => Unread(m)
<1>. SUFFICES ASSUME Unread(m)', ~Unread(m) PROVE FALSE
  OBVIOUS
<1>1. \A t : Read(t, m)' <=> Read(t, m)
  BY DEF Read
<1>2. Read(stored, m) /\ Read(Len(timeline), m)
  BY LastReadsMore DEF Unread, TypeOK
<1>3. Read(stored', m)
  BY <1>2
<1>4. ASSUME NEW c \in abandoned', From[m] \in c.subs PROVE Read(c.token, m)
  <2>1. CASE c \in abandoned
    BY <1>4, <2>1 DEF Unread
  <2>2. CASE c.token = Len(timeline)
    BY <1>2, <2>2
  <2>. QED
    BY <1>4, <2>1, <2>2
<1>5. conn' \in {"starting", "on"} /\ ~Read(token', m) /\ ~Elsewhere(m)'
  BY <1>1, <1>3, <1>4 DEF Unread
<1>6. CASE token' = Len(timeline)
  BY <1>2, <1>5, <1>6
<1>7. CASE token' = token /\ conn' = conn /\ (Elsewhere(m) => Elsewhere(m)')
  BY <1>5, <1>7 DEF Unread
<1>. QED
  BY <1>6, <1>7

\* A message of a sync was sent, and then read.
LEMMA SyncedWasSent ==
  ASSUME TypeOK, SentOnce, NEW t \in Tokens, NEW m \in Messages,
         NEW i \in 1..Len(NewSince(t)), NewSince(t)[i] = m
  PROVE  ~Read(t, m) /\ Read(Len(timeline), m) /\ \E j \in 1..Len(timeline) : timeline[j] = m
<1>1. ~Read(t, m)
  BY NewIsUnread
<1>2. PICK j \in 1..Len(timeline) : m = timeline[j]
  BY NewSinceIsRest
<1>. QED
  BY <1>1, <1>2, AllIsRead

\* Who has a fresh callback is called by no dropped client.
LEMMA FreshIsNotElsewhere ==
  ASSUME PageInv, NEW m \in Messages, Fresh(From[m])
  PROVE  ~Elsewhere(m)
BY P2PClientAssumption DEF PageInv, DroppedKeepTheirs, Fresh, Elsewhere

\* What FirstSync and Sync, which hands some messages to callbacks, have in
\* common.  A message it hands over is new, and its sender is subscribed.
LEMMA SyncPays ==
  ASSUME PageInv, PageInv', NEW m \in Messages, Paid(m),
         conn \in {"starting", "on"}, conn' = "on", timeline' = timeline,
         stored' = Len(timeline), token' = Len(timeline), late' = late,
         abandoned' = abandoned, resets' = resets, handled' = handled,
         handling \subseteq handling',
         m \in handling' => m \in handling \/ (conn = "on" /\ m \in EmittedTo(token, subscribed)),
         Fresh(From[m])' => Fresh(From[m]),
         initialEvent' \in {initialEvent, Newest(token)}
  PROVE  Paid(m)'
<1>. DEFINE new == NewSince(token)
<1>1. TypeOK /\ TypeOK' /\ SentOnce /\ token \in Tokens /\ From[m] \in Peers
  BY P2PClientAssumption DEF PageInv, TypeOK
<1>2. Unread(m)' => Unread(m)
  BY <1>1, SyncedIsRead
<1>3. handled[m] \in Nat /\ resets \in Nat
  BY <1>1 DEF TypeOK
<1>4. ASSUME NEW i \in 1..Len(new), new[i] = m
      PROVE  Paid(m)'
  <2>1. ~Read(token, m) /\ Read(Len(timeline), m) /\ \E j \in 1..Len(timeline) : timeline[j] = m
    BY <1>1, <1>4, SyncedWasSent
  <2>2. Read(Len(timeline), m)'
    BY <2>1 DEF Read
  <2>3. ~New(m)'
    BY <2>1, <2>2 DEF New
  <2>4. Fresh(From[m]) => Unread(m)
    BY <2>1, FreshIsNotElsewhere DEF Unread
  <2>5. CASE m \in handling' /\ m \notin handling
    <3>1. From[m] \in subscribed /\ conn = "on"
      BY <2>5 DEF EmittedTo
    <3>2. ~Fresh(From[m]) /\ ~Elsewhere(m)
      BY <1>1, <3>1 DEF Fresh, WaitingIsNoted, DroppedKeepTheirs, Elsewhere, PageInv, TypeOK
    <3>3. ~Elsewhere(m)'
      BY <3>2 DEF Elsewhere
    <3>4. Unread(m) /\ ~Unread(m)'
      BY <2>1, <2>2, <3>1, <3>2, <3>3 DEF Unread, Elsewhere
    <3>5. ~MayBeInitial(m) /\ ~MayBeInitial(m)'
      BY <3>2 DEF MayBeInitial
    <3>6. Left(m)' + 1 <= Left(m)
      BY <3>4, <3>5 DEF Left, Bit
    <3>7. Spent(m)' <= Spent(m) + 1
      BY <1>3 DEF Spent, Bit
    <3>. QED
      BY <1>1, <3>6, <3>7, PaysOne
  <2>6. CASE m \in handling' => m \in handling
    <3>1. Spent(m)' <= Spent(m)
      BY <1>3, <2>6 DEF Spent, Bit
    <3>2. MayBeInitial(m)' => Unread(m)
      BY <2>4 DEF MayBeInitial
    <3>. QED
      BY <1>1, <1>2, <1>3, <2>3, <3>1, <3>2, StaysPaid
  <2>. QED
    BY <2>5, <2>6
<1>5. ASSUME \A i \in 1..Len(new) : new[i] # m
      PROVE  Paid(m)'
  <2>1. m \in handling' <=> m \in handling
    BY <1>5 DEF EmittedTo
  <2>2. initialEvent' = m => initialEvent = m
    BY <1>1, <1>5, NewestIsMessage
  <2>3. MayBeInitial(m)' => MayBeInitial(m)
    BY <2>2 DEF MayBeInitial
  <2>4. New(m)' => New(m)
    <3>1. ASSUME NEW i \in 1..Len(timeline), timeline[i] = m
          PROVE  Read(Len(timeline), m)'
      <4>1. Read(Len(timeline), m)
        BY <1>1, <3>1, AllIsRead
      <4>. QED
        BY <4>1 DEF Read
    <3>. QED
      BY <3>1 DEF New
  <2>5. Spent(m)' <= Spent(m) /\ resets <= resets'
    BY <1>3, <2>1 DEF Spent, Bit
  <2>. QED
    BY <1>1, <1>2, <2>3, <2>4, <2>5, StaysPaid
<1>. QED
  BY <1>4, <1>5

\* A dropped client that polls calls the callbacks it has kept.
LEMMA AbandonedSyncPays ==
  ASSUME PageInv, PageInv', NEW m \in Messages, Paid(m),
         NEW c \in abandoned, AbandonedSync(c)
  PROVE  Paid(m)'
<1>1. TypeOK /\ TypeOK' /\ SentOnce /\ c.token \in Tokens /\ c \in Client
  BY DEF PageInv, TypeOK, Client
<1>2. /\ timeline' = timeline /\ conn' = conn /\ token' = token /\ late' = late
      /\ activeListeners' = activeListeners /\ listening' = listening
      /\ handled' = handled /\ resets' = resets /\ stored' = Len(timeline)
  BY DEF AbandonedSync, startVars
<1>3. handled[m] \in Nat /\ resets \in Nat
  BY <1>1 DEF TypeOK
<1>4. PICK d : d = [c EXCEPT !.token = Len(timeline)]
  OBVIOUS
<1>5. d.token = Len(timeline) /\ d.subs = c.subs /\ abandoned' = (abandoned \ {c}) \cup {d}
  BY <1>1, <1>4 DEF AbandonedSync, Client
<1>6. Elsewhere(m)' <=> Elsewhere(m)
  BY <1>5 DEF Elsewhere
<1>7. Unread(m)' => Unread(m)
  BY <1>1, <1>2, <1>5, <1>6, SyncedIsRead
<1>8. MayBeInitial(m)' => MayBeInitial(m)
  BY <1>2 DEF MayBeInitial, Fresh
<1>9. New(m)' => New(m)
  BY <1>2 DEF New, Read
<1>10. CASE m \in handling' /\ m \notin handling
  <2>1. PICK i \in 1..Len(NewSince(c.token)) : NewSince(c.token)[i] = m /\ From[m] \in c.subs
    BY <1>10 DEF AbandonedSync, EmittedTo
  <2>2. ~Read(c.token, m) /\ Read(Len(timeline), m)
    BY <1>1, <2>1, SyncedWasSent
  <2>3. Unread(m)
    BY <2>1, <2>2 DEF Unread
  <2>4. ~Unread(m)'
    <3>1. Read(stored, m)' /\ Elsewhere(m)'
      BY <1>2, <1>6, <2>1, <2>2 DEF Read, Elsewhere
    <3>2. \A e \in abandoned' : From[m] \in e.subs => e = d
      BY <1>5, <2>1, P2PClientAssumption DEF PageInv, DroppedKeepTheirs
    <3>3. Read(d.token, m)'
      BY <1>2, <1>5, <2>2 DEF Read
    <3>4. \A e \in abandoned' : From[m] \in e.subs => Read(e.token, m)'
      BY <3>2, <3>3 DEF Read
    <3>. QED
      BY <3>1, <3>4 DEF Unread
  <2>5. ~MayBeInitial(m) /\ ~MayBeInitial(m)'
    BY <1>8, <2>1, FreshIsNotElsewhere DEF MayBeInitial, Elsewhere
  <2>6. Left(m)' + 1 <= Left(m)
    BY <2>3, <2>4, <2>5 DEF Left, Bit
  <2>7. Spent(m)' <= Spent(m) + 1
    BY <1>2, <1>3 DEF Spent, Bit
  <2>. QED
    BY <1>1, <1>2, <2>6, <2>7, PaysOne
<1>11. CASE m \in handling' => m \in handling
  <2>1. Spent(m)' <= Spent(m) /\ resets <= resets'
    BY <1>2, <1>3, <1>11 DEF Spent, Bit
  <2>. QED
    BY <1>1, <1>7, <1>8, <1>9, <2>1, StaysPaid
<1>. QED
  BY <1>10, <1>11

\* A start() that comes late hands nothing to a callback: its client hears all there is
\* before it has any.
LEMMA LateStartsPays ==
  ASSUME PageInv, PageInv', NEW m \in Messages, Paid(m), NEW s \in late, LateStarts(s)
  PROVE  Paid(m)'
<1>1. TypeOK /\ TypeOK' /\ SentOnce /\ From[m] \in Peers
  BY P2PClientAssumption DEF PageInv, TypeOK
<1>2. /\ timeline' = timeline /\ handling' = handling
      /\ handled' = handled /\ resets' = resets /\ stored' = Len(timeline)
  BY DEF LateStarts
<1>3. handled[m] \in Nat /\ resets \in Nat /\ Len(timeline) \in Nat /\ Len(timeline) # None
  BY <1>1, P2PClientAssumption DEF TypeOK
<1>4. /\ abandoned \subseteq abandoned'
      /\ \A c \in abandoned' : c \in abandoned \/ c.subs = {}
      /\ (token' = Len(timeline) /\ conn' = "on") \/ (token' = token /\ conn' = conn)
  BY <1>1 DEF LateStarts, Dropped
<1>5. Elsewhere(m)' <=> Elsewhere(m)
  BY <1>4 DEF Elsewhere
<1>6. Unread(m)' => Unread(m)
  BY <1>1, <1>2, <1>4, <1>5, SyncedIsRead
<1>7. MayBeInitial(m)' => MayBeInitial(m)
  <2>1. Fresh(From[m])' => Fresh(From[m])
    BY <1>1 DEF LateStarts, Register, Fresh
  <2>. QED
    BY <2>1 DEF MayBeInitial
<1>8. New(m)' => New(m)
  <2>1. ASSUME NEW i \in 1..Len(timeline), timeline[i] = m, token' = Len(timeline)
        PROVE  Read(token, m)'
    <3>1. Read(Len(timeline), m)
      BY <1>1, <2>1, AllIsRead
    <3>. QED
      BY <1>2, <2>1, <3>1 DEF Read
  <2>2. token' = token => (Read(token, m)' <=> Read(token, m))
    BY <1>2 DEF Read
  <2>. QED
    BY <1>2, <1>4, <2>1, <2>2 DEF New
<1>9. Spent(m)' <= Spent(m) /\ resets <= resets'
  BY <1>2, <1>3 DEF Spent, Bit
<1>. QED
  BY <1>1, <1>6, <1>7, <1>8, <1>9, StaysPaid

\* The initial event is handed to the callback that is subscribed.
LEMMA SubscribePays ==
  ASSUME PageInv, PageInv', NEW m \in Messages, Paid(m), NEW p \in Peers, Subscribe(p)
  PROVE  Paid(m)'
<1>1. TypeOK /\ TypeOK' /\ From[m] \in Peers
  BY P2PClientAssumption DEF PageInv, TypeOK
<1>2. /\ resets' = resets /\ handled' = handled /\ conn = "on" /\ conn' = "on"
      /\ timeline' = timeline /\ stored' = stored /\ token' = token /\ late' = late
      /\ abandoned' = abandoned /\ initialEvent' = initialEvent
      /\ activeListeners' = activeListeners /\ listening' = [listening EXCEPT ![p] = "finishing"]
  BY DEF Subscribe, startVars
<1>3. handled[m] \in Nat /\ resets \in Nat
  BY <1>1 DEF TypeOK
<1>4. Unread(m)' <=> Unread(m)
  BY <1>2 DEF Unread, Read, Elsewhere
<1>5. MayBeInitial(m)' => MayBeInitial(m)
  BY <1>1, <1>2 DEF MayBeInitial, Fresh, TypeOK
<1>6. New(m)' <=> New(m)
  BY <1>2 DEF New, Read
<1>7. CASE m \in handling' => m \in handling
  <2>1. Spent(m)' <= Spent(m) /\ resets <= resets'
    BY <1>2, <1>3, <1>7 DEF Spent, Bit
  <2>. QED
    BY <1>1, <1>4, <1>5, <1>6, <2>1, StaysPaid
<1>8. CASE m \in handling' /\ m \notin handling
  <2>1. initialEvent = m /\ From[m] = p /\ listening[p] = "waiting"
    BY <1>8 DEF Subscribe
  <2>2. p \in activeListeners' /\ listening'[p] = "finishing"
    BY <1>1, <1>2, <2>1 DEF WaitingIsNoted, PageInv, TypeOK
  <2>3. MayBeInitial(m) /\ ~MayBeInitial(m)' /\ Fresh(From[m])
    BY <2>1, <2>2 DEF MayBeInitial, Fresh
  <2>4. Read(stored, m) /\ ~Elsewhere(m)
    BY <2>1, <2>3, FreshIsNotElsewhere, P2PClientAssumption DEF PageInv, InitialIsStored
  <2>5. Unread(m) => New(m)
    BY <1>2, <2>4 DEF Unread, New, Elsewhere
  <2>6. Left(m)' + 1 <= Left(m)
    BY <1>4, <2>3, <2>5 DEF Left, Bit
  <2>7. Spent(m)' <= Spent(m) + 1
    BY <1>2, <1>3 DEF Spent, Bit
  <2>. QED
    BY <1>1, <1>2, <2>6, <2>7, PaysOne
<1>. QED
  BY <1>7, <1>8

\* A message is sent.
LEMMA SendPays ==
  ASSUME PageInv, PageInv', NEW m \in Messages, Paid(m), NEW x \in Messages, Send(x)
  PROVE  Paid(m)'
<1>1. TypeOK /\ TypeOK' /\ handled[m] \in Nat /\ resets \in Nat
  BY DEF PageInv, TypeOK
<1>2. /\ UNCHANGED <<stored, conn, token, late, abandoned, activeListeners, listening,
                     initialEvent, handling, handled, resets>>
      /\ timeline' = Append(timeline, x)
  BY DEF Send, pageVars, startVars
<1>3. /\ Len(timeline) \in Nat /\ Len(timeline') = Len(timeline) + 1
      /\ \A i \in 1..Len(timeline) : timeline'[i] = timeline[i]
  BY <1>1, <1>2 DEF TypeOK
<1>4. ASSUME NEW t \in Tokens, Read(t, m)
      PROVE  Read(t, m)'
  <2>1. t \in 0..Len(timeline) /\ t # None
    BY <1>4 DEF Read, Tokens
  <2>2. PICK i \in 1..t : timeline[i] = m
    BY <1>4 DEF Read
  <2>3. i \in 1..Len(timeline)
    BY <1>3, <2>1
  <2>. QED
    BY <1>3, <2>1, <2>2, <2>3 DEF Read
<1>5. /\ Read(stored, m) => Read(stored, m)'
      /\ Read(token, m) => Read(token, m)'
      /\ \A c \in abandoned : Read(c.token, m) => Read(c.token, m)'
  <2>1. stored \in Tokens /\ token \in Tokens /\ \A c \in abandoned : c.token \in Tokens
    BY <1>1 DEF TypeOK, Client
  <2>. QED
    BY <1>2, <1>4, <2>1 DEF Read
<1>6. Elsewhere(m)' <=> Elsewhere(m)
  BY <1>2 DEF Elsewhere
<1>7. Unread(m)' => Unread(m)
  BY <1>2, <1>5, <1>6 DEF Unread
<1>8. MayBeInitial(m)' => MayBeInitial(m)
  BY <1>2 DEF MayBeInitial, Fresh
<1>9. New(m)' => New(m)
  BY <1>2, <1>3, <1>5 DEF New
<1>10. Spent(m)' <= Spent(m) /\ resets <= resets'
  BY <1>1, <1>2 DEF Spent, Bit
<1>. QED
  BY <1>1, <1>7, <1>8, <1>9, <1>10, StaysPaid

LEMMA NextResetsPay ==
  ASSUME PageInv, PageInv', ResetsPay, [Next]_vars
  PROVE  ResetsPay'
<1>. SUFFICES ASSUME NEW m \in Messages PROVE Paid(m)'
  BY DEF ResetsPay
<1>0. /\ TypeOK /\ TypeOK' /\ Paid(m) /\ From[m] \in Peers
      /\ handled[m] \in Nat /\ resets \in Nat
  BY P2PClientAssumption DEF PageInv, ResetsPay, TypeOK
<1>. USE DEF relayVars, startVars, pageVars
<1>1. CASE UNCHANGED vars
  <2>1. Left(m)' = Left(m) /\ Spent(m)' = Spent(m) /\ resets' = resets
    BY <1>1 DEF vars, Left, Spent, Unread, Elsewhere, New, Read, MayBeInitial, Fresh
  <2>. QED
    BY <1>0, <2>1 DEF Paid
<1>2. ASSUME NEW x \in Messages, Send(x)
      PROVE  Paid(m)'
  BY <1>0, <1>2, SendPays
<1>3. ASSUME NEW x \in Messages, Handle(x)
      PROVE  Paid(m)'
  <2>1. handled' = [handled EXCEPT ![x] = handled[x] + 1] /\ handled \in [Messages -> Nat]
    BY <1>0, <1>3 DEF Handle, TypeOK
  <2>2. Spent(m)' = Spent(m)
    <3>1. CASE x = m
      <4>1. handled'[m] = handled[m] + 1 /\ m \in handling /\ m \notin handling'
        BY <1>3, <2>1, <3>1 DEF Handle
      <4>. QED
        BY <1>0, <4>1 DEF Spent, Bit
    <3>2. CASE x # m
      <4>1. handled'[m] = handled[m] /\ (m \in handling <=> m \in handling')
        BY <1>3, <2>1, <3>2 DEF Handle
      <4>. QED
        BY <4>1 DEF Spent, Bit
    <3>. QED
      BY <3>1, <3>2
  <2>3. Left(m)' = Left(m) /\ resets' = resets
    BY <1>3 DEF Handle, Left, Unread, Elsewhere, New, Read, MayBeInitial, Fresh
  <2>. QED
    BY <1>0, <2>2, <2>3 DEF Paid
<1>4. ASSUME NEW p \in Peers, AddPeer(p)
      PROVE  Paid(m)'
  <2>1. Spent(m)' <= Spent(m) /\ resets <= resets'
    BY <1>0, <1>4 DEF AddPeer, Spent, Bit
  <2>2. Fresh(From[m])' => Fresh(From[m])
    BY <1>0, <1>4 DEF AddPeer, Register, Fresh
  <2>3. MayBeInitial(m)' => MayBeInitial(m)
    BY <1>4, <2>2 DEF AddPeer, MayBeInitial
  <2>4. (Unread(m)' => Unread(m)) /\ (New(m)' => New(m))
    BY <1>4 DEF AddPeer, Unread, Elsewhere, New, Read
  <2>. QED
    BY <1>0, <2>1, <2>3, <2>4, StaysPaid
<1>5. ASSUME NEW p \in Peers, Subscribe(p)
      PROVE  Paid(m)'
  BY <1>0, <1>5, SubscribePays
<1>6. ASSUME NEW p \in Peers, FinishListening(p)
      PROVE  Paid(m)'
  <2>1. Spent(m)' <= Spent(m) /\ resets <= resets'
    BY <1>0, <1>6 DEF FinishListening, Spent, Bit
  <2>2. Fresh(From[m])' => Fresh(From[m])
    BY <1>0, <1>6 DEF FinishListening, Fresh, TypeOK
  <2>3. MayBeInitial(m)' => MayBeInitial(m)
    BY <1>6, <2>2, P2PClientAssumption DEF FinishListening, MayBeInitial
  <2>4. (Unread(m)' => Unread(m)) /\ (New(m)' => New(m))
    BY <1>6 DEF FinishListening, Unread, Elsewhere, New, Read
  <2>. QED
    BY <1>0, <2>1, <2>3, <2>4, StaysPaid
<1>7. ASSUME NEW polls \in BOOLEAN, StartFails(polls)
      PROVE  Paid(m)'
  BY <1>0, <1>7, ResetPays DEF StartFails, Reset, ResetAndStart, Forget
<1>8. ASSUME NEW s \in late, LateStarts(s)
      PROVE  Paid(m)'
  BY <1>0, <1>8, LateStartsPays
<1>9. ASSUME NEW s \in late, NEW polls \in BOOLEAN, LateFails(s, polls)
      PROVE  Paid(m)'
  BY <1>0, <1>9, ResetPays DEF LateFails, Reset, ResetAndStart, Forget
<1>10. ASSUME NEW c \in abandoned, AbandonedSync(c)
       PROVE  Paid(m)'
  BY <1>0, <1>10, AbandonedSyncPays
<1>11. CASE Connect \/ ConnectFails
  <2>1. Spent(m)' <= Spent(m) /\ resets <= resets'
    BY <1>0, <1>11 DEF Connect, ConnectFails, Spent, Bit
  <2>2. MayBeInitial(m)' => MayBeInitial(m)
    BY <1>11 DEF Connect, ConnectFails, MayBeInitial, Fresh
  <2>3. (Unread(m)' => Unread(m)) /\ (New(m)' => New(m))
    BY <1>11 DEF Connect, ConnectFails, Unread, Elsewhere, New, Read
  <2>. QED
    BY <1>0, <2>1, <2>2, <2>3, StaysPaid
<1>12. CASE FirstSync
  <2>1. Fresh(From[m])' => Fresh(From[m])
    BY <1>0, <1>12 DEF FirstSync, Register, Fresh
  <2>. QED
    BY <1>0, <1>12, <2>1, SyncPays DEF FirstSync
<1>13. CASE Sync
  <2>1. Fresh(From[m])' => Fresh(From[m])
    BY <1>13 DEF Sync, Fresh
  <2>. QED
    BY <1>0, <1>13, <2>1, SyncPays DEF Sync
<1>14. CASE Disconnect
  BY <1>0, <1>14, ResetPays DEF Disconnect, Reset, Forget
<1>15. CASE Reload
  <2>1. Spent(m)' <= Spent(m) /\ resets <= resets'
    BY <1>0, <1>15 DEF Reload, FreshPage, Spent, Bit
  <2>2. ~MayBeInitial(m)'
    BY <1>15, P2PClientAssumption DEF Reload, FreshPage, MayBeInitial
  <2>3. Unread(m)' => Unread(m)
    BY <1>15 DEF Reload, FreshPage, Unread, Read
  <2>. QED
    BY <1>0, <2>1, <2>2, <2>3, StaysPaid
<1>. QED
  BY <1>1, <1>2, <1>3, <1>4, <1>5, <1>6, <1>7, <1>8, <1>9, <1>10, <1>11, <1>12, <1>13,
     <1>14, <1>15
     DEF Next

LEMMA InitResetsPay == Init => ResetsPay
<1>. SUFFICES ASSUME Init, NEW m \in Messages PROVE Paid(m)
  BY DEF ResetsPay
<1>1. handled[m] = 0 /\ m \notin handling /\ resets = 0 /\ ~MayBeInitial(m)
  BY P2PClientAssumption DEF Init, MayBeInitial
<1>. QED
  BY <1>1 DEF Paid, Spent, Left, Bit

\* For any messages, peers and resets: however a page is reloaded, syncs and
\* callbacks overlap and dropped clients poll on, a message is given to the
\* transport at most once more than the client is reset (MatrixClientStore.update,
\* listenForEncryptedMessage, reset).
THEOREM ResetsAloneReplay == Spec => []HandledOncePerReset
<1>1. Init => IInv
  BY InitPageInv, InitResetsPay DEF IInv
<1>2. IInv /\ [Next]_vars => IInv'
  BY NextPageInv, NextResetsPay DEF IInv
<1>3. IInv => HandledOncePerReset
  <2>. SUFFICES ASSUME IInv, NEW m \in Messages PROVE handled[m] <= 1 + resets
    BY DEF HandledOncePerReset
  <2>1. Paid(m) /\ handled[m] \in Nat /\ resets \in Nat
    BY DEF IInv, ResetsPay, PageInv, TypeOK
  <2>2. Spent(m) >= handled[m] /\ Left(m) >= 0 /\ Spent(m) \in Nat /\ Left(m) \in Nat
    BY <2>1 DEF Spent, Left, Bit
  <2>. QED
    BY <2>1, <2>2 DEF Paid
<1>. QED
  BY <1>1, <1>2, <1>3, PTL DEF Spec

-----------------------------------------------------------------------------
(***************************************************************************)
(* The rooms of the relay (MatrixRooms)                                    *)
(*                                                                         *)
(* The inductive invariant: what is recorded, what a client knows of a     *)
(* room and what its tasks carry are rooms shared with the peer, at the    *)
(* server the client is logged in at now.                                  *)
(***************************************************************************)


\* Both this client and that address of its peer belong to the room or are invited.
Shared(c, server, room) ==
  /\ room \in 1..Len(rooms)
  /\ {Address(c), <<Peer(c), server>>} \subseteq rooms[room].joined \cup rooms[room].invited

AreShared(c, ids) == \A s \in Servers : ids[s] # Undefined => Shared(c, s, ids[s])

\* A room has whoever opened it and whoever wrote into it; a client does not invite
\* itself.
RoomFits(room) ==
  /\ room.creator \in room.joined
  /\ \A a \in room.invited : room.creator[1] # a[1]
  /\ \A i \in 1..Len(room.log) : /\ room.log[i].from \in room.joined
                                 /\ room.log[i].body \in said \cup {Open}

RelayInv ==
  /\ rooms \in Seq(RelayRoom) /\ Len(rooms) <= MaxRooms
  /\ said \subseteq Texts
  /\ \A r \in 1..Len(rooms) : RoomFits(rooms[r])

\* What a client knows of a room is so.
KnownFits(c, r) ==
  /\ known[c][r].status = "JOINED" => r <= Len(rooms) /\ Address(c) \in rooms[r].joined
  /\ known[c][r].members # {} =>
       r <= Len(rooms) /\ known[c][r].members \subseteq rooms[r].joined

KnownInv ==
  /\ known \in [Clients -> [Rooms -> KnownRoom]]
  /\ \A c \in Clients, r \in Rooms : KnownFits(c, r)

RecordInv ==
  /\ roomIds \in [Clients -> [Servers -> Rooms \cup {Undefined}]]
  /\ ignored \in [Clients -> SUBSET (0..MaxRooms)]
  /\ \A c \in Clients : AreShared(c, roomIds[c])

TaskFits(c, t) ==
  /\ t.do \in {"join", "rejoin", "wait", "put", "handle"} => Shared(c, t.server, t.room)
  /\ t.do \notin {"join", "rejoin"} => t.body \in said \cup {Open}
  /\ AreShared(c, t.ids)

TaskInv ==
  /\ tasks \in [Clients -> SUBSET Task]
  /\ \A c \in Clients : \A t \in tasks[c] : TaskFits(c, t)

HomeInv ==
  /\ home \in [Clients -> Servers]
  /\ peerServer \in [Clients -> Servers \cup {Undefined}]
  /\ ready \in [Clients -> BOOLEAN]

CountInv ==
  /\ scans \in 0..MaxScans
  /\ heard \subseteq said
  /\ loads \in 0..MaxLoads
  /\ excused \subseteq Bodies

RoomsInv == RelayInv /\ KnownInv /\ RecordInv /\ TaskInv /\ HomeInv /\ CountInv

LEMMA RoomsInvImplies == RoomsInv => RoomsTypeOK /\ RecordedRoomsAreShared
<1>1. RoomsInv => RoomsTypeOK
  BY DEF RoomsInv, RelayInv, KnownInv, RecordInv, TaskInv, HomeInv, CountInv, RoomsTypeOK
<1>2. RoomsInv => RecordedRoomsAreShared
  BY DEF RoomsInv, RecordInv, AreShared, Shared, RecordedRoomsAreShared
<1>. QED
  BY <1>1, <1>2

LEMMA NoRoomsShared == \A c : AreShared(c, NoRooms)
BY DEF AreShared, NoRooms

LEMMA InitRoomsInv == RoomsInit => RoomsInv
<1>. SUFFICES ASSUME RoomsInit PROVE RoomsInv
  OBVIOUS
<1>. USE DEF RoomsInit
<1>1. RelayInv
  BY MatrixRoomsAssumption, EmptySeq DEF RelayInv
<1>2. KnownInv
  BY DEF KnownInv, KnownFits, KnownRoom, Unknown
<1>3. RecordInv
  BY NoRoomsShared DEF RecordInv, NoRooms
<1>4. TaskInv /\ HomeInv /\ CountInv
  BY MatrixRoomsAssumption DEF TaskInv, HomeInv, CountInv
<1>. QED
  BY <1>1, <1>2, <1>3, <1>4 DEF RoomsInv

LEMMA ClientFacts ==
    \A c \in Clients : Peer(c) \in Clients /\ Peer(c) # c
BY MatrixRoomsAssumption DEF Clients, Peer

-----------------------------------------------------------------------------
\* Nobody leaves a room.
RelayGrows ==
  /\ Len(rooms) <= Len(rooms)'
  /\ \A r \in 1..Len(rooms) :
       /\ rooms[r].joined \subseteq rooms'[r].joined
       /\ rooms[r].joined \cup rooms[r].invited \subseteq rooms'[r].joined \cup rooms'[r].invited

\* The relay between two states, and what is said.
RelayStep == RelayInv' /\ RelayGrows /\ said \subseteq said'

LEMMA RelayStays ==
    ASSUME RelayInv, UNCHANGED rooms, said \subseteq said', said' \subseteq Texts
    PROVE  RelayStep
BY DEF RelayInv, RelayStep, RelayGrows, RoomFits

LEMMA EnterStep ==
    ASSUME RelayInv, HomeInv, NEW c \in Clients, NEW r \in 1..Len(rooms), Enter(c, r), UNCHANGED said
    PROVE  RelayStep
<1>. USE DEF RelayInv
<1>1. Address(c) \in Addresses
  BY DEF HomeInv, Address, Addresses
<1>2. PICK room : room = [rooms[r] EXCEPT !.joined = @ \cup {Address(c)},
                                          !.invited = @ \ {Address(c)}]
  OBVIOUS
<1>3. rooms[r] \in RelayRoom /\ RoomFits(rooms[r])
  OBVIOUS
<1>4. /\ room \in RelayRoom /\ room.creator = rooms[r].creator /\ room.log = rooms[r].log
      /\ room.joined = rooms[r].joined \cup {Address(c)}
      /\ room.invited = rooms[r].invited \ {Address(c)}
  BY <1>1, <1>2, <1>3 DEF RelayRoom
<1>5. rooms' = [rooms EXCEPT ![r] = room]
  BY <1>2 DEF Enter
<1>6. /\ rooms' \in Seq(RelayRoom) /\ Len(rooms)' = Len(rooms)
      /\ \A q \in 1..Len(rooms) : rooms'[q] = IF q = r THEN room ELSE rooms[q]
  BY <1>4, <1>5
<1>7. RoomFits(room)'
  BY <1>3, <1>4 DEF RoomFits
<1>8. \A q \in 1..Len(rooms)' : RoomFits(rooms[q])'
  BY <1>6, <1>7 DEF RoomFits
<1>9. RelayGrows
  BY <1>4, <1>6 DEF RelayGrows
<1>. QED
  BY <1>6, <1>8, <1>9 DEF RelayStep

LEMMA CreateRoomStep ==
    ASSUME RelayInv, HomeInv, NEW c \in Clients, NEW s \in Servers, Len(rooms) < MaxRooms,
           CreateTrustedPrivateRoom(c, s), UNCHANGED <<said, home>>,
           NEW r, r = Len(rooms) + 1
    PROVE  RelayStep /\ r \in Rooms /\ Shared(c, s, r)'
<1>. USE DEF RelayInv
<1>1. Address(c) \in Addresses /\ <<Peer(c), s>> \in Addresses /\ Peer(c) # c
  BY ClientFacts DEF HomeInv, Address, Addresses
<1>2. PICK room : room = [creator |-> Address(c), joined |-> {Address(c)},
                          invited |-> {<<Peer(c), s>>}, log |-> <<>>]
  OBVIOUS
<1>3. /\ room \in RelayRoom /\ room.creator = Address(c) /\ room.joined = {Address(c)}
      /\ room.invited = {<<Peer(c), s>>} /\ room.log = <<>>
  BY <1>1, <1>2, EmptySeq DEF RelayRoom
<1>4. rooms' = Append(rooms, room)
  BY <1>2 DEF CreateTrustedPrivateRoom
<1>5. /\ rooms' \in Seq(RelayRoom) /\ Len(rooms)' = Len(rooms) + 1
      /\ rooms'[Len(rooms) + 1] = room
      /\ \A q \in 1..Len(rooms) : rooms'[q] = rooms[q]
  BY <1>3, <1>4, AppendProperties
<1>6. RoomFits(room)'
  BY <1>1, <1>3 DEF RoomFits, Address
<1>7. \A q \in 1..Len(rooms)' : RoomFits(rooms[q])'
  <2>. SUFFICES ASSUME NEW q \in 1..Len(rooms)' PROVE RoomFits(rooms[q])'
    OBVIOUS
  <2>1. CASE q \in 1..Len(rooms)
    BY <1>5, <2>1 DEF RoomFits
  <2>2. CASE q = Len(rooms) + 1
    BY <1>5, <1>6, <2>2 DEF RoomFits
  <2>3. q \in 1..Len(rooms) \/ q = Len(rooms) + 1
    BY <1>5, LenProperties
  <2>. QED
    BY <2>1, <2>2, <2>3
<1>8. RelayGrows
  BY <1>5, LenProperties DEF RelayGrows
<1>9. Shared(c, s, r)'
  <2>1. Address(c)' = Address(c)
    BY DEF Address
  <2>2. r \in 1..Len(rooms)' /\ rooms'[r] = room
    BY <1>5, LenProperties
  <2>. QED
    BY <1>3, <1>5, <2>1, <2>2 DEF Shared, Peer
<1>10. Len(rooms)' <= MaxRooms /\ r \in Rooms
  BY <1>5, LenProperties, MatrixRoomsAssumption DEF Rooms
<1>. QED
  BY <1>5, <1>7, <1>8, <1>9, <1>10 DEF RelayStep

LEMMA SendEventStep ==
    ASSUME RelayInv, NEW c \in Clients, NEW r \in Rooms, Inside(c, r), NEW body \in said \cup {Open},
           SendEvent(c, r, body), UNCHANGED said
    PROVE  RelayStep
<1>. USE DEF RelayInv
<1>1. r \in 1..Len(rooms) /\ Address(c) \in rooms[r].joined
  BY LenProperties DEF Inside, Rooms
<1>2. rooms[r] \in RelayRoom /\ RoomFits(rooms[r])
  BY <1>1
<1>3. PICK event : event = [from |-> Address(c), body |-> body]
  OBVIOUS
<1>4. PICK log : log = Append(rooms[r].log, event)
  OBVIOUS
<1>5. event \in [from : Addresses, body : Bodies] /\ event.from = Address(c) /\ event.body = body
  BY <1>1, <1>2, <1>3 DEF RelayRoom, Bodies
<1>6. /\ log \in Seq([from : Addresses, body : Bodies])
      /\ \A i \in 1..Len(log) : \/ i \in 1..Len(rooms[r].log) /\ log[i] = rooms[r].log[i]
                                \/ log[i] = event
  <2>1. rooms[r].log \in Seq([from : Addresses, body : Bodies])
    BY <1>2 DEF RelayRoom
  <2>. QED
    BY <1>4, <1>5, <2>1, AppendProperties
<1>7. PICK room : room = [rooms[r] EXCEPT !.log = log]
  OBVIOUS
<1>8. /\ room \in RelayRoom /\ room.creator = rooms[r].creator /\ room.log = log
      /\ room.joined = rooms[r].joined /\ room.invited = rooms[r].invited
  BY <1>2, <1>6, <1>7 DEF RelayRoom
<1>9. rooms' = [rooms EXCEPT ![r] = room]
  BY <1>3, <1>4, <1>7 DEF SendEvent
<1>10. /\ rooms' \in Seq(RelayRoom) /\ Len(rooms)' = Len(rooms)
       /\ \A q \in 1..Len(rooms) : rooms'[q] = IF q = r THEN room ELSE rooms[q]
  BY <1>1, <1>8, <1>9
<1>11. RoomFits(room)'
  BY <1>1, <1>2, <1>5, <1>6, <1>8 DEF RoomFits
<1>12. \A q \in 1..Len(rooms)' : RoomFits(rooms[q])'
  BY <1>10, <1>11 DEF RoomFits
<1>13. RelayGrows
  BY <1>8, <1>10 DEF RelayGrows
<1>. QED
  BY <1>10, <1>12, <1>13 DEF RelayStep

-----------------------------------------------------------------------------
LEMMA SharedStays ==
    ASSUME RelayInv, RelayStep, NEW c, NEW s, NEW r, home'[c] = home[c], Shared(c, s, r)
    PROVE  Shared(c, s, r)'
<1>1. r \in 1..Len(rooms)'
  BY LenProperties DEF RelayInv, RelayStep, RelayGrows, Shared
<1>2. Address(c)' = Address(c) /\ Peer(c)' = Peer(c)
  BY DEF Address
<1>. QED
  BY <1>1, <1>2 DEF RelayStep, RelayGrows, Shared

LEMMA AreSharedStays ==
    ASSUME RelayInv, RelayStep, NEW c, NEW ids, home'[c] = home[c], AreShared(c, ids)
    PROVE  AreShared(c, ids)'
BY SharedStays DEF AreShared

LEMMA TaskFitsStays ==
    ASSUME RelayInv, RelayStep, NEW c, NEW t, home'[c] = home[c], TaskFits(c, t)
    PROVE  TaskFits(c, t)'
BY SharedStays, AreSharedStays DEF TaskFits, RelayStep

LEMMA KnownStays ==
    ASSUME RelayInv, RelayStep, KnownInv, UNCHANGED <<known, home>>
    PROVE  KnownInv'
<1>. SUFFICES ASSUME NEW c \in Clients, NEW r \in Rooms PROVE KnownFits(c, r)'
  BY DEF KnownInv
<1>1. KnownFits(c, r) /\ Address(c)' = Address(c) /\ r \in Nat \ {0}
  BY DEF KnownInv, Address, Rooms
<1>2. r <= Len(rooms) => r \in 1..Len(rooms) /\ r <= Len(rooms)'
  BY <1>1, LenProperties DEF RelayInv, RelayStep, RelayGrows
<1>. QED
  BY <1>1, <1>2 DEF KnownFits, RelayStep, RelayGrows

LEMMA FromSyncFits ==
    ASSUME RelayInv, NEW c \in Clients, NEW r \in SyncedRooms(c), NEW k, k = FromSync(c, r)
    PROVE  /\ k \in KnownRoom /\ r \in 1..Len(rooms)
           /\ k.status = "JOINED" => Address(c) \in rooms[r].joined
           /\ k.members \subseteq rooms[r].joined
<1>. USE DEF RelayInv
<1>1. r \in Rooms /\ r \in 1..Len(rooms)
  BY LenProperties DEF SyncedRooms, Inside, IsInvited, Rooms
<1>2. rooms[r] \in RelayRoom /\ RoomFits(rooms[r])
  BY <1>1
<1>3. /\ rooms[r].joined \subseteq Addresses /\ rooms[r].creator \in rooms[r].joined
      /\ Len(rooms[r].log) \in Nat
  BY <1>2, LenProperties DEF RelayRoom, RoomFits
<1>4. MembersFromEvents(c, r) \subseteq rooms[r].joined
  BY <1>3 DEF MembersFromEvents
<1>5. /\ k.status = (IF Inside(c, r) THEN "JOINED" ELSE "INVITED")
      /\ k.members = MembersFromEvents(c, r)
      /\ k.read = (IF Inside(c, r) THEN Len(rooms[r].log) ELSE 0)
      /\ k = [status |-> k.status, members |-> k.members, read |-> k.read]
  BY DEF FromSync
<1>6. k \in KnownRoom
  BY <1>3, <1>4, <1>5 DEF KnownRoom
<1>. QED
  BY <1>1, <1>4, <1>5, <1>6 DEF Inside

LEMMA MergeStep ==
    ASSUME RelayInv, KnownInv, NEW c \in Clients, UNCHANGED <<rooms, home>>,
           known' = [known EXCEPT ![c] = MergeRooms(c)]
    PROVE  KnownInv'
<1>. USE DEF KnownInv
<1>1. ASSUME NEW r \in Rooms
      PROVE  /\ MergeRooms(c)[r] \in KnownRoom
             /\ MergeRooms(c)[r].status = "JOINED" => r <= Len(rooms) /\ Address(c) \in rooms[r].joined
             /\ MergeRooms(c)[r].members # {} =>
                  r <= Len(rooms) /\ MergeRooms(c)[r].members \subseteq rooms[r].joined
  <2>1. known[c][r] \in KnownRoom /\ KnownFits(c, r)
    OBVIOUS
  <2>2. CASE r \notin SyncedRooms(c)
    BY <2>1, <2>2 DEF MergeRooms, KnownFits
  <2>3. CASE r \in SyncedRooms(c)
    <3>1. PICK k : k = FromSync(c, r)
      OBVIOUS
    <3>2. /\ k \in KnownRoom /\ r \in 1..Len(rooms)
          /\ k.status = "JOINED" => Address(c) \in rooms[r].joined
          /\ k.members \subseteq rooms[r].joined
      BY <2>3, <3>1, FromSyncFits
    <3>3. PICK old : old = known[c][r]
      OBVIOUS
    <3>4. MergeRooms(c)[r] = [k EXCEPT !.members = @ \cup old.members]
      BY <2>3, <3>1, <3>3 DEF MergeRooms, Merge
    <3>5. old \in KnownRoom /\ old.members \subseteq rooms[r].joined
      BY <2>1, <3>3 DEF KnownFits
    <3>6. PICK m : m = MergeRooms(c)[r]
      OBVIOUS
    <3>7. m \in KnownRoom /\ m.status = k.status /\ m.members = k.members \cup old.members
      BY <3>2, <3>4, <3>5, <3>6 DEF KnownRoom
    <3>8. r <= Len(rooms)
      BY <3>2, LenProperties DEF RelayInv
    <3>. QED
      BY <3>2, <3>5, <3>6, <3>7, <3>8
  <2>. QED
    BY <2>2, <2>3
<1>2. MergeRooms(c) \in [Rooms -> KnownRoom]
  <2>1. MergeRooms(c) = [r \in Rooms |-> MergeRooms(c)[r]]
    BY DEF MergeRooms
  <2>. QED
    BY <1>1, <2>1
<1>3. known' \in [Clients -> [Rooms -> KnownRoom]]
  BY <1>2
<1>4. ASSUME NEW k \in Clients, NEW r \in Rooms PROVE KnownFits(k, r)'
  <2>1. Address(k)' = Address(k) /\ known'[k] = IF k = c THEN MergeRooms(c) ELSE known[k]
    BY DEF Address
  <2>2. KnownFits(k, r)
    OBVIOUS
  <2>. QED
    BY <1>1, <2>1, <2>2 DEF KnownFits
<1>. QED
  BY <1>3, <1>4

-----------------------------------------------------------------------------
LEMMA RecordsStay ==
    ASSUME RelayInv, RelayStep, RecordInv, UNCHANGED <<roomIds, ignored, home>>
    PROVE  RecordInv'
<1>1. \A c \in Clients : AreShared(c, roomIds[c]) => AreShared(c, roomIds[c])'
  <2>. SUFFICES ASSUME NEW c \in Clients, NEW ids, ids = roomIds[c], AreShared(c, ids)
                PROVE  AreShared(c, ids)'
    BY DEF AreShared, Shared
  <2>. QED
    BY AreSharedStays
<1>. QED
  BY <1>1 DEF RecordInv

LEMMA RecordStep ==
    ASSUME RelayInv, RelayStep, RecordInv, UNCHANGED home, NEW c \in Clients,
           NEW ids \in [Servers -> Rooms \cup {Undefined}], AreShared(c, ids)',
           roomIds' = [roomIds EXCEPT ![c] = ids], ignored' \in [Clients -> SUBSET (0..MaxRooms)]
    PROVE  RecordInv'
<1>. USE DEF RecordInv
<1>1. roomIds' \in [Clients -> [Servers -> Rooms \cup {Undefined}]]
  OBVIOUS
<1>2. ASSUME NEW k \in Clients PROVE AreShared(k, roomIds[k])'
  <2>1. PICK old : old = roomIds[k]
    OBVIOUS
  <2>2. AreShared(k, old)'
    BY <2>1, AreSharedStays
  <2>3. roomIds'[k] = IF k = c THEN ids ELSE old
    BY <2>1
  <2>. QED
    BY <2>2, <2>3 DEF AreShared
<1>. QED
  BY <1>1, <1>2

LEMMA UpdatePeerRoomStep ==
    ASSUME RelayInv, RelayStep, RecordInv, UNCHANGED home, NEW c \in Clients, NEW s \in Servers,
           NEW r \in Rooms, Shared(c, s, r)', UpdatePeerRoom(c, s, r)
    PROVE  RecordInv'
<1>1. PICK old : old = roomIds[c]
  OBVIOUS
<1>2. PICK ids : ids = [old EXCEPT ![s] = r]
  OBVIOUS
<1>3. old \in [Servers -> Rooms \cup {Undefined}] /\ AreShared(c, old)
  BY <1>1 DEF RecordInv
<1>4. AreShared(c, old)'
  BY <1>3, AreSharedStays
<1>5. ids \in [Servers -> Rooms \cup {Undefined}] /\ AreShared(c, ids)'
  BY <1>2, <1>3, <1>4 DEF AreShared
<1>6. roomIds' = [roomIds EXCEPT ![c] = ids]
  BY <1>1, <1>2 DEF UpdatePeerRoom, RecordInv
<1>7. ignored' \in [Clients -> SUBSET (0..MaxRooms)]
  <2>1. 0 \in 0..MaxRooms
    BY MatrixRoomsAssumption
  <2>. QED
    BY <2>1 DEF UpdatePeerRoom, RecordInv
<1>. QED
  BY <1>5, <1>6, <1>7, RecordStep

LEMMA DeleteRoomStep ==
    ASSUME RelayInv, RelayStep, RecordInv, UNCHANGED home, NEW c \in Clients, NEW r \in Rooms,
           DeleteRoom(c, r)
    PROVE  RecordInv'
<1>1. PICK old : old = roomIds[c]
  OBVIOUS
<1>2. PICK ids : ids = [s \in Servers |-> IF old[s] = r THEN Undefined ELSE old[s]]
  OBVIOUS
<1>3. old \in [Servers -> Rooms \cup {Undefined}] /\ AreShared(c, old)
  BY <1>1 DEF RecordInv
<1>4. AreShared(c, old)'
  BY <1>3, AreSharedStays
<1>5. ids \in [Servers -> Rooms \cup {Undefined}] /\ AreShared(c, ids)'
  BY <1>2, <1>3, <1>4 DEF AreShared
<1>6. roomIds' = [roomIds EXCEPT ![c] = ids]
  BY <1>1, <1>2 DEF DeleteRoom, RecordInv
<1>7. ignored' \in [Clients -> SUBSET (0..MaxRooms)]
  <2>1. r \in 0..MaxRooms
    BY MatrixRoomsAssumption DEF Rooms
  <2>. QED
    BY <2>1 DEF DeleteRoom, RecordInv
<1>. QED
  BY <1>5, <1>6, <1>7, RecordStep

-----------------------------------------------------------------------------
LEMMA TasksStay ==
    ASSUME RelayInv, RelayStep, TaskInv, UNCHANGED <<tasks, home>>
    PROVE  TaskInv'
BY TaskFitsStays DEF TaskInv

LEMMA TasksStep ==
    ASSUME RelayInv, RelayStep, TaskInv, UNCHANGED home, NEW c \in Clients, NEW N \in SUBSET Task,
           \A u \in N : u \in tasks[c] \/ TaskFits(c, u)',
           tasks' = [tasks EXCEPT ![c] = N]
    PROVE  TaskInv'
<1>. USE DEF TaskInv
<1>1. tasks' \in [Clients -> SUBSET Task]
  OBVIOUS
<1>2. ASSUME NEW k \in Clients, NEW u \in tasks'[k] PROVE TaskFits(k, u)'
  <2>1. u \in tasks[k] => TaskFits(k, u)'
    BY TaskFitsStays
  <2>2. u \in tasks[k] \/ (k = c /\ u \in N)
    OBVIOUS
  <2>. QED
    BY <2>1, <2>2
<1>. QED
  BY <1>1, <1>2

LEMMA DropStep ==
    ASSUME RelayInv, RelayStep, TaskInv, UNCHANGED home, NEW c \in Clients, NEW t, Drop(c, t)
    PROVE  TaskInv'
<1>1. tasks' = [tasks EXCEPT ![c] = tasks[c] \ {t}] /\ tasks[c] \ {t} \in SUBSET Task
  BY DEF Drop, TaskInv
<1>. QED
  BY <1>1, TasksStep

LEMMA BecomeStep ==
    ASSUME RelayInv, RelayStep, TaskInv, UNCHANGED home, NEW c \in Clients, NEW t,
           NEW u \in Task, TaskFits(c, u)', Become(c, t, u)
    PROVE  TaskInv'
<1>1. PICK N : N = (tasks[c] \ {t}) \cup {u}
  OBVIOUS
<1>2. tasks' = [tasks EXCEPT ![c] = N] /\ N \in SUBSET Task
  BY <1>1 DEF Become, TaskInv
<1>3. \A v \in N : v \in tasks[c] \/ TaskFits(c, v)'
  BY <1>1
<1>. QED
  BY <1>2, <1>3, TasksStep

\* The tasks that begin.
LEMMA AddTasksStep ==
    ASSUME RelayInv, RelayStep, TaskInv, UNCHANGED home, NEW c \in Clients, NEW N \in SUBSET Task,
           \A u \in N : TaskFits(c, u)', tasks' = [tasks EXCEPT ![c] = @ \cup N]
    PROVE  TaskInv'
<1>1. PICK M : M = tasks[c] \cup N
  OBVIOUS
<1>2. tasks' = [tasks EXCEPT ![c] = M] /\ M \in SUBSET Task
  BY <1>1 DEF TaskInv
<1>3. \A v \in M : v \in tasks[c] \/ TaskFits(c, v)'
  BY <1>1
<1>. QED
  BY <1>2, <1>3, TasksStep

LEMMA NewTaskFields ==
    ASSUME NEW do \in {"look", "create", "wait", "put", "join", "rejoin", "handle"},
           NEW body \in Bodies \cup {Undefined}, NEW server \in Servers,
           NEW room \in Rooms \cup {Undefined}, NEW t, t = NewTask(do, body, server, room)
    PROVE  /\ t \in Task /\ t.do = do /\ t.body = body /\ t.server = server
           /\ t.room = room /\ t.ids = NoRooms
<1>1. NoRooms \in [Servers -> Rooms \cup {Undefined}] /\ 0 \in 0..MaxRejoins
  BY MatrixRoomsAssumption DEF NoRooms
<1>. QED
  BY <1>1 DEF NewTask, Task

LEMMA EmitInviteFits ==
    ASSUME RoomsInv, NEW c \in Clients, NEW u \in EmitInvite(c)
    PROVE  u \in Task /\ TaskFits(c, u)
<1>. USE DEF RoomsInv, RelayInv
<1>1. PICK r \in Rooms : IsInvited(c, r) /\ u = NewTask("join", Undefined, rooms[r].creator[2], r)
  BY DEF EmitInvite, SyncedRooms
<1>2. r \in 1..Len(rooms) /\ Address(c) \in rooms[r].invited
  BY <1>1, LenProperties DEF IsInvited, Rooms
<1>3. rooms[r] \in RelayRoom /\ RoomFits(rooms[r])
  BY <1>2
<1>4. PICK creator : creator = rooms[r].creator
  OBVIOUS
<1>5. /\ creator \in rooms[r].joined /\ creator[1] # c
      /\ creator \in Clients \X Servers
  BY <1>2, <1>3, <1>4 DEF RelayRoom, RoomFits, Address, Addresses
<1>6. creator[2] \in Servers /\ creator = <<Peer(c), creator[2]>>
  BY <1>5, MatrixRoomsAssumption DEF Clients, Peer
<1>7. /\ u \in Task /\ u.do = "join" /\ u.server = creator[2] /\ u.room = r /\ u.ids = NoRooms
  <2>1. PICK server : server = creator[2]
    OBVIOUS
  <2>2. server \in Servers /\ u = NewTask("join", Undefined, server, r)
    BY <1>1, <1>4, <1>6, <2>1
  <2>3. Undefined \in Bodies \cup {Undefined} /\ r \in Rooms \cup {Undefined}
    OBVIOUS
  <2>4. "join" \in {"look", "create", "wait", "put", "join", "rejoin", "handle"}
    OBVIOUS
  <2>. HIDE DEF RoomsInv, RelayInv
  <2>. QED
    BY <2>1, <2>2, <2>3, <2>4, NewTaskFields
<1>8. Shared(c, creator[2], r)
  BY <1>2, <1>5, <1>6 DEF Shared
<1>. QED
  BY <1>7, <1>8, NoRoomsShared DEF TaskFits

LEMMA EmitMessageFits ==
    ASSUME RoomsInv, NEW c \in Clients, NEW u \in EmitMessage(c)
    PROVE  u \in Task /\ TaskFits(c, u)
<1>. USE DEF RoomsInv, RelayInv
<1>1. PICK r \in SyncedRooms(c) :
        /\ Inside(c, r)
        /\ \E message \in MessagesFromEvents(c, r) :
             /\ IsForCallback(c, message)
             /\ u = NewTask("handle", message.body, message.from[2], r)
  BY DEF EmitMessage
<1>2. PICK message \in MessagesFromEvents(c, r) :
        /\ IsForCallback(c, message)
        /\ u = NewTask("handle", message.body, message.from[2], r)
  BY <1>1
<1>3. r \in Rooms /\ r \in 1..Len(rooms) /\ Address(c) \in rooms[r].joined
  BY <1>1, LenProperties DEF SyncedRooms, Inside, Rooms
<1>4. rooms[r] \in RelayRoom /\ RoomFits(rooms[r])
  BY <1>3
<1>5. known[c][r].read \in Nat
  BY <1>3 DEF KnownInv, KnownRoom
<1>6. PICK i \in 1..Len(rooms[r].log) : message = rooms[r].log[i]
  <2>1. rooms[r].log \in Seq([from : Addresses, body : Bodies])
    BY <1>4 DEF RelayRoom
  <2>2. Len(rooms[r].log) \in Nat
    BY <2>1, LenProperties
  <2>. QED
    BY <1>5, <2>2 DEF MessagesFromEvents
<1>7. PICK from : from = message.from
  OBVIOUS
<1>8. /\ from \in rooms[r].joined /\ from \in Clients \X Servers
      /\ message.body \in said \cup {Open} /\ message.body \in Bodies
  BY <1>4, <1>6, <1>7 DEF RoomFits, RelayRoom, Addresses, Bodies
<1>9. from[2] \in Servers /\ from = <<Peer(c), from[2]>>
  BY <1>2, <1>7, <1>8 DEF IsForCallback
<1>10. /\ u \in Task /\ u.do = "handle" /\ u.body = message.body /\ u.server = from[2]
       /\ u.room = r /\ u.ids = NoRooms
  BY <1>2, <1>3, <1>7, <1>8, <1>9, NewTaskFields
<1>11. Shared(c, from[2], r)
  BY <1>3, <1>8, <1>9 DEF Shared
<1>. QED
  BY <1>8, <1>10, <1>11, NoRoomsShared DEF TaskFits

-----------------------------------------------------------------------------
LEMMA SyncStep ==
    ASSUME RoomsInv, NEW c \in Clients, NEW M \in SUBSET EmitMessage(c),
           known' = [known EXCEPT ![c] = MergeRooms(c)],
           tasks' = [tasks EXCEPT ![c] = @ \cup EmitInvite(c) \cup M],
           ready' \in [Clients -> BOOLEAN],
           UNCHANGED <<rooms, home, peerServer, roomIds, ignored, bounds, excused>>
    PROVE  RoomsInv'
<1>. USE DEF RoomsInv, bounds
<1>1. RelayStep
  BY RelayStays DEF RelayInv
<1>2. KnownInv' /\ RecordInv'
  BY <1>1, MergeStep, RecordsStay
<1>3. TaskInv'
  <2>1. PICK N : N = EmitInvite(c) \cup M
    OBVIOUS
  <2>2. N \in SUBSET Task /\ \A u \in N : TaskFits(c, u)
    BY <2>1, EmitInviteFits, EmitMessageFits
  <2>3. \A u \in N : TaskFits(c, u)'
    BY <1>1, <2>2, TaskFitsStays
  <2>4. tasks' = [tasks EXCEPT ![c] = @ \cup N]
    BY <2>1 DEF TaskInv
  <2>. QED
    BY <1>1, <2>2, <2>3, <2>4, AddTasksStep
<1>4. HomeInv' /\ CountInv'
  BY DEF HomeInv, CountInv
<1>. QED
  BY <1>1, <1>2, <1>3, <1>4 DEF RelayStep

LEMMA LoadKeeps ==
    ASSUME RoomsInv, NEW c \in Clients, Load(c), UNCHANGED <<rooms, scans, said, heard, peerServer>>,
           home' \in [Clients -> Servers]
    PROVE  RelayStep /\ HomeInv' /\ CountInv'
<1>. USE DEF RoomsInv
<1>1. RelayStep
  BY RelayStays DEF RelayInv
<1>2. HomeInv'
  BY DEF HomeInv, Load
<1>3. CountInv'
  <2>1. loads' \in 0..MaxLoads
    BY MatrixRoomsAssumption DEF CountInv, Load
  <2>2. excused' \subseteq Bodies
    BY DEF RelayInv, Load, Excuse, Bodies
  <2>. QED
    BY <2>1, <2>2 DEF CountInv
<1>. QED
  BY <1>1, <1>2, <1>3

LEMMA ReloadPageStep == ASSUME RoomsInv, NEW c \in Clients, ReloadPage(c) PROVE RoomsInv'
<1>. USE DEF RoomsInv, ReloadPage, storage
<1>1. RelayStep /\ HomeInv' /\ CountInv'
  BY LoadKeeps DEF HomeInv
<1>2. KnownInv'
  BY <1>1, KnownStays
<1>3. RecordInv'
  <2>1. PICK ids : ids = roomIds[c]
    OBVIOUS
  <2>2. ids \in [Servers -> Rooms \cup {Undefined}] /\ AreShared(c, ids)
    BY <2>1 DEF RecordInv
  <2>3. AreShared(c, ids)'
    BY <1>1, <2>2, AreSharedStays
  <2>4. roomIds' = [roomIds EXCEPT ![c] = ids] /\ ignored' \in [Clients -> SUBSET (0..MaxRooms)]
    BY <2>1 DEF RecordInv, Load
  <2>. QED
    BY <1>1, <2>2, <2>3, <2>4, RecordStep
<1>4. TaskInv'
  <2>1. tasks' = [tasks EXCEPT ![c] = {}] /\ {} \in SUBSET Task
    BY DEF Load
  <2>. QED
    BY <1>1, <2>1, TasksStep
<1>. QED
  BY <1>1, <1>2, <1>3, <1>4 DEF RelayStep

LEMMA MoveStep ==
    ASSUME RoomsInv, NEW c \in Clients, NEW s \in Servers, Move(c, s) PROVE RoomsInv'
<1>. USE DEF RoomsInv, Move
<1>1. RelayStep /\ HomeInv' /\ CountInv'
  BY LoadKeeps DEF HomeInv
<1>2. \A k \in Clients : k # c => home'[k] = home[k]
  BY DEF HomeInv
<1>3. KnownInv'
  <2>1. known' \in [Clients -> [Rooms -> KnownRoom]]
    BY DEF KnownInv, KnownRoom, Unknown
  <2>2. ASSUME NEW k \in Clients, NEW r \in Rooms PROVE KnownFits(k, r)'
    <3>1. CASE k = c
      BY <3>1 DEF KnownInv, KnownFits, Unknown
    <3>2. CASE k # c
      <4>1. known'[k][r] = known[k][r] /\ Address(k)' = Address(k) /\ KnownFits(k, r)
        BY <1>2, <3>2 DEF KnownInv, Address
      <4>. QED
        BY <4>1 DEF KnownFits
    <3>. QED
      BY <3>1, <3>2
  <2>. QED
    BY <2>1, <2>2 DEF KnownInv
<1>4. RecordInv'
  <2>1. roomIds' \in [Clients -> [Servers -> Rooms \cup {Undefined}]]
    BY DEF RecordInv, NoRooms
  <2>2. ignored' \in [Clients -> SUBSET (0..MaxRooms)]
    BY DEF RecordInv, Load
  <2>3. ASSUME NEW k \in Clients PROVE AreShared(k, roomIds[k])'
    <3>1. PICK old : old = roomIds[k]
      OBVIOUS
    <3>2. CASE k = c
      BY <3>2 DEF RecordInv, AreShared, NoRooms
    <3>3. CASE k # c
      <4>1. roomIds'[k] = old /\ AreShared(k, old)
        BY <3>1, <3>3 DEF RecordInv
      <4>2. AreShared(k, old)'
        BY <1>1, <1>2, <3>3, <4>1, AreSharedStays
      <4>. QED
        BY <4>1, <4>2 DEF AreShared
    <3>. QED
      BY <3>2, <3>3
  <2>. QED
    BY <2>1, <2>2, <2>3 DEF RecordInv
<1>5. TaskInv'
  <2>1. tasks' \in [Clients -> SUBSET Task]
    BY DEF TaskInv, Load
  <2>2. ASSUME NEW k \in Clients, NEW u \in tasks'[k] PROVE TaskFits(k, u)'
    <3>1. k # c /\ u \in tasks[k]
      BY <2>2 DEF TaskInv, Load
    <3>. QED
      BY <1>1, <1>2, <3>1, TaskFitsStays DEF TaskInv
  <2>. QED
    BY <2>1, <2>2 DEF TaskInv
<1>. QED
  BY <1>1, <1>3, <1>4, <1>5 DEF RelayStep

-----------------------------------------------------------------------------
LEMMA ServerStays ==
    ASSUME HomeInv, NEW c \in Clients, NEW s \in Servers, UpdateRelayServer(c, s), UNCHANGED <<home, ready>>
    PROVE  HomeInv'
BY DEF HomeInv, UpdateRelayServer

\* What is known of a task.
LEMMA TaskFacts ==
    ASSUME RoomsInv, NEW c \in Clients, NEW t \in tasks[c]
    PROVE  /\ t \in Task /\ TaskFits(c, t) /\ t.server \in Servers
           /\ t.do \in {"join", "rejoin", "wait", "put", "handle"} =>
                t.room \in Rooms /\ t.room \in 1..Len(rooms) /\ Shared(c, t.server, t.room)
           /\ t.do \notin {"join", "rejoin"} => t.body \in said \cup {Open}
<1>1. t \in Task /\ TaskFits(c, t)
  BY DEF RoomsInv, TaskInv
<1>2. t.server \in Servers /\ t.room \in Rooms \cup {Undefined}
  BY <1>1 DEF Task
<1>3. 1..Len(rooms) \subseteq Rooms
  <2>1. Len(rooms) \in Nat /\ MaxRooms \in Nat /\ Len(rooms) <= MaxRooms
    BY LenProperties, MatrixRoomsAssumption DEF RoomsInv, RelayInv
  <2>. QED
    BY <2>1 DEF Rooms
<1>. QED
  BY <1>1, <1>2, <1>3 DEF TaskFits, Shared

LEMMA NoteInviteStep ==
    ASSUME RoomsInv, RelayStep, NEW c \in Clients, NEW t \in tasks[c], t.do = "join", NoteInvite(c, t),
           UNCHANGED <<home, ready, known, bounds, excused>>
    PROVE  RelayInv' /\ KnownInv' /\ RecordInv' /\ HomeInv' /\ CountInv' /\ TaskFits(c, t)'
<1>. USE DEF RoomsInv, bounds
<1>1. t.server \in Servers /\ t.room \in Rooms /\ Shared(c, t.server, t.room) /\ TaskFits(c, t)
  BY TaskFacts
<1>2. Shared(c, t.server, t.room)' /\ TaskFits(c, t)'
  BY <1>1, SharedStays, TaskFitsStays
<1>3. RecordInv'
  BY <1>1, <1>2, UpdatePeerRoomStep DEF NoteInvite
<1>4. HomeInv' /\ KnownInv' /\ CountInv'
  BY <1>1, ServerStays, KnownStays DEF NoteInvite, CountInv
<1>. QED
  BY <1>2, <1>3, <1>4 DEF RelayStep

LEMMA JoinStep == ASSUME RoomsInv, NEW c \in Clients, NEW t \in tasks[c], Join(c, t) PROVE RoomsInv'
<1>. USE DEF RoomsInv, Join, bounds
<1>1. t.room \in 1..Len(rooms)
  BY TaskFacts
<1>2. RelayStep
  BY <1>1, EnterStep
<1>3. RelayInv' /\ KnownInv' /\ RecordInv' /\ HomeInv' /\ CountInv'
  BY <1>2, NoteInviteStep
<1>. QED
  BY <1>2, <1>3, DropStep

LEMMA JoinRefusedStep ==
    ASSUME RoomsInv, NEW c \in Clients, NEW t \in tasks[c], JoinRefused(c, t) PROVE RoomsInv'
<1>. USE DEF RoomsInv, JoinRefused, bounds
<1>1. RelayStep
  BY RelayStays DEF RelayInv
<1>2. RelayInv' /\ KnownInv' /\ RecordInv' /\ HomeInv' /\ CountInv' /\ TaskFits(c, t)'
  BY <1>1, NoteInviteStep
<1>3. PICK u : u = [t EXCEPT !.do = "rejoin", !.tries = 1]
  OBVIOUS
<1>4. /\ u \in Task /\ u.do = "rejoin" /\ u.server = t.server /\ u.room = t.room /\ u.ids = t.ids
  BY <1>3, TaskFacts DEF Task
<1>5. TaskFits(c, u)'
  BY <1>2, <1>4 DEF TaskFits
<1>. QED
  BY <1>1, <1>2, <1>3, <1>4, <1>5, BecomeStep

LEMMA ExcuseStep == ASSUME RelayInv, Excuse PROVE excused' \subseteq Bodies
BY DEF RelayInv, Excuse, Bodies

LEMMA RejoinStep ==
    ASSUME RoomsInv, NEW c \in Clients, NEW t \in tasks[c], Rejoin(c, t) PROVE RoomsInv'
<1>. USE DEF RoomsInv, bounds, storage
<1>1. t.do = "rejoin" /\ UNCHANGED <<storage, ready, ignored, bounds>>
  BY DEF Rejoin
<1>2. t.room \in 1..Len(rooms) /\ t \in Task /\ TaskFits(c, t)
  BY <1>1, TaskFacts
<1>3. ASSUME RelayStep, excused' \subseteq Bodies, TaskInv'
      PROVE  RoomsInv'
  BY <1>1, <1>3, KnownStays, RecordsStay DEF HomeInv, CountInv, RelayStep
<1>4. CASE Enter(c, t.room) /\ Drop(c, t) /\ UNCHANGED excused
  <2>1. RelayStep
    BY <1>1, <1>2, <1>4, EnterStep
  <2>2. excused' \subseteq Bodies
    BY <1>4 DEF CountInv
  <2>3. TaskInv'
    BY <1>1, <1>4, <2>1, DropStep
  <2>. QED
    BY <1>3, <2>1, <2>2, <2>3
<1>5. CASE /\ t.tries < MaxRejoins /\ Become(c, t, [t EXCEPT !.tries = @ + 1])
           /\ UNCHANGED <<rooms, excused>>
  <2>1. RelayStep
    BY <1>1, <1>5, RelayStays DEF RelayInv
  <2>2. PICK u : u = [t EXCEPT !.tries = @ + 1]
    OBVIOUS
  <2>3. t.tries + 1 \in 0..MaxRejoins
    BY <1>2, <1>5, MatrixRoomsAssumption DEF Task
  <2>4. /\ u \in Task /\ u.do = t.do /\ u.server = t.server /\ u.room = t.room /\ u.ids = t.ids
    BY <1>2, <2>2, <2>3 DEF Task
  <2>5. TaskFits(c, t)'
    BY <1>1, <1>2, <2>1, TaskFitsStays
  <2>6. TaskFits(c, u)'
    BY <1>1, <2>4, <2>5 DEF TaskFits
  <2>7. TaskInv'
    BY <1>1, <1>5, <2>1, <2>2, <2>4, <2>6, BecomeStep
  <2>. QED
    BY <1>3, <1>5, <2>1, <2>7 DEF CountInv
<1>6. CASE Drop(c, t) /\ Excuse /\ UNCHANGED rooms
  <2>1. RelayStep
    BY <1>1, <1>6, RelayStays DEF RelayInv
  <2>. QED
    BY <1>1, <1>3, <1>6, <2>1, DropStep, ExcuseStep
<1>. QED
  BY <1>4, <1>5, <1>6 DEF Rejoin

LEMMA ScanCodeStep == ASSUME RoomsInv, Scan PROVE RoomsInv'
<1>. USE DEF RoomsInv, Scan
<1>1. RelayStep
  BY RelayStays DEF RelayInv
<1>2. KnownInv' /\ RecordInv'
  BY <1>1, KnownStays, RecordsStay
<1>3. Code \in Servers /\ Wallet \in Clients
  BY DEF Code, HomeInv, Clients
<1>4. HomeInv' /\ CountInv'
  BY <1>3, MatrixRoomsAssumption DEF HomeInv, CountInv
<1>5. PICK u : u = PairingResponse(Code)
  OBVIOUS
<1>6. u \in Task /\ u.do = "create" /\ u.body = Open /\ u.ids = NoRooms
  BY <1>3, <1>5, NewTaskFields DEF PairingResponse, Bodies
<1>7. TaskFits(Wallet, u)'
  BY <1>6, NoRoomsShared DEF TaskFits, AreShared, NoRooms
<1>8. TaskInv'
  <2>1. {u} \in SUBSET Task /\ tasks' = [tasks EXCEPT ![Wallet] = @ \cup {u}]
    BY <1>5, <1>6
  <2>. QED
    BY <1>1, <1>3, <1>7, <2>1, AddTasksStep
<1>. QED
  BY <1>1, <1>2, <1>4, <1>8 DEF RelayStep

LEMMA SayStep == ASSUME RoomsInv, NEW c \in Clients, NEW m \in Texts, Say(c, m) PROVE RoomsInv'
<1>. USE DEF RoomsInv, Say, storage
<1>1. RelayStep
  BY RelayStays DEF RelayInv
<1>2. KnownInv' /\ RecordInv'
  BY <1>1, KnownStays, RecordsStay
<1>3. peerServer[c] \in Servers
  BY DEF HomeInv
<1>4. HomeInv' /\ CountInv'
  BY DEF HomeInv, CountInv, Bodies
<1>5. PICK u : u = NewTask("look", m, peerServer[c], Undefined)
  OBVIOUS
<1>6. u \in Task /\ u.do = "look" /\ u.body = m /\ u.ids = NoRooms
  BY <1>3, <1>5, NewTaskFields DEF Bodies
<1>7. TaskFits(c, u)'
  BY <1>6 DEF TaskFits, AreShared, NoRooms
<1>8. TaskInv'
  <2>1. {u} \in SUBSET Task /\ tasks' = [tasks EXCEPT ![c] = @ \cup {u}]
    BY <1>5, <1>6
  <2>2. UNCHANGED home /\ \A v \in {u} : TaskFits(c, v)'
    BY <1>7
  <2>3. RelayInv /\ TaskInv
    OBVIOUS
  <2>. HIDE DEF Say, RoomsInv, storage
  <2>. QED
    BY <1>1, <2>1, <2>2, <2>3, AddTasksStep
<1>. QED
  BY <1>1, <1>2, <1>4, <1>8 DEF RelayStep

LEMMA LookUpStep ==
    ASSUME RoomsInv, NEW c \in Clients, NEW t \in tasks[c], LookUp(c, t) PROVE RoomsInv'
<1>. USE DEF RoomsInv, bounds
<1>1. /\ t.do = "look"
      /\ UNCHANGED <<rooms, home, peerServer, known, ready, ignored, bounds, excused>>
  BY DEF LookUp
<1>2. t \in Task /\ TaskFits(c, t) /\ t.server \in Servers /\ t.body \in said \cup {Open}
  BY <1>1, TaskFacts
<1>3. RelayStep
  BY <1>1, RelayStays DEF RelayInv
<1>4. KnownInv' /\ HomeInv' /\ CountInv' /\ TaskFits(c, t)'
  BY <1>1, <1>2, <1>3, KnownStays, TaskFitsStays DEF HomeInv, CountInv
<1>5. ASSUME NEW r \in Rooms, Shared(c, t.server, r), Become(c, t, [t EXCEPT !.do = "put", !.room = r])
      PROVE  TaskInv'
  <2>1. PICK u : u = [t EXCEPT !.do = "put", !.room = r]
    OBVIOUS
  <2>2. /\ u \in Task /\ u.do = "put" /\ u.body = t.body /\ u.server = t.server /\ u.room = r
        /\ u.ids = t.ids
    BY <1>2, <2>1 DEF Task
  <2>3. Shared(c, t.server, r)'
    BY <1>1, <1>3, <1>5, SharedStays
  <2>4. TaskFits(c, u)'
    BY <1>1, <1>4, <2>2, <2>3 DEF TaskFits
  <2>. QED
    BY <1>1, <1>3, <1>5, <2>1, <2>2, <2>4, BecomeStep
<1>6. CASE /\ roomIds[c][t.server] # Undefined
           /\ Become(c, t, [t EXCEPT !.do = "put", !.room = roomIds[c][t.server]])
           /\ UNCHANGED roomIds
  <2>1. roomIds[c][t.server] \in Rooms /\ Shared(c, t.server, roomIds[c][t.server])
    BY <1>2, <1>6 DEF RecordInv, AreShared
  <2>. QED
    BY <1>1, <1>3, <1>4, <1>5, <1>6, <2>1, RecordsStay DEF RelayStep
<1>7. ASSUME NEW r \in RelevantJoinedRooms(c, t.server),
             Become(c, t, [t EXCEPT !.do = "put", !.room = r]),
             roomIds' = [roomIds EXCEPT ![c][t.server] = r]
      PROVE  RoomsInv'
  <2>1. r \in Rooms /\ known[c][r].status = "JOINED" /\ <<Peer(c), t.server>> \in known[c][r].members
    BY <1>7 DEF RelevantJoinedRooms, JoinedRooms
  <2>2. KnownFits(c, r)
    BY <2>1 DEF KnownInv
  <2>3. r \in 1..Len(rooms)
    BY <2>1, <2>2, LenProperties DEF KnownFits, Rooms, RelayInv
  <2>4. Shared(c, t.server, r)
    BY <2>1, <2>2, <2>3 DEF KnownFits, Shared
  <2>5. Shared(c, t.server, r)'
    BY <1>1, <1>3, <2>4, SharedStays
  <2>6. PICK old : old = roomIds[c]
    OBVIOUS
  <2>7. PICK ids : ids = [old EXCEPT ![t.server] = r]
    OBVIOUS
  <2>8. old \in [Servers -> Rooms \cup {Undefined}] /\ AreShared(c, old)
    BY <2>6 DEF RecordInv
  <2>9. AreShared(c, old)'
    BY <1>1, <1>3, <2>8, AreSharedStays
  <2>10. ids \in [Servers -> Rooms \cup {Undefined}] /\ AreShared(c, ids)'
    BY <1>2, <2>1, <2>5, <2>7, <2>8, <2>9 DEF AreShared
  <2>11. roomIds' = [roomIds EXCEPT ![c] = ids] /\ ignored' \in [Clients -> SUBSET (0..MaxRooms)]
    BY <1>1, <1>7, <2>6, <2>7 DEF RecordInv
  <2>12. RecordInv'
    BY <1>1, <1>3, <2>10, <2>11, RecordStep
  <2>13. TaskInv'
    BY <1>5, <1>7, <2>1, <2>4
  <2>. QED
    BY <1>3, <1>4, <2>12, <2>13 DEF RelayStep
<1>8. CASE /\ Become(c, t, [t EXCEPT !.do = "create", !.ids = roomIds[c]])
           /\ UNCHANGED roomIds
  <2>1. PICK ids : ids = roomIds[c]
    OBVIOUS
  <2>2. ids \in [Servers -> Rooms \cup {Undefined}] /\ AreShared(c, ids)
    BY <2>1 DEF RecordInv
  <2>3. AreShared(c, ids)'
    BY <1>1, <1>3, <2>2, AreSharedStays
  <2>4. PICK u : u = [t EXCEPT !.do = "create", !.ids = ids]
    OBVIOUS
  <2>5. u \in Task /\ u.do = "create" /\ u.body = t.body /\ u.ids = ids
    BY <1>2, <2>2, <2>4 DEF Task
  <2>6. TaskFits(c, u)'
    BY <1>1, <1>2, <2>3, <2>5 DEF TaskFits
  <2>7. TaskInv'
    BY <1>1, <1>3, <1>8, <2>1, <2>4, <2>5, <2>6, BecomeStep
  <2>. QED
    BY <1>1, <1>3, <1>4, <1>8, <2>7, RecordsStay DEF RelayStep
<1>. QED
  BY <1>6, <1>7, <1>8 DEF LookUp

LEMMA CreateStep ==
    ASSUME RoomsInv, NEW c \in Clients, NEW t \in tasks[c], Create(c, t) PROVE RoomsInv'
<1>. USE DEF RoomsInv, bounds
<1>1. t \in Task /\ TaskFits(c, t) /\ t.server \in Servers /\ t.do = "create"
      /\ t.body \in said \cup {Open}
  BY TaskFacts DEF Create
<1>2. UNCHANGED <<home, peerServer, known, ready, bounds, excused>>
  BY DEF Create
<1>3. PICK r : r = Len(rooms) + 1
  OBVIOUS
<1>4. RelayStep /\ r \in Rooms /\ Shared(c, t.server, r)'
  BY <1>1, <1>2, <1>3, CreateRoomStep DEF Create
<1>5. KnownInv' /\ HomeInv' /\ CountInv' /\ TaskFits(c, t)'
  BY <1>1, <1>2, <1>4, KnownStays, TaskFitsStays DEF HomeInv, CountInv
<1>6. RecordInv'
  <2>1. UpdatePeerRoom(c, t.server, r) \/ UNCHANGED <<roomIds, ignored>>
    BY <1>3 DEF Create
  <2>. QED
    BY <1>1, <1>2, <1>4, <2>1, UpdatePeerRoomStep, RecordsStay
<1>7. TaskInv'
  <2>1. PICK u : u = [t EXCEPT !.do = "wait", !.room = r]
    OBVIOUS
  <2>2. /\ u \in Task /\ u.do = "wait" /\ u.body = t.body /\ u.server = t.server /\ u.room = r
        /\ u.ids = t.ids
    BY <1>1, <1>4, <2>1 DEF Task
  <2>3. TaskFits(c, u)'
    BY <1>1, <1>4, <1>5, <2>2 DEF TaskFits
  <2>4. Become(c, t, u)
    BY <1>3, <2>1 DEF Create
  <2>. QED
    BY <1>2, <1>4, <2>2, <2>3, <2>4, BecomeStep
<1>. QED
  BY <1>4, <1>5, <1>6, <1>7 DEF RelayStep

LEMMA PeerJoinedStep ==
    ASSUME RoomsInv, NEW c \in Clients, NEW t \in tasks[c], PeerJoined(c, t) PROVE RoomsInv'
<1>. USE DEF RoomsInv, bounds
<1>1. /\ t \in Task /\ TaskFits(c, t) /\ t.server \in Servers /\ t.do = "wait"
      /\ t.body \in said \cup {Open} /\ t.room \in Rooms
  BY TaskFacts DEF PeerJoined
<1>2. UNCHANGED <<rooms, home, peerServer, known, ready, ignored, bounds, excused>>
  BY DEF PeerJoined
<1>3. RelayStep
  BY <1>2, RelayStays DEF RelayInv
<1>4. KnownInv' /\ HomeInv' /\ CountInv' /\ TaskFits(c, t)'
  BY <1>1, <1>2, <1>3, KnownStays, TaskFitsStays DEF HomeInv, CountInv
<1>5. RecordInv'
  <2>1. CASE UNCHANGED roomIds
    BY <1>2, <1>3, <2>1, RecordsStay
  <2>2. CASE roomIds' = [roomIds EXCEPT ![c] = [t.ids EXCEPT ![t.server] = t.room]]
    <3>1. PICK ids : ids = [t.ids EXCEPT ![t.server] = t.room]
      OBVIOUS
    <3>2. t.ids \in [Servers -> Rooms \cup {Undefined}]
      BY <1>1 DEF Task
    <3>3. AreShared(c, t.ids)' /\ Shared(c, t.server, t.room)'
      BY <1>1, <1>4 DEF TaskFits
    <3>4. ids \in [Servers -> Rooms \cup {Undefined}] /\ AreShared(c, ids)'
      BY <1>1, <3>1, <3>2, <3>3 DEF AreShared
    <3>5. ignored' \in [Clients -> SUBSET (0..MaxRooms)]
      BY <1>2 DEF RecordInv
    <3>. QED
      BY <1>2, <1>3, <2>2, <3>1, <3>4, <3>5, RecordStep
  <2>. QED
    BY <2>1, <2>2 DEF PeerJoined
<1>6. TaskInv'
  <2>1. PICK u : u = [t EXCEPT !.do = "put", !.ids = NoRooms]
    OBVIOUS
  <2>2. /\ u \in Task /\ u.do = "put" /\ u.body = t.body /\ u.server = t.server /\ u.room = t.room
        /\ u.ids = NoRooms
    BY <1>1, <2>1 DEF Task, NoRooms
  <2>3. TaskFits(c, u)'
    BY <1>1, <1>4, <2>2 DEF TaskFits, AreShared, NoRooms
  <2>4. Become(c, t, u)
    BY <2>1 DEF PeerJoined
  <2>. QED
    BY <1>2, <1>3, <2>2, <2>3, <2>4, BecomeStep
<1>. QED
  BY <1>3, <1>4, <1>5, <1>6 DEF RelayStep

LEMMA GiveUpStep ==
    ASSUME RoomsInv, NEW c \in Clients, NEW t \in tasks[c], GiveUp(c, t) PROVE RoomsInv'
<1>. USE DEF RoomsInv, GiveUp, bounds, storage
<1>1. RelayStep
  BY RelayStays DEF RelayInv
<1>2. KnownInv' /\ RecordInv' /\ TaskInv'
  BY <1>1, KnownStays, RecordsStay, DropStep
<1>3. HomeInv' /\ CountInv'
  BY ExcuseStep DEF HomeInv, CountInv
<1>. QED
  BY <1>1, <1>2, <1>3 DEF RelayStep

LEMMA PutStep ==
    ASSUME RoomsInv, NEW c \in Clients, NEW t \in tasks[c], Put(c, t) PROVE RoomsInv'
<1>. USE DEF RoomsInv, bounds, storage
<1>1. t.room \in Rooms /\ t.body \in said \cup {Open}
  BY TaskFacts DEF Put
<1>2. UNCHANGED <<storage, ready, ignored, bounds, excused>>
  BY DEF Put
<1>3. RelayStep
  BY <1>1, <1>2, SendEventStep DEF Put
<1>4. KnownInv' /\ RecordInv' /\ TaskInv'
  BY <1>2, <1>3, KnownStays, RecordsStay, DropStep DEF Put
<1>5. HomeInv' /\ CountInv'
  BY <1>2 DEF HomeInv, CountInv
<1>. QED
  BY <1>3, <1>4, <1>5 DEF RelayStep

LEMMA PutRefusedStep ==
    ASSUME RoomsInv, NEW c \in Clients, NEW t \in tasks[c], PutRefused(c, t) PROVE RoomsInv'
<1>. USE DEF RoomsInv, bounds
<1>1. /\ t \in Task /\ TaskFits(c, t) /\ t.do = "put" /\ t.room \in Rooms
      /\ t.body \in said \cup {Open}
  BY TaskFacts DEF PutRefused
<1>2. UNCHANGED <<rooms, home, peerServer, known, ready, bounds, excused>>
  BY DEF PutRefused
<1>3. RelayStep
  BY <1>2, RelayStays DEF RelayInv
<1>4. KnownInv' /\ HomeInv' /\ CountInv' /\ TaskFits(c, t)'
  BY <1>1, <1>2, <1>3, KnownStays, TaskFitsStays DEF HomeInv, CountInv
<1>5. CASE DeleteRoom(c, t.room) /\ Become(c, t, [t EXCEPT !.do = "look", !.room = Undefined, !.tries = 1])
  <2>1. PICK u : u = [t EXCEPT !.do = "look", !.room = Undefined, !.tries = 1]
    OBVIOUS
  <2>2. u \in Task /\ u.do = "look" /\ u.body = t.body /\ u.ids = t.ids
    BY <1>1, <2>1 DEF Task
  <2>3. TaskFits(c, u)'
    BY <1>1, <1>4, <2>2 DEF TaskFits
  <2>4. TaskInv'
    BY <1>2, <1>3, <1>5, <2>1, <2>2, <2>3, BecomeStep
  <2>5. RecordInv'
    BY <1>1, <1>2, <1>3, <1>5, DeleteRoomStep
  <2>. QED
    BY <1>3, <1>4, <2>4, <2>5 DEF RelayStep
<1>6. CASE Drop(c, t) /\ UNCHANGED <<roomIds, ignored>>
  BY <1>2, <1>3, <1>4, <1>6, DropStep, RecordsStay DEF RelayStep
<1>. QED
  BY <1>5, <1>6 DEF PutRefused

LEMMA HandleMessageStep ==
    ASSUME RoomsInv, NEW c \in Clients, NEW t \in tasks[c], HandleMessage(c, t) PROVE RoomsInv'
<1>. USE DEF RoomsInv
<1>1. /\ t.do = "handle" /\ t.server \in Servers /\ t.room \in Rooms
      /\ Shared(c, t.server, t.room) /\ t.body \in said \cup {Open}
  BY TaskFacts DEF HandleMessage
<1>2. UNCHANGED <<rooms, home, known, ready, scans, said, loads, excused>>
  BY DEF HandleMessage
<1>3. RelayStep
  BY <1>2, RelayStays DEF RelayInv
<1>4. KnownInv' /\ Shared(c, t.server, t.room)' /\ TaskInv'
  BY <1>1, <1>2, <1>3, KnownStays, SharedStays, DropStep DEF HandleMessage
<1>5. RecordInv'
  BY <1>1, <1>2, <1>3, <1>4, UpdatePeerRoomStep DEF HandleMessage
<1>6. HomeInv' /\ CountInv'
  <2>1. CASE t.body = Open
    BY <1>1, <1>2, <2>1 DEF HandleMessage, HomeInv, CountInv
  <2>2. CASE t.body # Open
    BY <1>1, <1>2, <2>2, ServerStays DEF HandleMessage, CountInv
  <2>. QED
    BY <2>1, <2>2
<1>. QED
  BY <1>3, <1>4, <1>5, <1>6 DEF RelayStep

-----------------------------------------------------------------------------
LEMMA RoomsNextKeeps == RoomsInv /\ [RoomsNext]_roomsVars => RoomsInv'
<1>. SUFFICES ASSUME RoomsInv, [RoomsNext]_roomsVars PROVE RoomsInv'
  OBVIOUS
<1>1. CASE UNCHANGED roomsVars
  <2>. USE <1>1 DEF roomsVars, storage, memory, bounds, RoomsInv
  <2>1. RelayStep
    BY RelayStays DEF RelayInv
  <2>2. KnownInv' /\ RecordInv' /\ TaskInv'
    BY <2>1, KnownStays, RecordsStay, TasksStay
  <2>3. HomeInv' /\ CountInv'
    BY DEF HomeInv, CountInv
  <2>. QED
    BY <2>1, <2>2, <2>3 DEF RelayStep
<1>2. CASE Scan
  BY <1>2, ScanCodeStep
<1>3. ASSUME NEW c \in Clients, Start(c) PROVE RoomsInv'
  <2>1. PICK M \in SUBSET EmitMessage(c) : tasks' = [tasks EXCEPT ![c] = @ \cup EmitInvite(c) \cup M]
    BY <1>3 DEF Start
  <2>2. ready' \in [Clients -> BOOLEAN]
    BY <1>3 DEF Start, RoomsInv, HomeInv
  <2>. QED
    BY <1>3, <2>1, <2>2, SyncStep DEF Start
<1>4. ASSUME NEW c \in Clients, SyncRooms(c) PROVE RoomsInv'
  <2>1. PICK M : M = EmitMessage(c)
    OBVIOUS
  <2>2. M \in SUBSET EmitMessage(c) /\ tasks' = [tasks EXCEPT ![c] = @ \cup EmitInvite(c) \cup M]
    BY <1>4, <2>1 DEF SyncRooms
  <2>3. ready' \in [Clients -> BOOLEAN]
    BY <1>4 DEF SyncRooms, RoomsInv, HomeInv
  <2>. QED
    BY <1>4, <2>2, <2>3, SyncStep DEF SyncRooms
<1>5. ASSUME NEW c \in Clients, ReloadPage(c) PROVE RoomsInv'
  BY <1>5, ReloadPageStep
<1>6. ASSUME NEW c \in Clients, NEW s \in Servers, Move(c, s) PROVE RoomsInv'
  BY <1>6, MoveStep
<1>7. ASSUME NEW c \in Clients, NEW m \in Texts, Say(c, m) PROVE RoomsInv'
  BY <1>7, SayStep
<1>8. ASSUME NEW c \in Clients, NEW t \in tasks[c], Advance(c, t) \/ GiveUp(c, t) PROVE RoomsInv'
  BY <1>8, JoinStep, JoinRefusedStep, RejoinStep, HandleMessageStep, LookUpStep, CreateStep,
     PeerJoinedStep, PutStep, PutRefusedStep, GiveUpStep DEF Advance
<1>. QED
  BY <1>1, <1>2, <1>3, <1>4, <1>5, <1>6, <1>7, <1>8 DEF RoomsNext

LEMMA RoomsInvHolds == RoomsSpec => []RoomsInv
<1>1. RoomsInit => RoomsInv
  BY InitRoomsInv
<1>2. RoomsInv /\ [RoomsNext]_roomsVars => RoomsInv'
  BY RoomsNextKeeps
<1>. QED
  BY <1>1, <1>2, PTL DEF RoomsSpec

\* For any servers, texts and bounds, the relay's rooms, and what each client has
\* recorded, knows and waits for, keep their types.
THEOREM RoomsTypeCorrect == RoomsSpec => []RoomsTypeOK
<1>1. RoomsInv => RoomsTypeOK
  BY RoomsInvImplies
<1>. QED
  BY <1>1, RoomsInvHolds, PTL

\* However rooms are opened by both sides at once, joins refused, pages reloaded and
\* servers changed, a room recorded for an address of the peer is one that this
\* client and that address are in or invited to.
THEOREM RecordsAreShared == RoomsSpec => []RecordedRoomsAreShared
<1>1. RoomsInv => RecordedRoomsAreShared
  BY RoomsInvImplies
<1>. QED
  BY <1>1, RoomsInvHolds, PTL

=============================================================================
