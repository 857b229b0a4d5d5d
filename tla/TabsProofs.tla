----------------------------- MODULE TabsProofs -----------------------------
(***************************************************************************)
(* Theorems about Tabs for any pages, calls and errors: which pages ask    *)
(* the wallet for a request, that pages which have heard each other agree  *)
(* about the active account, and which calls are rejected when a session   *)
(* ends.                                                                   *)
(***************************************************************************)
EXTENDS Tabs, SequenceTheorems, TLAPS

-----------------------------------------------------------------------------
(***************************************************************************)
(* The inductive invariant                                                 *)
(***************************************************************************)

Messages == [type : {"REQUEST", "RESPONSE"}, id : Requests]
            \cup [type : {"DISCONNECT", "LEADER_DEAD"}]

Inboxes == [Tabs -> Seq(Messages)]

CallStates == [tab : Tabs \cup {NoTab}, kind : {"none", "permission", "operation"},
               at : {"idle", "checking", "linked", "pairing", "passed", "relaying", "posted",
                     "waiting", "answered", "aborted", "refused", "undefined", "gone"}]

\* The part of TypeOK that is about requests.
RequestTypes ==
  /\ inbox \in Inboxes
  /\ held \in [Tabs -> SUBSET Requests]
  /\ adding \in [Tabs -> SUBSET Requests]
  /\ sending \in [Tabs -> SUBSET Requests]
  /\ sent \in [Tabs -> [Requests -> Nat]]
  /\ atWallet \subseteq Requests \X Tabs
  /\ call \in [Requests -> CallStates]

Post(r) == [type |-> "REQUEST", id |-> r]

\* Is r on its way to u, in the inboxes in?
On(in, u, r) == \E i \in 1..Len(in[u]) : in[u][i] = Post(r)

\* No request is twice on its way to a page.
Once(in) ==
  \A u \in Tabs, r \in Requests : \A i, j \in 1..Len(in[u]) :
    in[u][i] = Post(r) /\ in[u][j] = Post(r) => i = j

\* A call that has not been posted and has not passed the checks of makeRequest.
Unmade(c) == c.at \in {"idle", "checking", "linked", "pairing", "relaying"}

\* Page u sends r, or is about to.
Touches(u, r) == r \in adding[u] \/ r \in sending[u] \/ sent[u][r] # 0

\* Nobody knows a request that has not been made.
UnmadeIsUnknown ==
  \A r \in Requests : Unmade(call[r]) =>
    \A u \in Tabs : ~On(inbox, u, r) /\ r \notin held[u] /\ ~Touches(u, r)

\* The page r comes from does not send it.
NotByItsOwn(r) == call[r].tab \in Tabs => ~Touches(call[r].tab, r)

\* What is on its way to a page, that page and the one that waits did not send.
OnItsWayIsUnsent ==
  \A u \in Tabs, r \in Requests : On(inbox, u, r) =>
    /\ u # call[r].tab
    /\ r \notin held[u]
    /\ ~Touches(u, r)
    /\ NotByItsOwn(r)

\* Nor what the leader holds until its transport is ready.
HeldIsUnsent ==
  \A u \in Tabs, r \in Requests : r \in held[u] =>
    /\ u = leader
    /\ u # call[r].tab
    /\ ~Touches(u, r)
    /\ NotByItsOwn(r)

\* What is about to be sent has not been sent; the page that made the call sends
\* it, or the leader.
AddedIsUnsent ==
  \A u \in Tabs, r \in Requests : r \in adding[u] \cup sending[u] =>
    /\ sent[u][r] = 0
    /\ r \notin adding[u] \/ r \notin sending[u]
    /\ u = call[r].tab \/ (u = leader /\ NotByItsOwn(r))

\* Who waits for the wallet sent the request, as the page that made the call or
\* as the leader.
AskedIsSent ==
  \A u \in Tabs, r \in Requests : <<r, u>> \in atWallet =>
    /\ sent[u][r] # 0
    /\ u = call[r].tab \/ (u = leader /\ NotByItsOwn(r))

AskInv ==
  /\ RequestTypes
  /\ Once(inbox)
  /\ UnmadeIsUnknown
  /\ OnItsWayIsUnsent
  /\ HeldIsUnsent
  /\ AddedIsUnsent
  /\ AskedIsSent
  /\ SentOnce

-----------------------------------------------------------------------------
(***************************************************************************)
(* The inboxes                                                             *)
(***************************************************************************)

\* The inboxes in2 bring no request that the inboxes in1 do not.
Calm(in2, in1) ==
  /\ in2 \in Inboxes
  /\ Once(in1) => Once(in2)
  /\ \A u \in Tabs, r \in Requests : On(in2, u, r) => On(in1, u, r)

LEMMA CalmSame == ASSUME NEW in \in Inboxes PROVE Calm(in, in)
  BY DEF Calm

LEMMA CalmTransitive ==
  ASSUME NEW in1, NEW in2, NEW in3, Calm(in3, in2), Calm(in2, in1)
  PROVE  Calm(in3, in1)
  BY DEF Calm

\* Appending a message that is not a request changes no position of a request.
LEMMA AppendKeepsPosts ==
  ASSUME NEW s \in Seq(Messages), NEW m \in Messages, NEW r \in Requests, m # Post(r),
         NEW i \in 1..Len(Append(s, m)), Append(s, m)[i] = Post(r)
  PROVE  i \in 1..Len(s) /\ s[i] = Post(r)
<1>. DEFINE n == Len(s)
<1>1. n \in Nat /\ Len(Append(s, m)) = n + 1 /\ Append(s, m)[n + 1] = m
  OBVIOUS
<1>2. i # n + 1
  BY <1>1
<1>3. i \in 1..n
  BY <1>1, <1>2
<1>. QED
  BY <1>3

\* A message that is not a request is posted.
LEMMA PostedIsCalm ==
  ASSUME NEW in \in Inboxes, NEW t \in Tabs, NEW m \in Messages, m.type # "REQUEST"
  PROVE  Calm(Posted(in, t, m), in)
<1>. DEFINE new == Posted(in, t, m)
<1>1. \A u \in Tabs : in[u] \in Seq(Messages)
  BY DEF Inboxes
<1>2. \A u \in Tabs : new[u] = in[u] \/ new[u] = Append(in[u], m)
  BY DEF Posted
<1>3. new \in Inboxes
  <2>1. \A u \in Tabs : Append(in[u], m) \in Seq(Messages)
    BY <1>1
  <2>. QED
    BY <1>1, <2>1 DEF Posted, Inboxes
<1>4. \A r \in Requests : m # Post(r)
  BY DEF Post
<1>5. ASSUME NEW u \in Tabs, NEW r \in Requests, NEW i \in 1..Len(new[u]),
             new[u][i] = Post(r)
      PROVE  i \in 1..Len(in[u]) /\ in[u][i] = Post(r)
  <2>. HIDE DEF new
  <2>1. CASE new[u] = in[u]
    BY <1>5, <2>1
  <2>2. CASE new[u] = Append(in[u], m)
    BY <1>1, <1>4, <1>5, <2>2, AppendKeepsPosts
  <2>. QED
    BY <1>2, <2>1, <2>2
<1>. HIDE DEF new
<1>6. Calm(new, in)
  BY <1>3, <1>5 DEF Calm, On, Once
<1>. QED
  BY <1>6 DEF new

\* A page takes the first message of its inbox.
LEMMA TakenIsCalm ==
  ASSUME NEW in \in Inboxes, NEW t \in Tabs, in[t] # <<>>
  PROVE  /\ Calm([in EXCEPT ![t] = Tail(@)], in)
         /\ \A r \in Requests :
              Once(in) /\ Head(in[t]) = Post(r) => ~On([in EXCEPT ![t] = Tail(@)], t, r)
<1>. DEFINE new == [in EXCEPT ![t] = Tail(@)]
<1>1. /\ in[t] \in Seq(Messages)
      /\ Tail(in[t]) \in Seq(Messages)
      /\ Len(in[t]) \in Nat \ {0}
      /\ Len(Tail(in[t])) = Len(in[t]) - 1
      /\ \A i \in 1..Len(Tail(in[t])) : Tail(in[t])[i] = in[t][i + 1]
      /\ Head(in[t]) = in[t][1]
  <2>1. in[t] \in Seq(Messages)
    BY DEF Inboxes
  <2>. QED
    BY <2>1, HeadTailProperties
<1>2. \A i \in 1..Len(Tail(in[t])) : i + 1 \in 1..Len(in[t])
  BY <1>1
<1>3. new \in Inboxes /\ new[t] = Tail(in[t]) /\ \A u \in Tabs : u # t => new[u] = in[u]
  BY <1>1 DEF Inboxes
<1>. HIDE DEF new
<1>4. ASSUME NEW u \in Tabs, NEW r \in Requests, On(new, u, r)
      PROVE  On(in, u, r)
  <2>1. CASE u # t
    BY <1>3, <1>4, <2>1 DEF On
  <2>2. CASE u = t
    <3>1. PICK i \in 1..Len(Tail(in[t])) : Tail(in[t])[i] = Post(r)
      BY <1>3, <1>4, <2>2 DEF On
    <3>2. i + 1 \in 1..Len(in[t]) /\ in[t][i + 1] = Post(r)
      BY <1>1, <1>2, <3>1
    <3>. QED
      BY <2>2, <3>2 DEF On
  <2>. QED
    BY <2>1, <2>2
<1>5. ASSUME Once(in), NEW u \in Tabs, NEW r \in Requests,
             NEW i \in 1..Len(new[u]), NEW j \in 1..Len(new[u]),
             new[u][i] = Post(r), new[u][j] = Post(r)
      PROVE  i = j
  <2>1. CASE u # t
    BY <1>3, <1>5, <2>1 DEF Once
  <2>2. CASE u = t
    <3>1. /\ i + 1 \in 1..Len(in[t]) /\ in[t][i + 1] = Post(r)
          /\ j + 1 \in 1..Len(in[t]) /\ in[t][j + 1] = Post(r)
      BY <1>1, <1>2, <1>3, <1>5, <2>2
    <3>2. i + 1 = j + 1
      BY <1>5, <3>1 DEF Once
    <3>3. i \in Nat /\ j \in Nat
      BY <1>1, <1>3, <2>2
    <3>. QED
      BY <3>2, <3>3
  <2>. QED
    BY <2>1, <2>2
<1>6. ASSUME NEW r \in Requests, Once(in), Head(in[t]) = Post(r), On(new, t, r)
      PROVE  FALSE
  <2>1. PICK i \in 1..Len(Tail(in[t])) : Tail(in[t])[i] = Post(r)
    BY <1>3, <1>6 DEF On
  <2>2. in[t][i + 1] = Post(r) /\ in[t][1] = Post(r) /\ i + 1 \in 1..Len(in[t])
        /\ 1 \in 1..Len(in[t])
    BY <1>1, <1>2, <1>6, <2>1
  <2>3. i + 1 = 1
    BY <1>6, <2>2 DEF Once
  <2>. QED
    BY <1>1, <2>3
<1>7. Calm(new, in)
  BY <1>3, <1>4, <1>5 DEF Calm, Once
<1>. QED
  BY <1>6, <1>7 DEF new

\* A page loses its inbox.
LEMMA EmptiedIsCalm ==
  ASSUME NEW in \in Inboxes, NEW t \in Tabs
  PROVE  /\ Calm([in EXCEPT ![t] = <<>>], in)
         /\ \A r \in Requests : ~On([in EXCEPT ![t] = <<>>], t, r)
<1>. DEFINE new == [in EXCEPT ![t] = <<>>]
<1>1. new \in Inboxes /\ new[t] = <<>> /\ \A u \in Tabs : u # t => new[u] = in[u]
  BY DEF Inboxes
<1>. HIDE DEF new
<1>2. 1..Len(new[t]) = {}
  BY <1>1
<1>3. Calm(new, in) /\ \A r \in Requests : ~On(new, t, r)
  BY <1>1, <1>2 DEF Calm, On, Once
<1>. QED
  BY <1>3 DEF new

-----------------------------------------------------------------------------
(***************************************************************************)
(* Steps                                                                   *)
(***************************************************************************)

\* A step that makes no request known to a page and sends none.  A page that
\* stops to lead loses what it held, what it was about to send and what it
\* awaited.
LEMMA QuietStep ==
  ASSUME AskInv, RequestTypes', Calm(inbox', inbox), sent' = sent,
         \A u \in Tabs : /\ held'[u] \subseteq held[u]
                         /\ adding'[u] \subseteq adding[u]
                         /\ sending'[u] \subseteq sending[u],
         atWallet' \subseteq atWallet,
         \A r \in Requests : call'[r].tab = call[r].tab \/ Unmade(call[r]),
         \A r \in Requests : Unmade(call'[r]) => Unmade(call[r]),
         \A u \in Tabs : leader = u =>
           \/ leader' = u
           \/ /\ held'[u] = {} /\ adding'[u] = {} /\ sending'[u] = {}
              /\ \A r \in Requests : <<r, u>> \notin atWallet'
  PROVE  AskInv'
<1>1. Once(inbox')
  BY DEF AskInv, Calm
<1>2. \A u \in Tabs, r \in Requests : On(inbox', u, r) => On(inbox, u, r)
  BY DEF Calm
<1>3. \A u \in Tabs, r \in Requests : Touches(u, r)' => Touches(u, r)
  BY DEF Touches
<1>4. \A r \in Requests : ~Unmade(call[r]) /\ NotByItsOwn(r) => NotByItsOwn(r)'
  BY <1>3 DEF NotByItsOwn
<1>5. UnmadeIsUnknown'
  BY <1>2, <1>3 DEF AskInv, UnmadeIsUnknown
<1>6. OnItsWayIsUnsent'
  BY <1>2, <1>3, <1>4 DEF AskInv, OnItsWayIsUnsent, UnmadeIsUnknown
<1>7. HeldIsUnsent'
  <2>1. ASSUME NEW u \in Tabs, NEW r \in Requests, r \in held'[u]
        PROVE  u = leader' /\ u # call'[r].tab /\ ~Touches(u, r)' /\ NotByItsOwn(r)'
    <3>1. r \in held[u] /\ ~Unmade(call[r])
      BY <2>1 DEF AskInv, UnmadeIsUnknown
    <3>. QED
      BY <1>3, <1>4, <2>1, <3>1 DEF AskInv, HeldIsUnsent
  <2>. QED
    BY <2>1 DEF HeldIsUnsent
<1>8. AddedIsUnsent'
  <2>1. ASSUME NEW u \in Tabs, NEW r \in Requests, r \in adding'[u] \cup sending'[u]
        PROVE  /\ sent'[u][r] = 0
               /\ r \notin adding'[u] \/ r \notin sending'[u]
               /\ u = call'[r].tab \/ (u = leader' /\ NotByItsOwn(r)')
    <3>1. r \in adding[u] \cup sending[u] /\ Touches(u, r)
      BY <2>1 DEF Touches
    <3>2. ~Unmade(call[r]) /\ call'[r].tab = call[r].tab
      BY <3>1 DEF AskInv, UnmadeIsUnknown
    <3>3. /\ sent[u][r] = 0 /\ (r \notin adding[u] \/ r \notin sending[u])
          /\ u = call[r].tab \/ (u = leader /\ NotByItsOwn(r))
      BY <3>1 DEF AskInv, AddedIsUnsent
    <3>. QED
      BY <1>4, <2>1, <3>2, <3>3
  <2>. QED
    BY <2>1 DEF AddedIsUnsent
<1>9. AskedIsSent'
  <2>1. ASSUME NEW u \in Tabs, NEW r \in Requests, <<r, u>> \in atWallet'
        PROVE  sent'[u][r] # 0 /\ (u = call'[r].tab \/ (u = leader' /\ NotByItsOwn(r)'))
    <3>1. sent[u][r] # 0 /\ (u = call[r].tab \/ (u = leader /\ NotByItsOwn(r)))
      BY <2>1 DEF AskInv, AskedIsSent
    <3>2. ~Unmade(call[r]) /\ call'[r].tab = call[r].tab
      BY <3>1 DEF AskInv, UnmadeIsUnknown, Touches
    <3>. QED
      BY <1>4, <2>1, <3>1, <3>2
  <2>. QED
    BY <2>1 DEF AskedIsSent
<1>10. SentOnce'
  BY DEF AskInv, SentOnce
<1>. QED
  BY <1>1, <1>5, <1>6, <1>7, <1>8, <1>9, <1>10 DEF AskInv

\* A request passes the checks of makeRequest in the page that was called.
LEMMA CheckStep ==
  ASSUME AskInv, RequestTypes', NEW t \in Tabs, NEW r \in Requests,
         call[r].tab = t, Unmade(call[r]), call' = [call EXCEPT ![r].at = "passed"],
         adding' = [adding EXCEPT ![t] = @ \cup {r}],
         UNCHANGED <<inbox, held, sending, sent, atWallet, leader>>
  PROVE  AskInv'
<1>1. \A u \in Tabs : ~On(inbox, u, r) /\ r \notin held[u] /\ ~Touches(u, r)
  BY DEF AskInv, UnmadeIsUnknown
<1>2. \A u \in Tabs : <<r, u>> \notin atWallet
  BY <1>1 DEF AskInv, AskedIsSent, Touches
<1>3. /\ \A q \in Requests : q # r => call'[q] = call[q]
      /\ ~Unmade(call'[r]) /\ call'[r].tab = t
  BY DEF AskInv, RequestTypes, CallStates, Unmade
<1>4. \A u \in Tabs, q \in Requests : q # r => (q \in adding'[u] <=> q \in adding[u])
  BY DEF AskInv, RequestTypes
<1>5. \A u \in Tabs, q \in Requests : q # r => (Touches(u, q)' <=> Touches(u, q))
  BY <1>4 DEF Touches
<1>6. \A q \in Requests : q # r => (NotByItsOwn(q)' <=> NotByItsOwn(q))
  BY <1>3, <1>5 DEF NotByItsOwn
<1>7. UnmadeIsUnknown'
  BY <1>3, <1>5 DEF AskInv, UnmadeIsUnknown
<1>8. OnItsWayIsUnsent'
  BY <1>1, <1>3, <1>5, <1>6 DEF AskInv, OnItsWayIsUnsent
<1>9. HeldIsUnsent'
  BY <1>1, <1>3, <1>5, <1>6 DEF AskInv, HeldIsUnsent
<1>10. AddedIsUnsent'
  <2>1. \A u \in Tabs : u # t => r \notin adding'[u] \cup sending'[u]
    BY <1>1 DEF AskInv, RequestTypes, Touches
  <2>2. sent'[t][r] = 0 /\ r \notin sending'[t]
    BY <1>1 DEF Touches
  <2>. QED
    BY <1>3, <1>4, <1>6, <2>1, <2>2 DEF AskInv, AddedIsUnsent
<1>11. AskedIsSent'
  BY <1>2, <1>3, <1>6 DEF AskInv, AskedIsSent
<1>12. Once(inbox') /\ SentOnce'
  BY DEF AskInv, SentOnce
<1>. QED
  BY <1>7, <1>8, <1>9, <1>10, <1>11, <1>12 DEF AskInv

\* The leader takes a request it holds up.
LEMMA ForwardStep ==
  ASSUME AskInv, RequestTypes', NEW t \in Tabs, NEW r \in Requests, r \in held[t],
         held' = [held EXCEPT ![t] = @ \ {r}],
         adding' = [adding EXCEPT ![t] = @ \cup {r}],
         UNCHANGED <<inbox, call, sending, sent, atWallet, leader>>
  PROVE  AskInv'
<1>1. t = leader /\ t # call[r].tab /\ ~Touches(t, r) /\ NotByItsOwn(r)
      /\ ~Unmade(call[r])
  BY DEF AskInv, HeldIsUnsent, UnmadeIsUnknown
<1>2. ~On(inbox, t, r)
  BY DEF AskInv, OnItsWayIsUnsent
<1>3. /\ \A u \in Tabs : held'[u] \subseteq held[u]
      /\ r \notin held'[t]
      /\ \A u \in Tabs, q \in Requests : q # r \/ u # t => (q \in adding'[u] <=> q \in adding[u])
  BY DEF AskInv, RequestTypes
<1>4. \A u \in Tabs, q \in Requests : q # r \/ u # t => (Touches(u, q)' <=> Touches(u, q))
  BY <1>3 DEF Touches
<1>5. \A q \in Requests : NotByItsOwn(q)' <=> NotByItsOwn(q)
  BY <1>1, <1>4 DEF NotByItsOwn
<1>6. UnmadeIsUnknown'
  BY <1>1, <1>3, <1>4 DEF AskInv, UnmadeIsUnknown
<1>7. OnItsWayIsUnsent'
  BY <1>2, <1>3, <1>4, <1>5 DEF AskInv, OnItsWayIsUnsent
<1>8. HeldIsUnsent'
  BY <1>3, <1>4, <1>5 DEF AskInv, HeldIsUnsent
<1>9. AddedIsUnsent'
  <2>1. sent'[t][r] = 0 /\ r \notin sending'[t]
    BY <1>1 DEF Touches
  <2>. QED
    BY <1>1, <1>3, <1>5, <2>1 DEF AskInv, AddedIsUnsent
<1>10. AskedIsSent'
  BY <1>5 DEF AskInv, AskedIsSent
<1>11. Once(inbox') /\ SentOnce'
  BY DEF AskInv, SentOnce
<1>. QED
  BY <1>6, <1>7, <1>8, <1>9, <1>10, <1>11 DEF AskInv

\* A request is added to openRequests.
LEMMA AddStep ==
  ASSUME AskInv, RequestTypes', NEW t \in Tabs, NEW r \in Requests, r \in adding[t],
         adding' = [adding EXCEPT ![t] = @ \ {r}],
         sending' = [sending EXCEPT ![t] = @ \cup {r}],
         call' = call \/ call' = [call EXCEPT ![r].at = "waiting"],
         UNCHANGED <<inbox, held, sent, atWallet, leader>>
  PROVE  AskInv'
<1>1. Touches(t, r) /\ ~Unmade(call[r])
  BY DEF AskInv, UnmadeIsUnknown, Touches
<1>2. \A q \in Requests : /\ call'[q].tab = call[q].tab
                          /\ Unmade(call'[q]) => Unmade(call[q])
  BY DEF AskInv, RequestTypes, CallStates, Unmade
<1>3. \A u \in Tabs, q \in Requests :
        /\ q \in adding'[u] => q \in adding[u] /\ ~(u = t /\ q = r)
        /\ q \in sending'[u] => q \in sending[u] \/ (u = t /\ q = r)
  BY DEF AskInv, RequestTypes
<1>4. \A u \in Tabs, q \in Requests : Touches(u, q)' => Touches(u, q)
  BY <1>1, <1>3 DEF Touches
<1>5. \A q \in Requests : NotByItsOwn(q) => NotByItsOwn(q)'
  BY <1>2, <1>4 DEF NotByItsOwn
<1>6. UnmadeIsUnknown'
  BY <1>2, <1>4 DEF AskInv, UnmadeIsUnknown
<1>7. OnItsWayIsUnsent'
  BY <1>2, <1>4, <1>5 DEF AskInv, OnItsWayIsUnsent
<1>8. HeldIsUnsent'
  BY <1>2, <1>4, <1>5 DEF AskInv, HeldIsUnsent
<1>9. AddedIsUnsent'
  BY <1>2, <1>3, <1>5 DEF AskInv, AddedIsUnsent
<1>10. AskedIsSent'
  BY <1>2, <1>5 DEF AskInv, AskedIsSent
<1>11. Once(inbox') /\ SentOnce'
  BY DEF AskInv, SentOnce
<1>. QED
  BY <1>6, <1>7, <1>8, <1>9, <1>10, <1>11 DEF AskInv

\* A request is sent.
LEMMA SendStep ==
  ASSUME AskInv, RequestTypes', NEW t \in Tabs, NEW r \in Requests, r \in sending[t],
         sending' = [sending EXCEPT ![t] = @ \ {r}],
         sent' = [sent EXCEPT ![t][r] = @ + 1],
         atWallet' \subseteq atWallet \cup {<<r, t>>},
         UNCHANGED <<inbox, held, adding, call, leader>>
  PROVE  AskInv'
<1>1. /\ Touches(t, r) /\ sent[t][r] = 0 /\ r \notin adding[t]
      /\ t = call[r].tab \/ (t = leader /\ NotByItsOwn(r))
  BY DEF AskInv, AddedIsUnsent, Touches
<1>2. /\ \A u \in Tabs, q \in Requests : q # r \/ u # t => sent'[u][q] = sent[u][q]
      /\ sent'[t][r] = 1
      /\ r \notin sending'[t]
      /\ \A u \in Tabs, q \in Requests : q # r \/ u # t => (q \in sending'[u] <=> q \in sending[u])
  BY <1>1 DEF AskInv, RequestTypes
<1>3. \A u \in Tabs, q \in Requests : Touches(u, q)' <=> Touches(u, q)
  BY <1>1, <1>2 DEF Touches
<1>4. \A q \in Requests : NotByItsOwn(q)' <=> NotByItsOwn(q)
  BY <1>3 DEF NotByItsOwn
<1>5. \A u \in Tabs : <<r, u>> \notin atWallet
  BY <1>1 DEF AskInv, AskedIsSent, NotByItsOwn, Touches
<1>6. UnmadeIsUnknown'
  BY <1>3 DEF AskInv, UnmadeIsUnknown
<1>7. OnItsWayIsUnsent'
  BY <1>3, <1>4 DEF AskInv, OnItsWayIsUnsent
<1>8. HeldIsUnsent'
  BY <1>3, <1>4 DEF AskInv, HeldIsUnsent
<1>9. AddedIsUnsent'
  BY <1>1, <1>2, <1>4 DEF AskInv, AddedIsUnsent
<1>10. AskedIsSent'
  BY <1>1, <1>2, <1>4, <1>5 DEF AskInv, AskedIsSent
<1>11. SentOnce'
  <2>1. \A u \in Tabs, q \in Requests : sent'[u][q] <= 1
    BY <1>2 DEF AskInv, SentOnce
  <2>2. ASSUME NEW p \in atWallet', NEW q \in atWallet', p[1] = q[1]
        PROVE  p = q
    <3>1. PICK p1 \in Requests, p2 \in Tabs : p = <<p1, p2>>
      BY DEF RequestTypes
    <3>2. PICK q1 \in Requests, q2 \in Tabs : q = <<q1, q2>>
      BY DEF RequestTypes
    <3>3. p1 = q1
      BY <2>2, <3>1, <3>2
    <3>4. CASE p1 = r
      BY <1>5, <3>1, <3>2, <3>3, <3>4
    <3>5. CASE p1 # r
      BY <2>2, <3>1, <3>2, <3>3, <3>5 DEF AskInv, SentOnce
    <3>. QED
      BY <3>4, <3>5
  <2>. QED
    BY <2>1, <2>2 DEF SentOnce
<1>. QED
  BY <1>6, <1>7, <1>8, <1>9, <1>10, <1>11 DEF AskInv

\* A page posts a request that was not made before.
LEMMA PostStep ==
  ASSUME AskInv, RequestTypes', NEW t \in Tabs, NEW r \in Requests,
         call[r].tab = t, Unmade(call[r]), call' = [call EXCEPT ![r].at = "posted"],
         inbox' = Posted(inbox, t, Post(r)),
         UNCHANGED <<held, adding, sending, sent, atWallet, leader>>
  PROVE  AskInv'
<1>0. /\ \A u \in Tabs, q \in Requests : Touches(u, q)' <=> Touches(u, q)
      /\ \A q \in Requests : q # r => (NotByItsOwn(q)' <=> NotByItsOwn(q))
  BY DEF Touches, NotByItsOwn, AskInv, RequestTypes
<1>1. \A u \in Tabs : ~On(inbox, u, r) /\ r \notin held[u] /\ ~Touches(u, r)
  BY DEF AskInv, UnmadeIsUnknown
<1>2. /\ \A q \in Requests : q # r => call'[q] = call[q]
      /\ ~Unmade(call'[r]) /\ call'[r].tab = t
  BY DEF AskInv, RequestTypes, CallStates, Unmade
<1>3. /\ Post(r) \in Messages
      /\ \A u \in Tabs : inbox[u] \in Seq(Messages)
      /\ inbox'[t] = inbox[t]
      /\ \A u \in Tabs : inbox'[u] = inbox[u] \/ inbox'[u] = Append(inbox[u], Post(r))
  BY DEF AskInv, RequestTypes, Inboxes, Posted, Post, Messages
<1>4. ASSUME NEW u \in Tabs, NEW q \in Requests, q # r,
             NEW i \in 1..Len(inbox'[u]), inbox'[u][i] = Post(q)
      PROVE  i \in 1..Len(inbox[u]) /\ inbox[u][i] = Post(q)
  <2>1. Post(r) # Post(q)
    BY <1>4 DEF Post
  <2>2. CASE inbox'[u] = inbox[u]
    BY <1>4, <2>2
  <2>3. CASE inbox'[u] = Append(inbox[u], Post(r))
    BY <1>3, <1>4, <2>1, <2>3, AppendKeepsPosts
  <2>. QED
    BY <1>3, <2>2, <2>3
<1>5. ASSUME NEW u \in Tabs, NEW i \in 1..Len(inbox'[u]), inbox'[u][i] = Post(r)
      PROVE  u # t /\ i = Len(inbox[u]) + 1
  <2>1. \A j \in 1..Len(inbox[u]) : inbox[u][j] # Post(r)
    BY <1>1 DEF On
  <2>2. inbox'[u] = Append(inbox[u], Post(r))
    BY <1>3, <1>5, <2>1
  <2>3. Len(inbox'[u]) = Len(inbox[u]) + 1 /\ Len(inbox[u]) \in Nat
    BY <1>3, <2>2
  <2>4. i \notin 1..Len(inbox[u])
    BY <1>3, <1>5, <2>1, <2>2
  <2>. QED
    BY <1>3, <1>5, <2>2, <2>3, <2>4
<1>6. \A u \in Tabs, q \in Requests : On(inbox', u, q) => On(inbox, u, q) \/ (q = r /\ u # t)
  BY <1>4, <1>5 DEF On
<1>7. Once(inbox')
  <2>1. ASSUME NEW u \in Tabs, NEW q \in Requests,
               NEW i \in 1..Len(inbox'[u]), NEW j \in 1..Len(inbox'[u]),
               inbox'[u][i] = Post(q), inbox'[u][j] = Post(q)
        PROVE  i = j
    <3>1. CASE q = r
      BY <1>5, <2>1, <3>1
    <3>2. CASE q # r
      BY <1>4, <2>1, <3>2 DEF AskInv, Once
    <3>. QED
      BY <3>1, <3>2
  <2>. QED
    BY <2>1 DEF Once
<1>8. UnmadeIsUnknown'
  BY <1>0, <1>2, <1>6 DEF AskInv, UnmadeIsUnknown
<1>9. OnItsWayIsUnsent'
  <2>1. NotByItsOwn(r)'
    BY <1>0, <1>1, <1>2 DEF NotByItsOwn
  <2>. QED
    BY <1>0, <1>1, <1>2, <1>6, <2>1 DEF AskInv, OnItsWayIsUnsent
<1>10. HeldIsUnsent'
  BY <1>0, <1>1, <1>2 DEF AskInv, HeldIsUnsent
<1>11. AddedIsUnsent'
  BY <1>0, <1>1, <1>2 DEF AskInv, AddedIsUnsent, Touches
<1>12. AskedIsSent'
  BY <1>0, <1>1, <1>2 DEF AskInv, AskedIsSent, Touches
<1>13. SentOnce'
  BY DEF AskInv, SentOnce
<1>. QED
  BY <1>7, <1>8, <1>9, <1>10, <1>11, <1>12, <1>13 DEF AskInv

\* A page takes a request from its inbox, and holds it if it leads.
LEMMA TakeStep ==
  ASSUME AskInv, RequestTypes', NEW t \in Tabs, NEW r \in Requests,
         inbox[t] # <<>>, Head(inbox[t]) = Post(r),
         inbox' = [inbox EXCEPT ![t] = Tail(@)],
         held' = IF IsLeader(t) THEN [held EXCEPT ![t] = @ \cup {r}] ELSE held,
         UNCHANGED <<adding, sending, sent, atWallet, call, leader>>
  PROVE  AskInv'
<1>1. Calm(inbox', inbox) /\ ~On(inbox', t, r)
  BY TakenIsCalm DEF AskInv, RequestTypes
<1>2. On(inbox, t, r)
  <2>1. inbox[t] \in Seq(Messages)
    BY DEF AskInv, RequestTypes, Inboxes
  <2>2. 1 \in 1..Len(inbox[t]) /\ inbox[t][1] = Post(r)
    BY <2>1
  <2>. QED
    BY <2>2 DEF On
<1>3. t # call[r].tab /\ ~Touches(t, r) /\ NotByItsOwn(r) /\ ~Unmade(call[r])
  BY <1>2 DEF AskInv, OnItsWayIsUnsent, UnmadeIsUnknown
<1>4. \A u \in Tabs, q \in Requests :
        q \in held'[u] => q \in held[u] \/ (q = r /\ u = t /\ leader = t)
  BY DEF AskInv, RequestTypes, IsLeader
<1>5. Once(inbox') /\ \A u \in Tabs, q \in Requests : On(inbox', u, q) => On(inbox, u, q)
  BY <1>1 DEF AskInv, Calm
<1>6. /\ \A u \in Tabs, q \in Requests : Touches(u, q)' <=> Touches(u, q)
      /\ \A q \in Requests : NotByItsOwn(q)' <=> NotByItsOwn(q)
  BY DEF Touches, NotByItsOwn
<1>7. UnmadeIsUnknown'
  BY <1>3, <1>4, <1>5, <1>6 DEF AskInv, UnmadeIsUnknown
<1>8. OnItsWayIsUnsent'
  <2>1. ASSUME NEW u \in Tabs, NEW q \in Requests, On(inbox', u, q)
        PROVE  /\ q \notin held'[u] /\ ~Touches(u, q)' /\ u # call'[q].tab
               /\ NotByItsOwn(q)'
    <3>1. On(inbox, u, q) /\ ~(q = r /\ u = t)
      BY <1>1, <1>5, <2>1
    <3>. QED
      BY <1>4, <1>6, <3>1 DEF AskInv, OnItsWayIsUnsent
  <2>. QED
    BY <2>1 DEF OnItsWayIsUnsent
<1>9. HeldIsUnsent'
  BY <1>3, <1>4, <1>6 DEF AskInv, HeldIsUnsent
<1>10. AddedIsUnsent'
  BY <1>6 DEF AskInv, AddedIsUnsent
<1>11. AskedIsSent' /\ SentOnce'
  BY <1>6 DEF AskInv, AskedIsSent, SentOnce
<1>. QED
  BY <1>5, <1>7, <1>8, <1>9, <1>10, <1>11 DEF AskInv

-----------------------------------------------------------------------------
(***************************************************************************)
(* The actions                                                             *)
(***************************************************************************)

\* A step that makes no call its page had not made and changes no page of a call
\* that was made.
CallsGoOn ==
  /\ call' \in [Requests -> CallStates]
  /\ \A r \in Requests : /\ call'[r].tab = call[r].tab \/ Unmade(call[r])
                         /\ Unmade(call'[r]) => Unmade(call[r])

\* A step that brings, takes and sends nothing, and leaves the leader.
LEMMA CalmStep ==
  ASSUME AskInv, CallsGoOn, Calm(inbox', inbox), atWallet' \subseteq atWallet,
         UNCHANGED <<held, adding, sending, sent, leader>>
  PROVE  AskInv'
<1>1. RequestTypes'
  BY DEF AskInv, RequestTypes, CallsGoOn, Calm
<1>. QED
  BY <1>1, QuietStep DEF CallsGoOn

LEMMA CallsUnchanged == ASSUME RequestTypes, UNCHANGED call PROVE CallsGoOn
  BY DEF CallsGoOn, RequestTypes

\* The state of one call is set.
LEMMA CallIsSet ==
  ASSUME RequestTypes, NEW r \in Requests, NEW x,
         x \in {"pairing", "relaying", "waiting", "answered", "aborted", "refused", "undefined"},
         x \in {"pairing", "relaying"} => Unmade(call[r]),
         call' = [call EXCEPT ![r].at = x]
  PROVE  CallsGoOn
<1>1. call[r] \in CallStates
  BY DEF RequestTypes
<1>2. \A q \in Requests : call'[q] = IF q = r THEN [call[r] EXCEPT !.at = x] ELSE call[q]
  BY DEF RequestTypes
<1>3. /\ [call[r] EXCEPT !.at = x] \in CallStates
      /\ [call[r] EXCEPT !.at = x].tab = call[r].tab
      /\ [call[r] EXCEPT !.at = x].at = x
  BY <1>1 DEF CallStates
<1>4. call' \in [Requests -> CallStates]
  BY <1>3 DEF RequestTypes
<1>5. Unmade([call[r] EXCEPT !.at = x]) => Unmade(call[r])
  BY <1>3 DEF Unmade
<1>. QED
  BY <1>2, <1>3, <1>4, <1>5 DEF CallsGoOn

LEMMA RejectedCallsGoOn ==
  ASSUME RequestTypes, NEW t \in Tabs, RejectOpen(t)
  PROVE  CallsGoOn
<1>1. \A r \in Requests : call'[r] = call[r] \/ call'[r] = [call[r] EXCEPT !.at = "aborted"]
  BY DEF RejectOpen
<1>2. \A r \in Requests : /\ call[r] \in CallStates
                          /\ [call[r] EXCEPT !.at = "aborted"] \in CallStates
                          /\ [call[r] EXCEPT !.at = "aborted"].tab = call[r].tab
                          /\ [call[r] EXCEPT !.at = "aborted"].at = "aborted"
  BY DEF RequestTypes, CallStates
<1>3. call' \in [Requests -> CallStates]
  BY <1>2 DEF RejectOpen
<1>4. \A r \in Requests : ~Unmade([call[r] EXCEPT !.at = "aborted"])
  BY <1>2 DEF Unmade
<1>. QED
  BY <1>1, <1>2, <1>3, <1>4 DEF CallsGoOn

\* Clearing the account asks the wallet for nothing.
LEMMA ClearingIsCalm ==
  ASSUME RequestTypes, NEW t \in Tabs, NEW in \in Inboxes, NEW ev, SetActiveAccount(t, in, ev)
  PROVE  CallsGoOn /\ Calm(inbox', in) /\ UNCHANGED <<held, adding, sending, sent, leader, atWallet>>
<1>1. CASE inbox' = in /\ UNCHANGED call
  BY <1>1, CallsUnchanged, CalmSame DEF SetActiveAccount, election
<1>2. CASE inbox' = Posted(in, t, [type |-> "DISCONNECT"]) /\ RejectOpen(t)
  <2>1. [type |-> "DISCONNECT"] \in Messages
    BY DEF Messages
  <2>2. Calm(inbox', in)
    BY <1>2, <2>1, PostedIsCalm
  <2>. QED
    BY <1>2, <2>2, RejectedCallsGoOn DEF SetActiveAccount, election
<1>. QED
  BY <1>1, <1>2 DEF SetActiveAccount

\* Nor does an answer.
LEMMA AnsweringIsCalm ==
  ASSUME RequestTypes, NEW t \in Tabs, NEW r \in Requests, NEW in \in Inboxes,
         HandleResponse(t, r, in)
  PROVE  CallsGoOn /\ Calm(inbox', in) /\ UNCHANGED <<held, adding, sending, sent, leader>>
<1>1. CASE r \in others[t]
  <2>1. [type |-> "RESPONSE", id |-> r] \in Messages
    BY DEF Messages
  <2>2. Calm(inbox', in)
    BY <1>1, <2>1, PostedIsCalm DEF HandleResponse
  <2>. QED
    BY <1>1, <2>2, CallsUnchanged DEF HandleResponse
<1>2. CASE r \notin others[t]
  <2>1. CallsGoOn
    <3>1. UNCHANGED call \/ call' = [call EXCEPT ![r].at = "answered"]
      BY <1>2 DEF HandleResponse, Settle
    <3>. QED
      BY <3>1, CallsUnchanged, CallIsSet
  <2>2. Calm(inbox', in)
    BY <1>2, CalmSame DEF HandleResponse
  <2>. QED
    BY <2>1, <2>2 DEF HandleResponse
<1>. QED
  BY <1>1, <1>2

\* makeRequest has checked a request of its page, or refuses it.
LEMMA CheckedStep ==
  ASSUME AskInv, NEW t \in Tabs, NEW r \in Requests,
         call[r].tab = t, Unmade(call[r]), Check(t, r),
         UNCHANGED <<inbox, held, sending, sent, atWallet, leader>>
  PROVE  AskInv'
<1>0. RequestTypes /\ Calm(inbox', inbox)
  BY CalmSame DEF AskInv, RequestTypes
<1>1. CASE CheckPermissions(t, r)
  <2>1. /\ call' = [call EXCEPT ![r].at = "passed"]
        /\ adding' = [adding EXCEPT ![t] = @ \cup {r}]
    BY <1>1 DEF Check
  <2>2. adding' \in [Tabs -> SUBSET Requests] /\ call' \in [Requests -> CallStates]
    BY <1>0, <2>1 DEF RequestTypes, CallStates
  <2>3. RequestTypes'
    BY <1>0, <2>2 DEF RequestTypes
  <2>. QED
    BY <2>1, <2>3, CheckStep
<1>2. CASE ~CheckPermissions(t, r)
  <2>1. call' = [call EXCEPT ![r].at = "refused"] /\ UNCHANGED adding
    BY <1>2 DEF Check
  <2>2. CallsGoOn
    BY <1>0, <2>1, CallIsSet
  <2>. QED
    BY <1>0, <2>1, <2>2, CalmStep
<1>. QED
  BY <1>1, <1>2

LEMMA NextKeepsAskInv == AskInv /\ [Next]_vars => AskInv'
<1>. SUFFICES ASSUME AskInv, [Next]_vars PROVE AskInv'
  OBVIOUS
<1>. USE DEF election, transport, storage, requests, bounds
<1>0. RequestTypes /\ inbox \in Inboxes /\ Calm(inbox, inbox)
  BY CalmSame DEF AskInv, RequestTypes
<1>1. CASE UNCHANGED vars
  BY <1>0, <1>1, CalmStep, CallsUnchanged DEF vars
<1>2. ASSUME NEW t \in Tabs, Elected(t)
      PROVE  AskInv'
  <2>1. \A u \in Tabs : leader # u
    BY <1>2, TabsAssumption DEF Elected, HasLeader
  <2>2. UNCHANGED <<inbox, held, adding, sending, sent, atWallet, call>>
    BY <1>2 DEF Elected
  <2>3. RequestTypes'
    BY <1>0, <2>2 DEF RequestTypes
  <2>. QED
    BY <1>0, <2>1, <2>2, <2>3, QuietStep
<1>3. ASSUME NEW t \in Tabs, Connected(t) \/ ConnectedLate(t) \/ ChannelClosed(t) \/ Load(t)
      PROVE  AskInv'
  <2>1. UNCHANGED <<inbox, held, adding, sending, sent, atWallet, call, leader>>
    BY <1>3 DEF Connected, ConnectedLate, ChannelClosed, Load
  <2>. QED
    BY <1>0, <2>1, CalmStep, CallsUnchanged
<1>4. ASSUME NEW t \in Tabs, RelayerError(t) \/ Disconnected(t)
      PROVE  AskInv'
  <2>1. /\ UNCHANGED <<inbox, held, adding, sending, sent, leader>>
        /\ atWallet' \subseteq atWallet
        /\ UNCHANGED call \/ RejectOpen(t)
    BY <1>4 DEF RelayerError, ResetInvalidState, Disconnected
  <2>. QED
    BY <1>0, <2>1, CalmStep, CallsUnchanged, RejectedCallsGoOn
<1>5. ASSUME NEW t \in Tabs, OnBCMessage(t)
      PROVE  AskInv'
  <2>. DEFINE m == Head(inbox[t])
              in == [inbox EXCEPT ![t] = Tail(@)]
  <2>1. inbox[t] # <<>> /\ Calm(in, inbox) /\ in \in Inboxes
    BY <1>0, <1>5, TakenIsCalm DEF OnBCMessage, Calm
  <2>2. m \in Messages
    BY <1>0, <2>1 DEF Inboxes
  <2>. HIDE DEF m, in
  <2>3. CASE m.type = "REQUEST" /\ PrepareRequest(t, in)
    <3>1. m.id \in Requests /\ m = Post(m.id)
      BY <2>2, <2>3 DEF Messages, Post
    <3>2. /\ inbox' = [inbox EXCEPT ![t] = Tail(@)]
          /\ held' = IF IsLeader(t) THEN [held EXCEPT ![t] = @ \cup {m.id}] ELSE held
          /\ UNCHANGED <<adding, sending, sent, atWallet, call, leader>>
      BY <2>3 DEF PrepareRequest, m, in
    <3>3. RequestTypes'
      <4>1. held' \in [Tabs -> SUBSET Requests]
        BY <1>0, <3>1, <3>2 DEF RequestTypes
      <4>2. inbox' \in Inboxes
        BY <2>1, <3>2 DEF in
      <4>. QED
        BY <1>0, <3>2, <4>1, <4>2 DEF RequestTypes
    <3>. QED
      BY <2>1, <3>1, <3>2, <3>3, TakeStep DEF m
  <2>4. CASE m.type = "RESPONSE" /\ HandleResponse(t, m.id, in) /\ UNCHANGED atWallet
    <3>1. m.id \in Requests
      BY <2>2, <2>4 DEF Messages
    <3>. QED
      BY <1>0, <2>1, <2>4, <3>1, AnsweringIsCalm, CalmTransitive, CalmStep
  <2>5. CASE SetActiveAccount(t, in, events)
    BY <1>0, <2>1, <2>5, ClearingIsCalm, CalmTransitive, CalmStep
  <2>6. CASE inbox' = in /\ UNCHANGED <<requests, leader>>
    BY <1>0, <2>1, <2>6, CallsUnchanged, CalmStep
  <2>. QED
    BY <1>5, <2>3, <2>4, <2>5, <2>6 DEF OnBCMessage, AwaitLeadership, m, in
<1>6. ASSUME NEW t \in Tabs, StorageChanged(t) \/ Disconnect(t)
      PROVE  AskInv'
  <2>1. CASE \E ev : SetActiveAccount(t, inbox, ev)
    BY <1>0, <2>1, ClearingIsCalm, CalmStep
  <2>2. CASE UNCHANGED <<inbox, requests, leader>>
    BY <1>0, <2>2, CallsUnchanged, CalmStep
  <2>. QED
    BY <1>6, <2>1, <2>2 DEF StorageChanged, Disconnect
<1>7. ASSUME NEW t \in Tabs, Close(t)
      PROVE  AskInv'
  <2>. DEFINE in1 == Posted(inbox, t, [type |-> "LEADER_DEAD"])
  <2>1. [type |-> "LEADER_DEAD"] \in Messages
    BY DEF Messages
  <2>2. in1 \in Inboxes /\ Calm(in1, inbox)
    BY <1>0, <2>1, PostedIsCalm DEF Calm
  <2>3. inbox' = [in1 EXCEPT ![t] = <<>>] \/ inbox' = [inbox EXCEPT ![t] = <<>>]
    BY <1>7 DEF Close
  <2>. HIDE DEF in1
  <2>4. Calm(inbox', inbox)
    BY <1>0, <2>2, <2>3, EmptiedIsCalm, CalmTransitive
  <2>5. /\ held' = [held EXCEPT ![t] = {}]
        /\ adding' = [adding EXCEPT ![t] = {}]
        /\ sending' = [sending EXCEPT ![t] = {}]
        /\ atWallet' = {p \in atWallet : p[2] # t}
        /\ leader' = IF leader = t THEN NoTab ELSE leader
        /\ call' = [r \in Requests |-> IF call[r].tab = t THEN [call[r] EXCEPT !.at = "gone"]
                                       ELSE call[r]]
        /\ UNCHANGED sent
    BY <1>7 DEF Close, IsLeader
  <2>6. CallsGoOn
    <3>1. \A r \in Requests : /\ call[r] \in CallStates
                              /\ [call[r] EXCEPT !.at = "gone"] \in CallStates
                              /\ [call[r] EXCEPT !.at = "gone"].tab = call[r].tab
                              /\ [call[r] EXCEPT !.at = "gone"].at = "gone"
      BY <1>0 DEF RequestTypes, CallStates
    <3>2. call' \in [Requests -> CallStates]
      BY <2>5, <3>1
    <3>3. \A r \in Requests : ~Unmade([call[r] EXCEPT !.at = "gone"])
      BY <3>1 DEF Unmade
    <3>4. \A r \in Requests : call'[r] = call[r] \/ call'[r] = [call[r] EXCEPT !.at = "gone"]
      BY <2>5
    <3>. QED
      BY <3>1, <3>2, <3>3, <3>4 DEF CallsGoOn
  <2>7. /\ held' \in [Tabs -> SUBSET Requests]
        /\ adding' \in [Tabs -> SUBSET Requests]
        /\ sending' \in [Tabs -> SUBSET Requests]
        /\ \A u \in Tabs : /\ held'[u] \subseteq held[u]
                           /\ adding'[u] \subseteq adding[u]
                           /\ sending'[u] \subseteq sending[u]
        /\ held'[t] = {} /\ adding'[t] = {} /\ sending'[t] = {}
    BY <1>0, <2>5 DEF RequestTypes
  <2>8. RequestTypes'
    BY <1>0, <2>4, <2>5, <2>6, <2>7 DEF RequestTypes, CallsGoOn, Calm
  <2>9. \A r \in Requests : <<r, t>> \notin atWallet'
    BY <2>5
  <2>10. \A u \in Tabs : leader = u => leader' = u \/ u = t
    BY <2>5
  <2>. QED
    BY <2>4, <2>5, <2>6, <2>7, <2>8, <2>9, <2>10, QuietStep DEF CallsGoOn
<1>8. ASSUME NEW t \in Tabs, NEW r \in Requests, CheckMakeRequest(t, r)
      PROVE  AskInv'
  <2>1. /\ UNCHANGED <<inbox, held, adding, sending, sent, atWallet, leader>>
        /\ call[r] = NoCall
        /\ \E k \in {"operation", "permission"}, x \in {"linked", "checking"} :
             call' = [call EXCEPT ![r] = [tab |-> t, kind |-> k, at |-> x]]
    BY <1>8 DEF CheckMakeRequest, ChannelInit
  <2>2. Unmade(call[r])
    BY <2>1 DEF Unmade, NoCall
  <2>3. PICK c : /\ c \in CallStates
                 /\ call' = [call EXCEPT ![r] = c]
    BY <2>1 DEF CallStates
  <2>4. CallsGoOn
    BY <1>0, <2>2, <2>3 DEF CallsGoOn, RequestTypes
  <2>. QED
    BY <1>0, <2>1, <2>4, CalmStep
<1>9. ASSUME NEW t \in Tabs, NEW r \in Requests, MakeRequest(t, r) \/ Paired(t, r)
      PROVE  AskInv'
  <2>1. /\ UNCHANGED <<inbox, held, sending, sent, atWallet, leader>>
        /\ call[r].tab = t
        /\ Unmade(call[r])
    BY <1>9 DEF MakeRequest, Paired, GoesOn, Unmade
  <2>2. CASE Check(t, r)
    BY <2>1, <2>2, CheckedStep
  <2>3. CASE UNCHANGED <<adding, call>>
    BY <1>0, <2>1, <2>3, CallsUnchanged, CalmStep
  <2>4. CASE call' = [call EXCEPT ![r].at = "pairing"] /\ UNCHANGED adding
    <3>1. CallsGoOn
      BY <1>0, <2>1, <2>4, CallIsSet
    <3>. QED
      BY <1>0, <2>1, <2>4, <3>1, CalmStep
  <2>. QED
    BY <1>9, <2>2, <2>3, <2>4 DEF MakeRequest, Paired
<1>10. ASSUME NEW t \in Tabs, NEW r \in Requests, AddOpenRequest(t, r)
       PROVE  AskInv'
  <2>1. /\ r \in adding[t]
        /\ adding' = [adding EXCEPT ![t] = @ \ {r}]
        /\ sending' = [sending EXCEPT ![t] = @ \cup {r}]
        /\ call' = call \/ call' = [call EXCEPT ![r].at = "waiting"]
        /\ UNCHANGED <<inbox, held, sent, atWallet, leader>>
    BY <1>10 DEF AddOpenRequest
  <2>2. /\ adding' \in [Tabs -> SUBSET Requests] /\ sending' \in [Tabs -> SUBSET Requests]
        /\ call' \in [Requests -> CallStates]
    <3>1. [call[r] EXCEPT !.at = "waiting"] \in CallStates
      BY <1>0 DEF RequestTypes, CallStates
    <3>. QED
      BY <1>0, <2>1, <3>1 DEF RequestTypes
  <2>3. RequestTypes'
    BY <1>0, <2>1, <2>2 DEF RequestTypes
  <2>. QED
    BY <2>1, <2>3, AddStep
<1>11. ASSUME NEW t \in Tabs, NEW r \in Requests, Send(t, r)
       PROVE  AskInv'
  <2>1. /\ r \in sending[t]
        /\ sending' = [sending EXCEPT ![t] = @ \ {r}]
        /\ sent' = [sent EXCEPT ![t][r] = @ + 1]
        /\ atWallet' \subseteq atWallet \cup {<<r, t>>}
        /\ UNCHANGED <<inbox, held, adding, call, leader>>
    BY <1>11 DEF Send
  <2>2. /\ sending' \in [Tabs -> SUBSET Requests] /\ sent' \in [Tabs -> [Requests -> Nat]]
        /\ atWallet' \subseteq Requests \X Tabs
    BY <1>0, <2>1 DEF RequestTypes
  <2>3. RequestTypes'
    BY <1>0, <2>1, <2>2 DEF RequestTypes
  <2>. QED
    BY <2>1, <2>3, SendStep
<1>12. ASSUME NEW t \in Tabs, NEW r \in Requests, MakeRequestBC(t, r)
       PROVE  AskInv'
  <2>1. PICK x \in {"undefined", "relaying"} : call' = [call EXCEPT ![r].at = x]
    BY <1>12 DEF MakeRequestBC
  <2>2. Unmade(call[r]) /\ UNCHANGED <<inbox, held, adding, sending, sent, atWallet, leader>>
    BY <1>12 DEF MakeRequestBC, GoesOn, Unmade
  <2>3. CallsGoOn
    BY <1>0, <2>1, <2>2, CallIsSet
  <2>. QED
    BY <1>0, <2>2, <2>3, CalmStep
<1>13. ASSUME NEW t \in Tabs, NEW r \in Requests, RelayRequest(t, r)
       PROVE  AskInv'
  <2>1. /\ UNCHANGED <<held, adding, sending, sent, atWallet, leader>>
        /\ call[r].tab = t /\ Unmade(call[r])
        /\ call' = [call EXCEPT ![r].at = "posted"]
        /\ inbox' = Posted(inbox, t, [type |-> "REQUEST", id |-> r])
    BY <1>13 DEF RelayRequest, Unmade
  <2>2. inbox' \in Inboxes
    <3>1. [type |-> "REQUEST", id |-> r] \in Messages
      BY DEF Messages
    <3>2. \A u \in Tabs : /\ inbox[u] \in Seq(Messages)
                          /\ Append(inbox[u], [type |-> "REQUEST", id |-> r]) \in Seq(Messages)
      BY <1>0, <3>1 DEF Inboxes
    <3>. QED
      BY <2>1, <3>2 DEF Posted, Inboxes
  <2>3. call' \in [Requests -> CallStates]
    BY <1>0, <2>1 DEF RequestTypes, CallStates
  <2>4. RequestTypes'
    BY <1>0, <2>1, <2>2, <2>3 DEF RequestTypes
  <2>. QED
    BY <2>1, <2>4, PostStep DEF Post
<1>14. ASSUME NEW t \in Tabs, NEW r \in Requests, AddRelayed(t, r)
       PROVE  AskInv'
  <2>1. /\ UNCHANGED <<inbox, held, adding, sending, sent, atWallet, leader>>
        /\ call' = [call EXCEPT ![r].at = "waiting"]
    BY <1>14 DEF AddRelayed
  <2>2. CallsGoOn
    BY <1>0, <2>1, CallIsSet
  <2>. QED
    BY <1>0, <2>1, <2>2, CalmStep
<1>15. ASSUME NEW t \in Tabs, NEW r \in Requests, Forward(t, r)
       PROVE  AskInv'
  <2>1. /\ UNCHANGED <<inbox, call, sending, sent, atWallet, leader>>
        /\ r \in held[t]
        /\ held' = [held EXCEPT ![t] = @ \ {r}]
    BY <1>15 DEF Forward
  <2>2. /\ held' \in [Tabs -> SUBSET Requests]
        /\ \A u \in Tabs : held'[u] \subseteq held[u]
    BY <1>0, <2>1 DEF RequestTypes
  <2>3. CASE adding' = [adding EXCEPT ![t] = @ \cup {r}]
    <3>1. adding' \in [Tabs -> SUBSET Requests]
      BY <1>0, <2>3 DEF RequestTypes
    <3>2. RequestTypes'
      BY <1>0, <2>1, <2>2, <3>1 DEF RequestTypes
    <3>. QED
      BY <2>1, <2>3, <3>2, ForwardStep
  <2>4. CASE UNCHANGED adding
    <3>1. RequestTypes'
      BY <1>0, <2>1, <2>2, <2>4 DEF RequestTypes
    <3>. QED
      BY <1>0, <2>1, <2>2, <2>4, <3>1, QuietStep
  <2>. QED
    BY <1>15, <2>3, <2>4 DEF Forward
<1>16. ASSUME NEW t \in Tabs, NEW r \in Requests, Answer(t, r)
       PROVE  AskInv'
  <2>1. atWallet' \subseteq atWallet /\ HandleResponse(t, r, inbox)
    BY <1>16 DEF Answer
  <2>. QED
    BY <1>0, <2>1, AnsweringIsCalm, CalmStep
<1>. QED
  BY <1>1, <1>2, <1>3, <1>4, <1>5, <1>6, <1>7, <1>8, <1>9, <1>10, <1>11, <1>12, <1>13,
     <1>14, <1>15, <1>16 DEF Next, Progress

\* Nothing is asked in the beginning.
LEMMA InitAskInv == Init => AskInv
<1>. SUFFICES ASSUME Init PROVE AskInv
  OBVIOUS
<1>1. RequestTypes
  BY DEF Init, RequestTypes, Inboxes, CallStates, NoCall
<1>2. \A u \in Tabs : Len(inbox[u]) = 0
  BY DEF Init
<1>3. \A u \in Tabs, r \in Requests : ~On(inbox, u, r)
  BY <1>2 DEF On
<1>4. Once(inbox)
  BY <1>2 DEF Once
<1>5. /\ \A u \in Tabs : /\ held[u] = {} /\ adding[u] = {} /\ sending[u] = {}
                         /\ \A r \in Requests : sent[u][r] = 0
      /\ atWallet = {}
  BY DEF Init
<1>6. UnmadeIsUnknown /\ OnItsWayIsUnsent /\ HeldIsUnsent /\ AddedIsUnsent /\ AskedIsSent
      /\ SentOnce
  BY <1>3, <1>5
     DEF UnmadeIsUnknown, OnItsWayIsUnsent, HeldIsUnsent, AddedIsUnsent, AskedIsSent, SentOnce,
         Touches
<1>. QED
  BY <1>1, <1>4, <1>6 DEF AskInv

\* No page sends a request twice, and never do two pages wait for the wallet's
\* answer to one request, for any number of pages that open, lead, take over and
\* close (prepareRequest, DAppClient.ts:557).
THEOREM RequestsAreAskedOnce == Spec => []SentOnce
<1>1. AskInv => SentOnce
  BY DEF AskInv
<1>. QED
  BY <1>1, InitAskInv, NextKeepsAskInv, PTL DEF Spec

-----------------------------------------------------------------------------
(***************************************************************************)
(* The pages and the active account: types                                 *)
(***************************************************************************)

ElectionTypes ==
  /\ page \subseteq Tabs
  /\ leader \in Tabs \cup {NoTab}
  /\ wants \in [Tabs -> SUBSET {"channel", "transport", "takeover"}]
  /\ ready \in [Tabs -> BOOLEAN]
  /\ was \in [Tabs -> BOOLEAN]

EventQueues == [Tabs -> Seq(BOOLEAN)]

StorageTypes ==
  /\ link \in [Tabs -> {"none", "electing", "starting", "connected", "secondary"}]
  /\ usable \in [Tabs -> BOOLEAN]
  /\ account \in [Tabs -> BOOLEAN]
  /\ stored \in BOOLEAN
  /\ events \in EventQueues
  /\ saving \subseteq Tabs
  /\ late \in [Tabs -> Nat]

OpenTypes ==
  /\ open \in [Tabs -> SUBSET Requests]
  /\ others \in [Tabs -> SUBSET Requests]
  /\ clearing \subseteq Tabs
  /\ loads \in 0..MaxLoads
  /\ errors \in 0..MaxErrors
  /\ overlaps \in 0..MaxOverlaps

\* What page t has in memory.
Memory(t) == <<ready[t], was[t], wants[t], link[t], account[t], late[t], open[t], held[t],
               adding[t], sending[t]>>

NoMemory == <<FALSE, FALSE, {}, "none", FALSE, 0, {}, {}, {}, {}>>

\* A closed page has nothing in memory, nothing is on its way to it, and the
\* calls it made are gone.
ClosedIsEmpty(t) ==
  /\ Memory(t) = NoMemory
  /\ inbox[t] = <<>> /\ events[t] = <<>>
  /\ leader # t /\ t \notin clearing /\ t \notin saving
  /\ \A r \in Requests : <<r, t>> \notin atWallet
  /\ \A r \in Requests : call[r].tab = t => call[r].at = "gone"

KeptWithTransport == \A t \in Tabs : account[t] => link[t] # "none"

AccountInv ==
  /\ ElectionTypes
  /\ StorageTypes
  /\ OpenTypes
  /\ \A t \in Tabs \ page : ClosedIsEmpty(t)
  /\ KeptWithTransport

\* These are the parts of TypeOK.
LEMMA AccountInvIsTyped == AskInv /\ AccountInv => TypeOK
<1>. SUFFICES ASSUME AskInv, AccountInv PROVE TypeOK
  OBVIOUS
<1>1. RequestTypes /\ ElectionTypes /\ StorageTypes /\ OpenTypes /\ KeptWithTransport
  BY DEF AskInv, AccountInv
<1>2. \A t \in Tabs \ page : ClosedIsEmpty(t)
  BY DEF AccountInv
<1>3. leader \in page \cup {NoTab}
  BY <1>1, <1>2 DEF ElectionTypes, ClosedIsEmpty
<1>4. atWallet \subseteq Requests \X page
  <2>1. ASSUME NEW p \in atWallet PROVE p \in Requests \X page
    <3>1. PICK r \in Requests, t \in Tabs : p = <<r, t>>
      BY <1>1 DEF RequestTypes
    <3>2. t \in page
      BY <1>2, <2>1, <3>1 DEF ClosedIsEmpty
    <3>. QED
      BY <3>1, <3>2
  <2>. QED
    BY <2>1
<1>5. clearing \subseteq page /\ saving \subseteq page
  BY <1>1, <1>2 DEF OpenTypes, StorageTypes, ClosedIsEmpty
<1>6. \A t \in Tabs \ page : /\ ~ready[t] /\ ~was[t] /\ ~account[t]
                             /\ wants[t] = {} /\ open[t] = {} /\ inbox[t] = <<>>
  BY <1>2 DEF ClosedIsEmpty, Memory, NoMemory
<1>7. \A t \in Tabs : account[t] => link[t] # "none"
  BY <1>1 DEF KeptWithTransport
<1>8. inbox \in [Tabs -> Seq([type : {"REQUEST", "RESPONSE"}, id : Requests]
                             \cup [type : {"DISCONNECT", "LEADER_DEAD"}])]
  BY <1>1 DEF RequestTypes, Inboxes, Messages
<1>9. call \in [Requests ->
       [tab : Tabs \cup {NoTab}, kind : {"none", "permission", "operation"},
        at : {"idle", "checking", "linked", "pairing", "passed", "relaying", "posted",
              "waiting", "answered", "aborted", "refused", "undefined", "gone"}]]
  BY <1>1 DEF RequestTypes, CallStates
<1>. QED
  BY <1>1, <1>3, <1>4, <1>5, <1>6, <1>7, <1>8, <1>9
     DEF TypeOK, RequestTypes, ElectionTypes, StorageTypes, OpenTypes, EventQueues

LEMMA InitAccountInv == Init => AccountInv
<1>. SUFFICES ASSUME Init PROVE AccountInv
  OBVIOUS
<1>1. ElectionTypes /\ StorageTypes /\ OpenTypes
  BY TabsAssumption DEF Init, ElectionTypes, StorageTypes, OpenTypes, EventQueues
<1>2. \A t \in Tabs : Memory(t) = NoMemory
  BY DEF Init, Memory, NoMemory
<1>3. \A r \in Requests : call[r].tab = NoTab
  BY DEF Init, NoCall
<1>4. \A t \in Tabs : ClosedIsEmpty(t)
  BY <1>2, <1>3, TabsAssumption DEF Init, ClosedIsEmpty
<1>5. KeptWithTransport
  BY DEF Init, KeptWithTransport
<1>. QED
  BY <1>1, <1>4, <1>5 DEF AccountInv

-----------------------------------------------------------------------------
(***************************************************************************)
(* The pages and the active account: steps                                 *)
(***************************************************************************)

\* A step of page t, which is open then, changes what is in the memory of no
\* other page and brings nothing to closed pages.
StepOf(t) ==
  /\ page' = page \cup {t}
  /\ \A u \in Tabs : u # t =>
       /\ Memory(u)' = Memory(u)
       /\ u \notin page => inbox'[u] = inbox[u] /\ events'[u] = events[u]
       /\ leader' = u => leader = u
       /\ u \in clearing' <=> u \in clearing
       /\ u \in saving' <=> u \in saving
       /\ \A r \in Requests : <<r, u>> \in atWallet' => <<r, u>> \in atWallet
  /\ \A r \in Requests : call'[r] = call[r] \/ call'[r].tab = t

LEMMA AccountStep ==
  ASSUME AccountInv, ElectionTypes', StorageTypes', OpenTypes', NEW t \in Tabs,
         StepOf(t), account'[t] => link'[t] # "none"
  PROVE  AccountInv'
<1>1. \A u \in Tabs \ page : ClosedIsEmpty(u)
  BY DEF AccountInv
<1>2. ASSUME NEW u \in Tabs \ page' PROVE ClosedIsEmpty(u)'
  <2>1. u # t /\ ClosedIsEmpty(u)
    BY <1>1, <1>2 DEF StepOf
  <2>2. Memory(u)' = NoMemory
    BY <2>1 DEF StepOf, ClosedIsEmpty
  <2>3. \A r \in Requests : call'[r].tab = u => call'[r].at = "gone"
    BY <2>1 DEF StepOf, ClosedIsEmpty
  <2>. QED
    BY <1>2, <2>1, <2>2, <2>3 DEF StepOf, ClosedIsEmpty, NoMemory
<1>3. \A u \in Tabs : u # t => account'[u] = account[u] /\ link'[u] = link[u]
  BY DEF StepOf, Memory
<1>4. KeptWithTransport'
  BY <1>3 DEF AccountInv, KeptWithTransport
<1>. QED
  BY <1>2, <1>4 DEF AccountInv

\* A step that leaves the account and the storage events alone.
LEMMA QuietAccountStep ==
  ASSUME AccountInv, ElectionTypes', StorageTypes', OpenTypes', NEW t \in page,
         StepOf(t), UNCHANGED account, link[t] # "none" => link'[t] # "none"
  PROVE  AccountInv'
<1>1. t \in Tabs
  BY DEF AccountInv, ElectionTypes
<1>2. account'[t] => link'[t] # "none"
  BY <1>1 DEF AccountInv, KeptWithTransport
<1>. QED
  BY <1>1, <1>2, AccountStep

\* Who is told of a value that is stored.
LEMMA ToldTypes ==
  ASSUME NEW ev \in EventQueues, NEW t \in Tabs, NEW value \in BOOLEAN
  PROVE  /\ Told(ev, t, value) \in EventQueues
         /\ \A u \in Tabs : u = t \/ u \notin page => Told(ev, t, value)[u] = ev[u]
         /\ \A u \in Tabs : u # t /\ u \in page =>
              \/ Told(ev, t, value)[u] # <<>>
              \/ Told(ev, t, value)[u] = ev[u] /\ stored = value
<1>1. ASSUME NEW s \in Seq(BOOLEAN)
      PROVE  Append(s, value) \in Seq(BOOLEAN) /\ Append(s, value) # <<>>
  BY AppendProperties
<1>2. \A u \in Tabs : ev[u] \in Seq(BOOLEAN)
  BY DEF EventQueues
<1>3. Told(ev, t, value) \in EventQueues
  BY <1>1, <1>2 DEF Told, EventQueues
<1>. QED
  BY <1>1, <1>2, <1>3 DEF Told

LEMMA PostedTypes ==
  ASSUME NEW in \in Inboxes, NEW t \in Tabs, NEW m
  PROVE  \A u \in Tabs : u \notin page => Posted(in, t, m)[u] = in[u]
BY DEF Posted

\* setActiveAccount and what it does to the transport, in a page that is open.
LEMMA ConnectStep ==
  ASSUME ElectionTypes, StorageTypes, NEW t \in Tabs, Connect(t)
  PROVE  /\ link' \in [Tabs -> {"none", "electing", "starting", "connected", "secondary"}]
         /\ usable' \in [Tabs -> BOOLEAN]
         /\ wants' \in [Tabs -> SUBSET {"channel", "transport", "takeover"}]
         /\ link'[t] # "none"
         /\ \A u \in Tabs : u # t => link'[u] = link[u] /\ wants'[u] = wants[u]
<1>. DEFINE status == CheckIfBCLeaderExists(t)
<1>1. status \in {"electing", "starting", "secondary"}
  BY DEF CheckIfBCLeaderExists
<1>2. /\ link' = [link EXCEPT ![t] = status]
      /\ usable' = [usable EXCEPT ![t] = @ \/ status = "secondary"]
      /\ wants' = wants \/ wants' = [wants EXCEPT ![t] = @ \cup {"transport"}]
  BY DEF Connect
<1>. HIDE DEF status
<1>3. /\ link' \in [Tabs -> {"none", "electing", "starting", "connected", "secondary"}]
      /\ link'[t] # "none" /\ \A u \in Tabs : u # t => link'[u] = link[u]
  BY <1>1, <1>2 DEF StorageTypes
<1>4. usable' \in [Tabs -> BOOLEAN]
  <2>1. (usable[t] \/ status = "secondary") \in BOOLEAN
    OBVIOUS
  <2>. QED
    BY <1>2, <2>1 DEF StorageTypes
<1>5. /\ wants' \in [Tabs -> SUBSET {"channel", "transport", "takeover"}]
      /\ \A u \in Tabs : u # t => wants'[u] = wants[u]
  <2>1. wants[t] \cup {"transport"} \in SUBSET {"channel", "transport", "takeover"}
    BY DEF ElectionTypes
  <2>. QED
    BY <1>2, <2>1 DEF ElectionTypes
<1>. QED
  BY <1>3, <1>4, <1>5

\* What setting or clearing the account in t does, where the events are ev.
Stores(t, ev) ==
  /\ StorageTypes'
  /\ wants' \in [Tabs -> SUBSET {"channel", "transport", "takeover"}]
  /\ account'[t] => link'[t] # "none"
  /\ \A u \in Tabs : u # t =>
       /\ account'[u] = account[u] /\ link'[u] = link[u] /\ wants'[u] = wants[u]
       /\ late'[u] = late[u]
       /\ u \in saving' <=> u \in saving
       /\ u \notin page => events'[u] = ev[u]

LEMMA NewAccountStep ==
  ASSUME ElectionTypes, StorageTypes, NEW t \in Tabs, NEW ev \in EventQueues,
         NewAccount(t, ev)
  PROVE  Stores(t, ev)
<1>1. /\ account' = [account EXCEPT ![t] = TRUE]
      /\ stored' \in BOOLEAN
      /\ events' = ev \/ events' = Told(ev, t, TRUE)
      /\ saving' \subseteq saving \cup {t} /\ saving \subseteq saving'
      /\ late' = late
  BY DEF NewAccount, Save, StorageTypes
<1>2. /\ link' \in [Tabs -> {"none", "electing", "starting", "connected", "secondary"}]
      /\ usable' \in [Tabs -> BOOLEAN]
      /\ wants' \in [Tabs -> SUBSET {"channel", "transport", "takeover"}]
      /\ link'[t] # "none"
      /\ \A u \in Tabs : u # t => link'[u] = link[u] /\ wants'[u] = wants[u]
  <2>1. CASE link[t] = "none"
    BY <2>1, ConnectStep DEF NewAccount
  <2>2. CASE link[t] # "none"
    BY <2>2 DEF NewAccount, transport, StorageTypes, ElectionTypes
  <2>. QED
    BY <2>1, <2>2
<1>3. /\ account' \in [Tabs -> BOOLEAN]
      /\ \A u \in Tabs : u # t => account'[u] = account[u]
  BY <1>1 DEF StorageTypes
<1>4. /\ events' \in EventQueues
      /\ \A u \in Tabs : u \notin page => events'[u] = ev[u]
  <2>1. CASE events' = ev
    BY <2>1
  <2>2. CASE events' = Told(ev, t, TRUE)
    BY <2>2, ToldTypes
  <2>. QED
    BY <1>1, <2>1, <2>2
<1>5. saving' \subseteq Tabs /\ late' \in [Tabs -> Nat]
  BY <1>1 DEF StorageTypes
<1>. QED
  BY <1>1, <1>2, <1>3, <1>4, <1>5 DEF Stores, StorageTypes

\* A transport is dropped.
LEMMA DroppedStep ==
  ASSUME StorageTypes, NEW t \in Tabs, Dropped(t)
  PROVE  /\ saving' \subseteq Tabs /\ late' \in [Tabs -> Nat]
         /\ saving' = saving \ {t}
         /\ \A u \in Tabs : u # t => late'[u] = late[u]
         /\ t \notin saving => late' = late
<1>1. late' = late \/ late' = [late EXCEPT ![t] = @ + 1]
  BY DEF Dropped
<1>. QED
  BY <1>1 DEF Dropped, StorageTypes

LEMMA NoAccountStep ==
  ASSUME ElectionTypes, StorageTypes, NEW t \in Tabs, NEW ev \in EventQueues,
         NoAccount(t, ev), UNCHANGED wants
  PROVE  Stores(t, ev) /\ link'[t] = "none"
<1>1. /\ account' = [account EXCEPT ![t] = FALSE]
      /\ stored' = FALSE
      /\ events' = Told(ev, t, FALSE)
      /\ link' = [link EXCEPT ![t] = "none"]
      /\ usable' = [usable EXCEPT ![t] = FALSE]
      /\ Dropped(t)
  BY DEF NoAccount
<1>2. /\ link' \in [Tabs -> {"none", "electing", "starting", "connected", "secondary"}]
      /\ usable' \in [Tabs -> BOOLEAN]
      /\ link'[t] = "none" /\ \A u \in Tabs : u # t => link'[u] = link[u]
  BY <1>1 DEF StorageTypes
<1>3. /\ account' \in [Tabs -> BOOLEAN] /\ account'[t] = FALSE
      /\ \A u \in Tabs : u # t => account'[u] = account[u]
  BY <1>1 DEF StorageTypes
<1>4. /\ events' \in EventQueues
      /\ \A u \in Tabs : u \notin page => events'[u] = ev[u]
  BY <1>1, ToldTypes
<1>5. /\ saving' \subseteq Tabs /\ late' \in [Tabs -> Nat] /\ saving' = saving \ {t}
      /\ \A u \in Tabs : u # t => late'[u] = late[u]
  BY <1>1, DroppedStep
<1>. QED
  BY <1>1, <1>2, <1>3, <1>4, <1>5 DEF Stores, StorageTypes, ElectionTypes

\* The changes that overlap are counted up to the bound.
LEMMA ChangesStep ==
  ASSUME OpenTypes, NEW t \in Tabs, Changes(t)
  PROVE  overlaps' \in 0..MaxOverlaps /\ (overlaps' = 0 => overlaps = 0 /\ AtRest(t))
<1>1. /\ overlaps \in Nat /\ overlaps < MaxOverlaps /\ MaxOverlaps \in Nat
      /\ overlaps' = IF AtRest(t) THEN overlaps ELSE overlaps + 1
  BY TabsAssumption DEF OpenTypes, Changes
<1>2. CASE AtRest(t)
  BY <1>1, <1>2
<1>3. CASE ~AtRest(t)
  BY <1>1, <1>3
<1>. QED
  BY <1>2, <1>3

CallsOf(t) == \A r \in Requests : call'[r] = call[r] \/ call'[r].tab = t

LEMMA StoresStep ==
  ASSUME AccountInv, OpenTypes', NEW t \in page, NEW ev,
         Stores(t, ev), \A u \in Tabs : u # t => ev[u] = events[u],
         UNCHANGED <<page, leader, ready, was, held, adding, sending>>,
         \A u \in Tabs : u # t => /\ open'[u] = open[u]
                                  /\ u \in clearing' <=> u \in clearing
                                  /\ u \notin page => inbox'[u] = inbox[u],
         atWallet' \subseteq atWallet, CallsOf(t)
  PROVE  AccountInv'
<1>1. t \in Tabs /\ page \subseteq Tabs /\ page' = page \cup {t}
  BY DEF AccountInv, ElectionTypes
<1>2. ElectionTypes' /\ StorageTypes'
  BY DEF AccountInv, ElectionTypes, Stores
<1>3. \A u \in Tabs : u # t => Memory(u)' = Memory(u)
  BY DEF Stores, Memory
<1>4. StepOf(t)
  BY <1>1, <1>3 DEF StepOf, CallsOf, Stores
<1>. QED
  BY <1>1, <1>2, <1>4, AccountStep DEF Stores

LEMMA CallOfIsSet ==
  ASSUME RequestTypes, NEW t, NEW r \in Requests, call[r].tab = t, NEW x,
         call' = [call EXCEPT ![r].at = x]
  PROVE  CallsOf(t)
<1>1. call[r] \in CallStates
  BY DEF RequestTypes
<1>2. [call[r] EXCEPT !.at = x].tab = t
  BY <1>1 DEF CallStates
<1>. QED
  BY <1>2 DEF CallsOf, RequestTypes

LEMMA RejectedCallsOf ==
  ASSUME RequestTypes, OpenTypes, NEW t \in Tabs, RejectOpen(t)
  PROVE  /\ CallsOf(t)
         /\ open' \in [Tabs -> SUBSET Requests]
         /\ \A u \in Tabs : u # t => open'[u] = open[u]
<1>1. \A r \in Requests : /\ call[r] \in CallStates
                          /\ call[r].tab = t => [call[r] EXCEPT !.at = "aborted"].tab = t
  BY DEF RequestTypes, CallStates
<1>2. CallsOf(t)
  BY <1>1 DEF RejectOpen, CallsOf
<1>3. open' = [open EXCEPT ![t] = {}]
  BY DEF RejectOpen
<1>. QED
  BY <1>2, <1>3 DEF OpenTypes

\* setActiveAccount(undefined) in an open page, which takes an event or a
\* message, or not.
LEMMA ClearingKeepsAccountInv ==
  ASSUME AskInv, AccountInv, NEW t \in page, NEW in \in Inboxes, NEW ev \in EventQueues,
         \A u \in Tabs : u # t => in[u] = inbox[u] /\ ev[u] = events[u],
         SetActiveAccount(t, in, ev), overlaps' \in 0..MaxOverlaps
  PROVE  AccountInv'
<1>1. /\ RequestTypes /\ ElectionTypes /\ StorageTypes /\ OpenTypes
      /\ t \in Tabs /\ page \subseteq Tabs
  BY DEF AskInv, AccountInv, ElectionTypes
<1>2. UNCHANGED <<page, election, others, held, adding, sending, atWallet, loads, errors>>
  BY DEF SetActiveAccount
<1>3. CASE /\ clearing' = clearing \cup {t}
           /\ inbox' = in /\ events' = ev
           /\ UNCHANGED <<account, stored, saving, late, transport, open, call>>
  <2>1. ElectionTypes' /\ StorageTypes' /\ OpenTypes'
    BY <1>1, <1>2, <1>3
       DEF ElectionTypes, StorageTypes, OpenTypes, election, transport
  <2>2. StepOf(t)
    BY <1>2, <1>3 DEF StepOf, Memory, election, transport
  <2>3. account'[t] => link'[t] # "none"
    BY <1>1, <1>3 DEF transport, AccountInv, KeptWithTransport
  <2>. QED
    BY <1>1, <2>1, <2>2, <2>3, AccountStep
<1>4. CASE /\ inbox' = Posted(in, t, [type |-> "DISCONNECT"])
           /\ RejectOpen(t) /\ NoAccount(t, ev) /\ UNCHANGED clearing
  <2>1. Stores(t, ev)
    BY <1>1, <1>2, <1>4, NoAccountStep DEF election
  <2>2. OpenTypes'
    BY <1>1, <1>2, <1>4, RejectedCallsOf DEF OpenTypes
  <2>3. \A u \in Tabs : u # t /\ u \notin page => inbox'[u] = inbox[u]
    BY <1>1, <1>4, PostedTypes
  <2>4. /\ CallsOf(t)
        /\ \A u \in Tabs : u # t => open'[u] = open[u]
    BY <1>1, <1>4, RejectedCallsOf
  <2>5. /\ UNCHANGED <<page, leader, ready, was, held, adding, sending>>
        /\ atWallet' \subseteq atWallet /\ clearing' = clearing
    BY <1>2, <1>4 DEF election
  <2>. QED
    BY <2>1, <2>2, <2>3, <2>4, <2>5, StoresStep
<1>5. CASE inbox' = in /\ NoAccount(t, ev) /\ UNCHANGED <<open, call, clearing>>
  <2>1. Stores(t, ev)
    BY <1>1, <1>2, <1>5, NoAccountStep DEF election
  <2>2. OpenTypes' /\ CallsOf(t)
    BY <1>1, <1>2, <1>5 DEF OpenTypes, CallsOf
  <2>3. /\ UNCHANGED <<page, leader, ready, was, held, adding, sending, open>>
        /\ atWallet' \subseteq atWallet /\ clearing' = clearing
    BY <1>2, <1>5 DEF election
  <2>. QED
    BY <1>5, <2>1, <2>2, <2>3, StoresStep
<1>. QED
  BY <1>3, <1>4, <1>5 DEF SetActiveAccount

\* handleRequestError in an open page.
LEMMA ErrorStep ==
  ASSUME ElectionTypes, StorageTypes, NEW t \in Tabs, HandleRequestError(t), KeptWithTransport
  PROVE  StorageTypes' /\ Stores(t, events) /\ UNCHANGED <<wants, account, events, stored, overlaps>>
<1>1. UNCHANGED <<account, stored, events, wants, overlaps>>
  BY DEF HandleRequestError
<1>2. CASE account[t]
  BY <1>1, <1>2
     DEF HandleRequestError, Stores, StorageTypes, ElectionTypes, KeptWithTransport
<1>3. CASE ~account[t]
  <2>1. /\ link' = [link EXCEPT ![t] = "none"]
        /\ usable' = [usable EXCEPT ![t] = FALSE]
        /\ Dropped(t)
    BY <1>3 DEF HandleRequestError
  <2>. QED
    BY <1>1, <1>3, <2>1, DroppedStep DEF Stores, StorageTypes, ElectionTypes
<1>. QED
  BY <1>2, <1>3

\* An answer in an open page.
LEMMA AnsweringKeepsAccountInv ==
  ASSUME AskInv, AccountInv, NEW t \in page, NEW r \in Requests, NEW in \in Inboxes,
         \A u \in Tabs : u # t => in[u] = inbox[u],
         atWallet' \subseteq atWallet, HandleResponse(t, r, in)
  PROVE  AccountInv'
<1>1. /\ RequestTypes /\ ElectionTypes /\ StorageTypes /\ OpenTypes
      /\ t \in Tabs /\ page \subseteq Tabs /\ page' = page \cup {t}
  BY DEF AskInv, AccountInv, ElectionTypes, HandleResponse
<1>2. UNCHANGED <<page, leader, ready, was, held, adding, sending, sent, clearing, loads, errors>>
  BY DEF HandleResponse
<1>3. CASE r \in others[t]
  <2>1. /\ inbox' = Posted(in, t, [type |-> "RESPONSE", id |-> r])
        /\ others' = [others EXCEPT ![t] = @ \ {r}]
        /\ UNCHANGED <<open, call, storage, transport, wants, overlaps>>
    BY <1>3 DEF HandleResponse
  <2>2. others' \in [Tabs -> SUBSET Requests]
    BY <1>1, <2>1 DEF OpenTypes
  <2>3. ElectionTypes' /\ StorageTypes' /\ OpenTypes'
    BY <1>1, <1>2, <2>1, <2>2
       DEF ElectionTypes, StorageTypes, OpenTypes, storage, transport
  <2>4. \A u \in Tabs : u # t /\ u \notin page => inbox'[u] = inbox[u]
    BY <1>1, <2>1, PostedTypes
  <2>5. StepOf(t)
    BY <1>1, <1>2, <2>1, <2>4 DEF StepOf, Memory, storage, transport
  <2>. QED
    BY <1>2, <2>1, <2>3, <2>5, QuietAccountStep DEF transport, storage
<1>4. CASE r \notin others[t]
  <2>1. inbox' = in /\ UNCHANGED others /\ Settle(t, r)
    BY <1>4 DEF HandleResponse
  <2>2. /\ open' \in [Tabs -> SUBSET Requests]
        /\ \A u \in Tabs : u # t => open'[u] = open[u]
    BY <1>1, <2>1 DEF Settle, OpenTypes
  <2>3. ASSUME overlaps' \in 0..MaxOverlaps PROVE OpenTypes'
    BY <1>1, <1>2, <2>1, <2>2, <2>3 DEF OpenTypes
  <2>4. CallsOf(t)
    <3>1. UNCHANGED call \/ (call[r].tab = t /\ call' = [call EXCEPT ![r].at = "answered"])
      BY <2>1 DEF Settle
    <3>. QED
      BY <1>1, <3>1, CallOfIsSet DEF CallsOf
  <2>5. CASE Changes(t) /\ NewAccount(t, events)
    <3>1. Stores(t, events)
      BY <1>1, <2>5, NewAccountStep DEF StorageTypes
    <3>2. OpenTypes'
      BY <1>1, <2>3, <2>5, ChangesStep
    <3>. QED
      BY <1>2, <2>1, <2>2, <2>4, <3>1, <3>2, StoresStep
  <2>6. CASE HandleRequestError(t)
    <3>1. Stores(t, events) /\ UNCHANGED overlaps
      BY <1>1, <2>6, ErrorStep DEF AccountInv
    <3>2. OpenTypes'
      BY <1>1, <2>3, <3>1 DEF OpenTypes
    <3>. QED
      BY <1>2, <2>1, <2>2, <2>4, <3>1, <3>2, StoresStep
  <2>7. CASE UNCHANGED <<storage, transport, wants, overlaps>>
    <3>1. ElectionTypes' /\ StorageTypes' /\ OpenTypes'
      BY <1>1, <1>2, <2>3, <2>7 DEF ElectionTypes, StorageTypes, OpenTypes, storage, transport
    <3>2. StepOf(t)
      BY <1>1, <1>2, <2>1, <2>2, <2>4, <2>7 DEF StepOf, CallsOf, Memory, storage, transport
    <3>. QED
      BY <2>7, <3>1, <3>2, QuietAccountStep DEF transport, storage
  <2>. QED
    BY <2>1, <2>5, <2>6, <2>7 DEF Settle
<1>. QED
  BY <1>3, <1>4

\* A page is closed.
LEMMA ClosingKeepsAccountInv ==
  ASSUME AskInv, AccountInv, NEW t \in Tabs, Close(t)
  PROVE  AccountInv'
<1>1. RequestTypes /\ ElectionTypes /\ StorageTypes /\ OpenTypes
  BY DEF AskInv, AccountInv
<1>2. /\ page' = page \ {t}
      /\ leader' = IF leader = t THEN NoTab ELSE leader
      /\ wants' = [wants EXCEPT ![t] = {}]
      /\ ready' = [ready EXCEPT ![t] = FALSE]
      /\ was' = [was EXCEPT ![t] = FALSE]
      /\ link' = [link EXCEPT ![t] = "none"]
      /\ usable' = [usable EXCEPT ![t] = FALSE]
      /\ account' = [account EXCEPT ![t] = FALSE]
      /\ events' = [events EXCEPT ![t] = <<>>]
      /\ open' = [open EXCEPT ![t] = {}]
      /\ others' = [others EXCEPT ![t] = {}]
      /\ held' = [held EXCEPT ![t] = {}]
      /\ adding' = [adding EXCEPT ![t] = {}]
      /\ sending' = [sending EXCEPT ![t] = {}]
      /\ saving' = saving \ {t}
      /\ late' = [late EXCEPT ![t] = 0]
      /\ atWallet' = {p \in atWallet : p[2] # t}
      /\ clearing' = clearing \ {t}
      /\ UNCHANGED <<stored, loads, errors, overlaps>>
  BY DEF Close, IsLeader, bounds
<1>3. ElectionTypes'
  BY <1>1, <1>2 DEF ElectionTypes
<1>4. StorageTypes'
  BY <1>1, <1>2 DEF StorageTypes, EventQueues
<1>5. OpenTypes'
  BY <1>1, <1>2 DEF OpenTypes
<1>6. Memory(t)' = NoMemory
  BY <1>1, <1>2 DEF Memory, NoMemory, ElectionTypes, StorageTypes, OpenTypes, RequestTypes
<1>7. \A u \in Tabs : u # t => Memory(u)' = Memory(u) /\ events'[u] = events[u]
  BY <1>1, <1>2 DEF Memory, ElectionTypes, StorageTypes, OpenTypes, RequestTypes, EventQueues
<1>8. \A u \in Tabs : u # t /\ u \notin page => inbox'[u] = inbox[u]
  BY <1>1 DEF Close, Posted, RequestTypes, Inboxes
<1>9. inbox'[t] = <<>> /\ events'[t] = <<>> /\ t \notin saving'
  <2>1. Posted(inbox, t, [type |-> "LEADER_DEAD"]) = [u \in Tabs |->
           Posted(inbox, t, [type |-> "LEADER_DEAD"])[u]]
    BY DEF Posted
  <2>2. inbox'[t] = <<>>
    BY <1>1, <2>1 DEF Close, RequestTypes, Inboxes
  <2>. QED
    BY <1>1, <1>2, <2>2 DEF StorageTypes, EventQueues
<1>10. \A r \in Requests :
         /\ call[r].tab = t => call'[r].at = "gone"
         /\ call[r].tab # t => call'[r] = call[r]
         /\ call'[r].tab = call[r].tab
  <2>1. \A r \in Requests : /\ [call[r] EXCEPT !.at = "gone"].at = "gone"
                            /\ [call[r] EXCEPT !.at = "gone"].tab = call[r].tab
    BY <1>1 DEF RequestTypes, CallStates
  <2>. QED
    BY <2>1 DEF Close
<1>11. ClosedIsEmpty(t)'
  <2>1. leader' # t
    BY <1>2, TabsAssumption
  <2>2. \A r \in Requests : <<r, t>> \notin atWallet'
    BY <1>2
  <2>. QED
    BY <1>2, <1>6, <1>9, <1>10, <2>1, <2>2 DEF ClosedIsEmpty
<1>12. ASSUME NEW u \in Tabs \ page', u # t PROVE ClosedIsEmpty(u)'
  <2>1. ClosedIsEmpty(u) /\ u \notin page
    BY <1>2, <1>12 DEF AccountInv
  <2>2. Memory(u)' = NoMemory
    BY <1>7, <1>12, <2>1 DEF ClosedIsEmpty
  <2>3. leader' # u
    BY <1>2, <2>1, <1>12, TabsAssumption DEF ClosedIsEmpty
  <2>4. \A r \in Requests : <<r, u>> \notin atWallet'
    BY <1>2, <2>1 DEF ClosedIsEmpty
  <2>5. \A r \in Requests : call'[r].tab = u => call'[r].at = "gone"
    BY <1>10, <1>12, <2>1 DEF ClosedIsEmpty
  <2>6. inbox'[u] = <<>> /\ events'[u] = <<>> /\ u \notin clearing' /\ u \notin saving'
    BY <1>2, <1>7, <1>8, <1>12, <2>1 DEF ClosedIsEmpty
  <2>. QED
    BY <2>2, <2>3, <2>4, <2>5, <2>6 DEF ClosedIsEmpty
<1>13. /\ account'[t] = FALSE
       /\ \A u \in Tabs : u # t => account'[u] = account[u] /\ link'[u] = link[u]
  BY <1>1, <1>2 DEF StorageTypes
<1>14. KeptWithTransport'
  BY <1>13 DEF AccountInv, KeptWithTransport
<1>. QED
  BY <1>3, <1>4, <1>5, <1>11, <1>12, <1>14 DEF AccountInv

\* A page is opened.
LEMMA LoadingKeepsAccountInv ==
  ASSUME AskInv, AccountInv, NEW t \in Tabs, Load(t)
  PROVE  AccountInv'
<1>1. RequestTypes /\ ElectionTypes /\ StorageTypes /\ OpenTypes
  BY DEF AskInv, AccountInv
<1>2. /\ page' = page \cup {t}
      /\ loads < MaxLoads /\ loads' = loads + 1
      /\ account' = [account EXCEPT ![t] = stored]
      /\ saving' = saving \/ saving' = saving \cup {t}
      /\ UNCHANGED <<leader, ready, was, stored, events, late, inbox, requests, clearing,
                     errors, overlaps>>
  BY DEF Load, ActiveAccountLoaded, InitInternalTransports
<1>3. /\ link' \in [Tabs -> {"none", "electing", "starting", "connected", "secondary"}]
      /\ usable' \in [Tabs -> BOOLEAN]
      /\ wants' \in [Tabs -> SUBSET {"channel", "transport", "takeover"}]
      /\ stored => link'[t] # "none"
      /\ \A u \in Tabs : u # t => link'[u] = link[u] /\ wants'[u] = wants[u]
  <2>1. CASE stored
    BY <1>1, <2>1, ConnectStep DEF Load, InitInternalTransports
  <2>2. CASE ~stored
    BY <1>1, <2>2
       DEF Load, InitInternalTransports, transport, StorageTypes, ElectionTypes
  <2>. QED
    BY <2>1, <2>2
<1>4. ElectionTypes'
  BY <1>1, <1>2, <1>3 DEF ElectionTypes
<1>5. /\ account' \in [Tabs -> BOOLEAN] /\ account'[t] = stored
      /\ \A u \in Tabs : u # t => account'[u] = account[u]
  BY <1>1, <1>2 DEF StorageTypes
<1>6. StorageTypes'
  BY <1>1, <1>2, <1>3, <1>5 DEF StorageTypes
<1>7. OpenTypes'
  <2>1. loads' \in 0..MaxLoads
    BY <1>1, <1>2, TabsAssumption DEF OpenTypes
  <2>. QED
    BY <1>1, <1>2, <2>1 DEF OpenTypes, requests
<1>8. StepOf(t)
  BY <1>2, <1>3, <1>5 DEF StepOf, Memory, requests
<1>. QED
  BY <1>2, <1>3, <1>4, <1>5, <1>6, <1>7, <1>8, AccountStep

LEMMA NextKeepsAccountInv == AskInv /\ AccountInv /\ [Next]_vars => AccountInv'
<1>. SUFFICES ASSUME AskInv, AccountInv, [Next]_vars PROVE AccountInv'
  OBVIOUS
<1>0. /\ RequestTypes /\ ElectionTypes /\ StorageTypes /\ OpenTypes
      /\ page \subseteq Tabs /\ inbox \in Inboxes /\ events \in EventQueues
      /\ \A t \in Tabs \ page : ClosedIsEmpty(t)
  BY DEF AskInv, AccountInv, RequestTypes, ElectionTypes, StorageTypes
<1>1. CASE UNCHANGED vars
  <2>1. /\ ElectionTypes' /\ StorageTypes' /\ OpenTypes' /\ KeptWithTransport'
        /\ UNCHANGED <<page, inbox, events, leader, clearing, saving, atWallet, call>>
        /\ \A t \in Tabs : Memory(t)' = Memory(t)
    BY <1>0, <1>1 DEF vars, election, transport, storage, requests, bounds, ElectionTypes,
       StorageTypes, OpenTypes, KeptWithTransport, Memory, AccountInv
  <2>2. \A t \in Tabs \ page' : ClosedIsEmpty(t)'
    BY <1>0, <2>1 DEF ClosedIsEmpty
  <2>. QED
    BY <2>1, <2>2 DEF AccountInv
<1>2. ASSUME NEW t \in Tabs, Elected(t)
      PROVE  AccountInv'
  <2>1. t \in page
    BY <1>0, <1>2 DEF Elected, ClosedIsEmpty, Memory, NoMemory
  <2>2. /\ leader' = t
        /\ wants' = [wants EXCEPT ![t] = {}]
        /\ ready' = [ready EXCEPT ![t] = @ \/ "channel" \in wants[t]]
        /\ was' = [was EXCEPT ![t] = @ \/ wants[t] \cap {"channel", "takeover"} # {}]
        /\ link' = link \/ link' = [link EXCEPT ![t] = "starting"]
        /\ UNCHANGED <<page, usable, storage, inbox, requests, clearing, bounds>>
    BY <1>2 DEF Elected
  <2>3. ElectionTypes'
    <3>1. /\ (ready[t] \/ "channel" \in wants[t]) \in BOOLEAN
          /\ (was[t] \/ wants[t] \cap {"channel", "takeover"} # {}) \in BOOLEAN
      OBVIOUS
    <3>2. ready' \in [Tabs -> BOOLEAN]
      BY <1>0, <2>2, <3>1 DEF ElectionTypes
    <3>3. was' \in [Tabs -> BOOLEAN]
      BY <1>0, <2>2, <3>1 DEF ElectionTypes
    <3>4. wants' \in [Tabs -> SUBSET {"channel", "transport", "takeover"}]
      BY <1>0, <2>2 DEF ElectionTypes
    <3>. QED
      BY <1>0, <2>2, <3>2, <3>3, <3>4 DEF ElectionTypes
  <2>4. /\ link' \in [Tabs -> {"none", "electing", "starting", "connected", "secondary"}]
        /\ link[t] # "none" => link'[t] # "none"
    BY <1>0, <2>2 DEF StorageTypes
  <2>5. StorageTypes' /\ OpenTypes'
    BY <1>0, <2>2, <2>4 DEF StorageTypes, OpenTypes, storage, requests, bounds
  <2>6. \A u \in Tabs : u # t => Memory(u)' = Memory(u)
    BY <1>0, <2>2 DEF Memory, ElectionTypes, StorageTypes, storage, requests
  <2>7. StepOf(t)
    BY <2>1, <2>2, <2>6 DEF StepOf, storage, requests
  <2>. QED
    BY <2>1, <2>2, <2>3, <2>4, <2>5, <2>7, QuietAccountStep DEF storage
<1>3. ASSUME NEW t \in Tabs, Connected(t)
      PROVE  AccountInv'
  <2>1. t \in page
    BY <1>0, <1>3 DEF Connected, ClosedIsEmpty, Memory, NoMemory
  <2>2. /\ link' = [link EXCEPT ![t] = "connected"]
        /\ usable' = [usable EXCEPT ![t] = TRUE]
        /\ \/ stored' = TRUE /\ events' = Told(events, t, TRUE)
           \/ UNCHANGED <<stored, events>>
        /\ saving' = saving \/ saving' = saving \ {t}
        /\ UNCHANGED <<page, election, account, late, inbox, requests, clearing, bounds>>
    BY <1>3 DEF Connected, Save
  <2>3. /\ events' \in EventQueues
        /\ \A u \in Tabs : u \notin page => events'[u] = events[u]
    <3>1. CASE UNCHANGED events
      BY <1>0, <3>1
    <3>2. CASE events' = Told(events, t, TRUE)
      BY <1>0, <3>2, ToldTypes
    <3>. QED
      BY <2>2, <3>1, <3>2
  <2>4. ElectionTypes' /\ StorageTypes' /\ OpenTypes'
    BY <1>0, <2>2, <2>3
       DEF ElectionTypes, StorageTypes, OpenTypes, election, requests, bounds
  <2>5. link'[t] # "none" /\ \A u \in Tabs : u # t => Memory(u)' = Memory(u)
    BY <1>0, <2>2 DEF Memory, StorageTypes, election, requests
  <2>6. StepOf(t)
    BY <2>1, <2>2, <2>3, <2>5 DEF StepOf, election, requests
  <2>. QED
    BY <2>1, <2>2, <2>4, <2>5, <2>6, QuietAccountStep
<1>4. ASSUME NEW t \in Tabs, ConnectedLate(t)
       PROVE  AccountInv'
  <2>1. late[t] # 0
    BY <1>0, <1>4 DEF ConnectedLate, StorageTypes
  <2>2. t \in page
    BY <1>0, <2>1 DEF ClosedIsEmpty, Memory, NoMemory
  <2>3. /\ late' = [late EXCEPT ![t] = @ - 1]
        /\ stored' = TRUE /\ events' = Told(events, t, TRUE)
        /\ UNCHANGED <<page, election, transport, account, saving, inbox, requests, clearing,
                       bounds>>
    BY <1>4 DEF ConnectedLate, Save
  <2>4. /\ events' \in EventQueues
        /\ \A u \in Tabs : u \notin page => events'[u] = events[u]
    BY <1>0, <2>3, ToldTypes
  <2>5. late' \in [Tabs -> Nat] /\ \A u \in Tabs : u # t => late'[u] = late[u]
    <3>1. late[t] - 1 \in Nat
      BY <1>0, <2>1 DEF StorageTypes
    <3>. QED
      BY <1>0, <2>3, <3>1 DEF StorageTypes
  <2>6. ElectionTypes' /\ StorageTypes' /\ OpenTypes'
    BY <1>0, <2>3, <2>4, <2>5
       DEF ElectionTypes, StorageTypes, OpenTypes, election, transport, requests, bounds
  <2>7. StepOf(t)
    BY <2>2, <2>3, <2>4, <2>5 DEF StepOf, Memory, election, transport, requests
  <2>. QED
    BY <2>2, <2>3, <2>6, <2>7, QuietAccountStep DEF transport
<1>5. ASSUME NEW t \in Tabs, Disconnected(t)
      PROVE  AccountInv'
  <2>1. t \in page
    BY <1>0, <1>5 DEF Disconnected, ClosedIsEmpty
  <2>2. /\ clearing' = clearing \ {t}
        /\ others' = [others EXCEPT ![t] = {}]
        /\ atWallet' \subseteq atWallet
        /\ RejectOpen(t)
        /\ NoAccount(t, events)
        /\ UNCHANGED <<page, election, inbox, held, adding, sending, sent, bounds>>
    BY <1>5 DEF Disconnected
  <2>3. Stores(t, events)
    BY <1>0, <2>2, NoAccountStep DEF election
  <2>4. CallsOf(t) /\ open' \in [Tabs -> SUBSET Requests]
        /\ \A u \in Tabs : u # t => open'[u] = open[u]
    BY <1>0, <2>2, RejectedCallsOf
  <2>5. OpenTypes'
    BY <1>0, <2>2, <2>4 DEF OpenTypes, bounds
  <2>6. UNCHANGED <<page, leader, ready, was, held, adding, sending, inbox>>
    BY <2>2 DEF election
  <2>. QED
    BY <2>1, <2>2, <2>3, <2>4, <2>5, <2>6, StoresStep
<1>6. ASSUME NEW t \in Tabs, ChannelClosed(t)
      PROVE  AccountInv'
  <2>1. t \in page
    BY <1>0, <1>6 DEF ChannelClosed, ClosedIsEmpty, Memory, NoMemory
  <2>2. /\ clearing' = clearing \cup {t} \/ clearing' = clearing
        /\ NoAccount(t, events)
        /\ Changes(t)
        /\ UNCHANGED <<page, election, inbox, requests, loads, errors>>
    BY <1>6 DEF ChannelClosed
  <2>3. Stores(t, events)
    BY <1>0, <2>2, NoAccountStep DEF election
  <2>4. OpenTypes' /\ CallsOf(t)
    <3>1. overlaps' \in 0..MaxOverlaps
      BY <1>0, <2>2, ChangesStep
    <3>. QED
      BY <1>0, <2>1, <2>2, <3>1 DEF OpenTypes, CallsOf, requests
  <2>5. UNCHANGED <<page, leader, ready, was, held, adding, sending, inbox, open, atWallet>>
    BY <2>2 DEF election, requests
  <2>. QED
    BY <2>1, <2>2, <2>3, <2>4, <2>5, StoresStep
<1>7. ASSUME NEW t \in Tabs, RelayerError(t)
      PROVE  AccountInv'
  <2>1. t \in page
    BY <1>0, <1>7 DEF RelayerError, ClosedIsEmpty, Memory, NoMemory
  <2>2. /\ errors < MaxErrors /\ errors' = errors + 1
        /\ NoAccount(t, events)
        /\ Changes(t)
        /\ atWallet' \subseteq atWallet
        /\ UNCHANGED <<page, election, inbox, open, others, held, adding, sending, sent, call,
                       clearing, loads>>
    BY <1>7 DEF RelayerError, ResetInvalidState
  <2>3. Stores(t, events)
    BY <1>0, <2>2, NoAccountStep DEF election
  <2>4. errors' \in 0..MaxErrors /\ overlaps' \in 0..MaxOverlaps
    BY <1>0, <2>2, ChangesStep, TabsAssumption DEF OpenTypes
  <2>5. OpenTypes' /\ CallsOf(t)
    BY <1>0, <2>2, <2>4 DEF OpenTypes, CallsOf
  <2>6. UNCHANGED <<page, leader, ready, was, held, adding, sending, inbox, open, clearing>>
    BY <2>2 DEF election
  <2>. QED
    BY <2>1, <2>2, <2>3, <2>5, <2>6, StoresStep
<1>8. ASSUME NEW t \in Tabs, OnBCMessage(t)
      PROVE  AccountInv'
  <2>. DEFINE m == Head(inbox[t])
              in == [inbox EXCEPT ![t] = Tail(@)]
  <2>1. inbox[t] # <<>>
    BY <1>8 DEF OnBCMessage
  <2>2. t \in page
    BY <1>0, <2>1 DEF ClosedIsEmpty
  <2>3. in \in Inboxes
    BY <1>0, <2>1, TakenIsCalm DEF Calm
  <2>4. m \in Messages
    BY <1>0, <2>1 DEF Inboxes
  <2>5. \A u \in Tabs : u # t => in[u] = inbox[u]
    BY <1>0 DEF Inboxes
  <2>. HIDE DEF m, in
  <2>6. CASE PrepareRequest(t, in)
    <3>1. /\ \A u \in Tabs : u # t => held'[u] = held[u]
          /\ inbox' = in
          /\ UNCHANGED <<page, election, transport, storage, open, others, adding, sending, atWallet,
                         sent, call, clearing, bounds>>
      BY <1>0, <2>6 DEF PrepareRequest, RequestTypes
    <3>2. ElectionTypes' /\ StorageTypes' /\ OpenTypes'
      BY <1>0, <3>1
         DEF ElectionTypes, StorageTypes, OpenTypes, election, transport, storage, bounds
    <3>3. StepOf(t)
      BY <2>2, <2>5, <3>1 DEF StepOf, Memory, election, transport, storage
    <3>. QED
      BY <2>2, <3>1, <3>2, <3>3, QuietAccountStep DEF transport, storage
  <2>7. CASE m.type = "RESPONSE" /\ HandleResponse(t, m.id, in) /\ UNCHANGED atWallet
    <3>1. m.id \in Requests
      BY <2>4, <2>7 DEF Messages
    <3>. QED
      BY <2>2, <2>3, <2>5, <2>7, <3>1, AnsweringKeepsAccountInv
  <2>8. CASE SetActiveAccount(t, in, events) /\ UNCHANGED overlaps
    BY <1>0, <2>2, <2>3, <2>5, <2>8, ClearingKeepsAccountInv DEF OpenTypes
  <2>9. CASE /\ inbox' = in
             /\ UNCHANGED <<page, election, transport, storage, requests, clearing, bounds>>
    <3>1. ElectionTypes' /\ StorageTypes' /\ OpenTypes'
      BY <1>0, <2>9
         DEF ElectionTypes, StorageTypes, OpenTypes, election, transport, storage, requests, bounds
    <3>2. StepOf(t)
      BY <2>2, <2>5, <2>9 DEF StepOf, Memory, election, transport, storage, requests
    <3>. QED
      BY <2>2, <2>9, <3>1, <3>2, QuietAccountStep DEF transport, storage
  <2>10. CASE AwaitLeadership(t, in)
    <3>1. /\ wants' = wants \/ wants' = [wants EXCEPT ![t] = @ \cup {"takeover"}]
          /\ was' = was \/ was' = [was EXCEPT ![t] = TRUE]
          /\ inbox' = in
          /\ UNCHANGED <<page, leader, ready, transport, storage, requests, clearing, bounds>>
      BY <2>10 DEF AwaitLeadership
    <3>2. /\ wants' \in [Tabs -> SUBSET {"channel", "transport", "takeover"}]
          /\ \A u \in Tabs : u # t => wants'[u] = wants[u]
      BY <1>0, <3>1 DEF ElectionTypes
    <3>3. /\ was' \in [Tabs -> BOOLEAN]
          /\ \A u \in Tabs : u # t => was'[u] = was[u]
      BY <1>0, <3>1 DEF ElectionTypes
    <3>4. ElectionTypes' /\ StorageTypes' /\ OpenTypes'
      BY <1>0, <3>1, <3>2, <3>3
         DEF ElectionTypes, StorageTypes, OpenTypes, transport, storage, requests, bounds
    <3>5. StepOf(t)
      BY <2>2, <2>5, <3>1, <3>2, <3>3 DEF StepOf, Memory, transport, storage, requests
    <3>. QED
      BY <2>2, <3>1, <3>4, <3>5, QuietAccountStep DEF transport, storage
  <2>. QED
    BY <1>8, <2>6, <2>7, <2>8, <2>9, <2>10 DEF OnBCMessage, m, in
<1>9. ASSUME NEW t \in Tabs, StorageChanged(t)
      PROVE  AccountInv'
  <2>. DEFINE ev == [events EXCEPT ![t] = Tail(@)]
  <2>1. events[t] # <<>>
    BY <1>9 DEF StorageChanged
  <2>2. t \in page
    BY <1>0, <2>1 DEF ClosedIsEmpty
  <2>3. Tail(events[t]) \in Seq(BOOLEAN)
    <3>1. events[t] \in Seq(BOOLEAN)
      BY <1>0 DEF EventQueues
    <3>. QED
      BY <2>1, <3>1, HeadTailProperties
  <2>4. ev \in EventQueues /\ \A u \in Tabs : u # t => ev[u] = events[u]
    BY <1>0, <2>3 DEF EventQueues
  <2>. HIDE DEF ev
  <2>5. CASE SetActiveAccount(t, inbox, ev) /\ UNCHANGED overlaps
    BY <1>0, <2>2, <2>4, <2>5, ClearingKeepsAccountInv DEF OpenTypes
  <2>6. CASE /\ NewAccount(t, ev)
             /\ UNCHANGED <<page, leader, ready, was, inbox, requests, clearing, bounds>>
    <3>1. Stores(t, ev)
      BY <1>0, <2>4, <2>6, NewAccountStep
    <3>2. OpenTypes' /\ CallsOf(t) /\ UNCHANGED <<open, held, adding, sending, atWallet>>
      BY <1>0, <2>6 DEF OpenTypes, CallsOf, requests, bounds
    <3>. QED
      BY <2>2, <2>4, <2>6, <3>1, <3>2, StoresStep
  <2>. QED
    BY <1>9, <2>5, <2>6 DEF StorageChanged, ev
<1>10. ASSUME NEW t \in Tabs, Disconnect(t)
      PROVE  AccountInv'
  <2>1. t \in page /\ SetActiveAccount(t, inbox, events)
    BY <1>0, <1>10 DEF Disconnect, ClosedIsEmpty, Memory, NoMemory
  <2>2. overlaps' \in 0..MaxOverlaps
    BY <1>0, <1>10, ChangesStep DEF Disconnect
  <2>. QED
    BY <1>0, <2>1, <2>2, ClearingKeepsAccountInv
<1>11. ASSUME NEW t \in Tabs, NEW r \in Requests, CheckMakeRequest(t, r)
       PROVE  AccountInv'
  <2>1. /\ t \in page
        /\ \E k, x : call' = [call EXCEPT ![r] = [tab |-> t, kind |-> k, at |-> x]]
        /\ UNCHANGED <<page, leader, was, transport, storage, inbox, open, others, held,
                       adding, sending, atWallet, sent, clearing, bounds>>
        /\ ready' = ready \/ ready' = [ready EXCEPT ![t] = TRUE]
        /\ wants' = wants \/ wants' = [wants EXCEPT ![t] = @ \cup {"channel"}]
    BY <1>11 DEF CheckMakeRequest, ChannelInit, election
  <2>2. CallsOf(t)
    BY <1>0, <2>1 DEF CallsOf, RequestTypes
  <2>3. /\ ready' \in [Tabs -> BOOLEAN]
        /\ \A u \in Tabs : u # t => ready'[u] = ready[u]
    BY <1>0, <2>1 DEF ElectionTypes
  <2>4. /\ wants' \in [Tabs -> SUBSET {"channel", "transport", "takeover"}]
        /\ \A u \in Tabs : u # t => wants'[u] = wants[u]
    BY <1>0, <2>1 DEF ElectionTypes
  <2>5. ElectionTypes' /\ StorageTypes' /\ OpenTypes'
    BY <1>0, <2>1, <2>3, <2>4
       DEF ElectionTypes, StorageTypes, OpenTypes, transport, storage, bounds
  <2>6. StepOf(t)
    BY <2>1, <2>2, <2>3, <2>4 DEF StepOf, CallsOf, Memory, transport, storage
  <2>. QED
    BY <2>1, <2>5, <2>6, QuietAccountStep DEF transport, storage
<1>12. ASSUME NEW t \in Tabs, NEW r \in Requests, MakeRequest(t, r) \/ Paired(t, r)
       PROVE  AccountInv'
  <2>1. /\ call[r].tab = t /\ call[r].at # "gone"
        /\ UNCHANGED <<page, leader, ready, was, storage, inbox, open, others, held, sending,
                       atWallet, clearing, bounds>>
    BY <1>12 DEF MakeRequest, Paired, GoesOn, election
  <2>2. t \in page
    BY <1>0, <2>1 DEF ClosedIsEmpty
  <2>3. /\ adding' = adding \/ adding' = [adding EXCEPT ![t] = @ \cup {r}]
        /\ call' = call \/ \E x : call' = [call EXCEPT ![r].at = x]
        /\ wants' = wants \/ wants' = [wants EXCEPT ![t] = @ \cup {"transport"}]
    BY <1>12 DEF MakeRequest, Paired, Check, election
  <2>4. CallsOf(t)
    BY <1>0, <2>1, <2>3, CallOfIsSet DEF CallsOf
  <2>5. /\ \A u \in Tabs : u # t => adding'[u] = adding[u]
        /\ wants' \in [Tabs -> SUBSET {"channel", "transport", "takeover"}]
        /\ \A u \in Tabs : u # t => wants'[u] = wants[u]
    BY <1>0, <2>3 DEF RequestTypes, ElectionTypes
  <2>6. /\ link' \in [Tabs -> {"none", "electing", "starting", "connected", "secondary"}]
        /\ link[t] # "none" => link'[t] # "none"
        /\ \A u \in Tabs : u # t => link'[u] = link[u]
    <3>1. CASE MakeRequest(t, r)
      BY <1>0, <3>1 DEF MakeRequest, transport, StorageTypes
    <3>2. CASE Paired(t, r)
      BY <1>0, <3>2 DEF Paired, transport, StorageTypes
    <3>. QED
      BY <1>12, <3>1, <3>2
  <2>7. usable' \in [Tabs -> BOOLEAN]
    BY <1>0, <1>12 DEF MakeRequest, Paired, transport, StorageTypes
  <2>8. ElectionTypes' /\ StorageTypes' /\ OpenTypes'
    BY <1>0, <2>1, <2>5, <2>6, <2>7
       DEF ElectionTypes, StorageTypes, OpenTypes, storage, bounds
  <2>9. StepOf(t)
    BY <2>1, <2>2, <2>4, <2>5, <2>6 DEF StepOf, CallsOf, Memory, storage
  <2>. QED
    BY <2>1, <2>2, <2>6, <2>8, <2>9, QuietAccountStep DEF storage
<1>13. ASSUME NEW t \in Tabs, NEW r \in Requests, AddOpenRequest(t, r) \/ AddRelayed(t, r)
       PROVE  AccountInv'
  <2>1. /\ r \in adding[t] \/ (call[r].tab = t /\ call[r].at # "gone")
        /\ call' = call \/ (call[r].tab = t /\ call' = [call EXCEPT ![r].at = "waiting"])
        /\ open' = [open EXCEPT ![t] = @ \cup {r}]
        /\ adding' = adding \/ adding' = [adding EXCEPT ![t] = @ \ {r}]
        /\ sending' = sending \/ sending' = [sending EXCEPT ![t] = @ \cup {r}]
        /\ UNCHANGED <<page, election, transport, storage, inbox, others, held, atWallet, sent,
                       clearing, bounds>>
    BY <1>13 DEF AddOpenRequest, AddRelayed
  <2>2. t \in page
    BY <1>0, <2>1 DEF ClosedIsEmpty, Memory, NoMemory
  <2>3. CallsOf(t)
    BY <1>0, <2>1, CallOfIsSet DEF CallsOf
  <2>4. /\ open' \in [Tabs -> SUBSET Requests]
        /\ \A u \in Tabs : u # t => /\ open'[u] = open[u] /\ adding'[u] = adding[u]
                                    /\ sending'[u] = sending[u]
    BY <1>0, <2>1 DEF OpenTypes, RequestTypes
  <2>5. ElectionTypes' /\ StorageTypes' /\ OpenTypes'
    BY <1>0, <2>1, <2>4
       DEF ElectionTypes, StorageTypes, OpenTypes, election, transport, storage, bounds
  <2>6. StepOf(t)
    BY <2>1, <2>2, <2>3, <2>4 DEF StepOf, CallsOf, Memory, election, transport, storage
  <2>. QED
    BY <2>1, <2>2, <2>5, <2>6, QuietAccountStep DEF transport, storage
<1>14. ASSUME NEW t \in Tabs, NEW r \in Requests, Send(t, r)
       PROVE  AccountInv'
  <2>1. /\ r \in sending[t]
        /\ sending' = [sending EXCEPT ![t] = @ \ {r}]
        /\ atWallet' \subseteq atWallet \cup {<<r, t>>}
        /\ UNCHANGED <<page, election, transport, storage, inbox, open, others, held, adding,
                       call, clearing, bounds>>
    BY <1>14 DEF Send
  <2>2. t \in page
    BY <1>0, <2>1 DEF ClosedIsEmpty, Memory, NoMemory
  <2>3. \A u \in Tabs : u # t => sending'[u] = sending[u]
    BY <1>0, <2>1 DEF RequestTypes
  <2>4. ElectionTypes' /\ StorageTypes' /\ OpenTypes'
    BY <1>0, <2>1
       DEF ElectionTypes, StorageTypes, OpenTypes, election, transport, storage, bounds
  <2>5. StepOf(t)
    BY <2>1, <2>2, <2>3 DEF StepOf, Memory, election, transport, storage
  <2>. QED
    BY <2>1, <2>2, <2>4, <2>5, QuietAccountStep DEF transport, storage
<1>15. ASSUME NEW t \in Tabs, NEW r \in Requests, MakeRequestBC(t, r) \/ RelayRequest(t, r)
       PROVE  AccountInv'
  <2>1. /\ call[r].tab = t /\ call[r].at # "gone"
        /\ inbox' = inbox \/ inbox' = Posted(inbox, t, [type |-> "REQUEST", id |-> r])
        /\ \E x : call' = [call EXCEPT ![r].at = x]
        /\ UNCHANGED <<page, election, transport, storage, open, others, held, adding, sending,
                       atWallet, sent, clearing, bounds>>
    BY <1>15 DEF MakeRequestBC, RelayRequest, GoesOn
  <2>2. t \in page
    BY <1>0, <2>1 DEF ClosedIsEmpty
  <2>3. CallsOf(t)
    BY <1>0, <2>1, CallOfIsSet
  <2>4. \A u \in Tabs : u \notin page => inbox'[u] = inbox[u]
    BY <1>0, <2>1, PostedTypes
  <2>5. ElectionTypes' /\ StorageTypes' /\ OpenTypes'
    BY <1>0, <2>1
       DEF ElectionTypes, StorageTypes, OpenTypes, election, transport, storage, bounds
  <2>6. StepOf(t)
    BY <2>1, <2>2, <2>3, <2>4 DEF StepOf, CallsOf, Memory, election, transport, storage
  <2>. QED
    BY <2>1, <2>2, <2>5, <2>6, QuietAccountStep DEF transport, storage
<1>16. ASSUME NEW t \in Tabs, NEW r \in Requests, Forward(t, r)
       PROVE  AccountInv'
  <2>1. /\ r \in held[t]
        /\ held' = [held EXCEPT ![t] = @ \ {r}]
        /\ others' = [others EXCEPT ![t] = @ \cup {r}]
        /\ adding' = adding \/ adding' = [adding EXCEPT ![t] = @ \cup {r}]
        /\ UNCHANGED <<page, election, transport, storage, inbox, open, sending, atWallet, call,
                       clearing, bounds>>
    BY <1>16 DEF Forward
  <2>2. t \in page
    BY <1>0, <2>1 DEF ClosedIsEmpty, Memory, NoMemory
  <2>3. others' \in [Tabs -> SUBSET Requests]
    BY <1>0, <2>1 DEF OpenTypes
  <2>4. ElectionTypes' /\ StorageTypes' /\ OpenTypes'
    BY <1>0, <2>1, <2>3
       DEF ElectionTypes, StorageTypes, OpenTypes, election, transport, storage, bounds
  <2>5. \A u \in Tabs : u # t => held'[u] = held[u] /\ adding'[u] = adding[u]
    BY <1>0, <2>1 DEF RequestTypes
  <2>6. StepOf(t)
    BY <2>1, <2>2, <2>5 DEF StepOf, Memory, election, transport, storage
  <2>. QED
    BY <2>1, <2>2, <2>4, <2>6, QuietAccountStep DEF transport, storage
<1>17. ASSUME NEW t \in Tabs, NEW r \in Requests, Answer(t, r)
       PROVE  AccountInv'
  <2>1. <<r, t>> \in atWallet /\ atWallet' \subseteq atWallet /\ HandleResponse(t, r, inbox)
    BY <1>17 DEF Answer
  <2>2. t \in page
    BY <1>0, <2>1 DEF ClosedIsEmpty
  <2>. QED
    BY <1>0, <2>1, <2>2, AnsweringKeepsAccountInv
<1>. QED
  BY <1>1, <1>2, <1>3, <1>4, <1>5, <1>6, <1>7, <1>8, <1>9, <1>10, <1>11, <1>12, <1>13, <1>14,
     <1>15, <1>16, <1>17, LoadingKeepsAccountInv, ClosingKeepsAccountInv DEF Next, Progress

\* TypeOK, which says of pages that are closed that they have nothing left, and
\* that no page keeps an account without the transport that serves it
\* (setActiveAccount, DAppClient.ts:960).
THEOREM TypeCorrect == Spec => []TypeOK
<1>. QED
  BY InitAskInv, NextKeepsAskInv, InitAccountInv, NextKeepsAccountInv, AccountInvIsTyped,
     PTL DEF Spec

-----------------------------------------------------------------------------
(***************************************************************************)
(* The pages follow what is stored: changes of the account that do not     *)
(* overlap                                                                 *)
(***************************************************************************)

Holds(q, x) == \E i \in 1..Len(q) : q[i] = x

\* Are the pages told, by the events ev, of the value v?
Tells(ev, v) == \E u \in Tabs : Holds(ev[u], v)

\* Is a page asked, in the inboxes in, to disconnect?
Asks(in) == \E u \in Tabs : Holds(in[u], [type |-> "DISCONNECT"])

\* The account is being cleared everywhere, or nothing happens.
Ending ==
  /\ saving = {}
  /\ ~Tells(events, TRUE)
  /\ stored => ~Tells(events, FALSE) /\ ~Asks(inbox)

\* An account is being set everywhere, or nothing happens.
Setting ==
  /\ clearing = {}
  /\ ~Tells(events, FALSE)
  /\ ~Asks(inbox)
  /\ \A t \in saving : account[t]
  /\ stored \/ ~Tells(events, TRUE)

\* A page that has heard every storage event has what is stored, or is about to
\* store or to clear it.
PagesFollow ==
  \A t \in page : events[t] = <<>> => account[t] = stored \/ t \in clearing \/ t \in saving

Following ==
  /\ \A t \in Tabs : late[t] = 0
  /\ clearing \subseteq {leader}
  /\ Ending \/ Setting
  /\ PagesFollow

FollowInv == overlaps = 0 => Following

\* What a queue holds.
LEMMA QueueFacts ==
  ASSUME NEW S, NEW s \in Seq(S)
  PROVE  /\ \A m \in S : \A x : Holds(Append(s, m), x) => Holds(s, x) \/ x = m
         /\ \A m \in S : Append(s, m) # <<>>
         /\ s # <<>> => /\ \A x : Holds(Tail(s), x) => Holds(s, x)
                        /\ Holds(s, Head(s))
                        /\ Tail(s) \in Seq(S)
         /\ \A x : Holds(s, x) => x \in Range(s)
         /\ \A x : ~Holds(<<>>, x)
<1>1. ASSUME NEW m \in S, NEW x, Holds(Append(s, m), x)
      PROVE  Holds(s, x) \/ x = m
  <2>1. PICK i \in 1..Len(Append(s, m)) : Append(s, m)[i] = x
    BY <1>1 DEF Holds
  <2>2. /\ Len(s) \in Nat /\ Len(Append(s, m)) = Len(s) + 1
        /\ Append(s, m)[Len(s) + 1] = m
        /\ \A j \in 1..Len(s) : Append(s, m)[j] = s[j]
    BY AppendProperties
  <2>3. i \in 1..Len(s) \/ i = Len(s) + 1
    BY <2>1, <2>2
  <2>. QED
    BY <2>1, <2>2, <2>3 DEF Holds
<1>2. ASSUME NEW m \in S PROVE Append(s, m) # <<>>
  BY AppendProperties
<1>3. ASSUME s # <<>>
      PROVE  /\ \A x : Holds(Tail(s), x) => Holds(s, x)
             /\ Holds(s, Head(s))
             /\ Tail(s) \in Seq(S)
  <2>1. /\ Tail(s) \in Seq(S) /\ Len(s) \in Nat \ {0} /\ Len(Tail(s)) = Len(s) - 1
        /\ \A i \in 1..Len(Tail(s)) : Tail(s)[i] = s[i + 1]
        /\ Head(s) = s[1]
    BY <1>3, HeadTailProperties
  <2>2. \A i \in 1..Len(Tail(s)) : i + 1 \in 1..Len(s)
    BY <2>1
  <2>. QED
    BY <2>1, <2>2 DEF Holds
<1>4. ASSUME NEW x, Holds(s, x) PROVE x \in Range(s)
  <2>1. PICK i \in 1..Len(s) : s[i] = x
    BY <1>4 DEF Holds
  <2>2. i \in DOMAIN s
    BY <2>1
  <2>. QED
    BY <2>1, <2>2 DEF Range
<1>5. \A x : ~Holds(<<>>, x)
  BY DEF Holds
<1>. QED
  BY <1>1, <1>2, <1>3, <1>4, <1>5

LEMMA AppendNotEmpty ==
  ASSUME NEW s \in Seq(BOOLEAN)
  PROVE  Append(s, TRUE) # <<>> /\ Append(s, FALSE) # <<>>
<1>1. \A v \in BOOLEAN : Append(s, v) # <<>>
  BY QueueFacts
<1>2. TRUE \in BOOLEAN /\ FALSE \in BOOLEAN
  OBVIOUS
<1>. QED
  BY <1>1, <1>2, Zenon

\* The events ev2 tell only what the events ev1 do.
Fewer(ev2, ev1) == \A v \in BOOLEAN : Tells(ev2, v) => Tells(ev1, v)

LEMMA ToldTells ==
  ASSUME NEW ev \in EventQueues, NEW t \in Tabs, NEW value \in BOOLEAN
  PROVE  /\ \A v \in BOOLEAN : Tells(Told(ev, t, value), v) => Tells(ev, v) \/ v = value
         /\ \A u \in page : u \in Tabs /\ u # t /\ Told(ev, t, value)[u] = <<>> =>
              (ev[u] = <<>>) /\ (stored = value)
         /\ Told(ev, t, value)[t] = ev[t]
<1>1. \A u \in Tabs : ev[u] \in Seq(BOOLEAN)
  BY DEF EventQueues
<1>2. \A u \in Tabs : Told(ev, t, value)[u] = ev[u] \/ Told(ev, t, value)[u] = Append(ev[u], value)
  BY DEF Told
<1>3. ASSUME NEW v \in BOOLEAN, Tells(Told(ev, t, value), v)
      PROVE  Tells(ev, v) \/ v = value
  <2>1. PICK u \in Tabs : Holds(Told(ev, t, value)[u], v)
    BY <1>3 DEF Tells
  <2>2. Holds(Append(ev[u], value), v) => Holds(ev[u], v) \/ v = value
    BY <1>1, QueueFacts
  <2>3. Holds(ev[u], v) \/ v = value
    BY <1>2, <2>1, <2>2
  <2>. QED
    BY <2>3 DEF Tells
<1>4. ASSUME NEW u \in page, u \in Tabs, u # t, Told(ev, t, value)[u] = <<>>
      PROVE  ev[u] = <<>> /\ stored = value
  <2>1. Append(ev[u], value) # <<>>
    BY <1>1, <1>4, QueueFacts
  <2>. QED
    BY <1>4, <2>1 DEF Told
<1>. QED
  BY <1>3, <1>4 DEF Told

\* Posting anything else asks nobody to disconnect.
LEMMA PostedAsks ==
  ASSUME NEW in \in Inboxes, NEW t \in Tabs, NEW m \in Messages, m.type # "DISCONNECT",
         Asks(Posted(in, t, m))
  PROVE  Asks(in)
<1>1. PICK u \in Tabs : Holds(Posted(in, t, m)[u], [type |-> "DISCONNECT"])
  BY DEF Asks
<1>2. Posted(in, t, m)[u] = in[u] \/ Posted(in, t, m)[u] = Append(in[u], m)
  BY DEF Posted
<1>3. in[u] \in Seq(Messages)
  BY DEF Inboxes
<1>4. Holds(Append(in[u], m), [type |-> "DISCONNECT"]) => Holds(in[u], [type |-> "DISCONNECT"])
  <2>1. [type |-> "DISCONNECT"] # m
    OBVIOUS
  <2>. QED
    BY <1>3, <2>1, QueueFacts
<1>5. Holds(in[u], [type |-> "DISCONNECT"])
  BY <1>1, <1>2, <1>4
<1>. QED
  BY <1>5 DEF Asks

\* Taking a message or an event, and emptying a queue.
LEMMA TakenAsks ==
  ASSUME NEW in \in Inboxes, NEW t \in Tabs
  PROVE  /\ in[t] # <<>> /\ Asks([in EXCEPT ![t] = Tail(@)]) => Asks(in)
         /\ in[t] # <<>> /\ Head(in[t]) = [type |-> "DISCONNECT"] => Asks(in)
         /\ Asks([in EXCEPT ![t] = <<>>]) => Asks(in)
<1>1. \A u \in Tabs : in[u] \in Seq(Messages)
  BY DEF Inboxes
<1>2. ASSUME in[t] # <<>>, Asks([in EXCEPT ![t] = Tail(@)])
      PROVE  Asks(in)
  <2>1. PICK u \in Tabs : Holds([in EXCEPT ![t] = Tail(@)][u], [type |-> "DISCONNECT"])
    BY <1>2 DEF Asks
  <2>2. Holds(in[u], [type |-> "DISCONNECT"])
    BY <1>1, <1>2, <2>1, QueueFacts DEF Inboxes
  <2>. QED
    BY <2>2 DEF Asks
<1>3. in[t] # <<>> /\ Head(in[t]) = [type |-> "DISCONNECT"] => Asks(in)
  BY <1>1, QueueFacts DEF Asks
<1>4. ASSUME Asks([in EXCEPT ![t] = <<>>])
      PROVE  Asks(in)
  <2>1. PICK u \in Tabs : Holds([in EXCEPT ![t] = <<>>][u], [type |-> "DISCONNECT"])
    BY <1>4 DEF Asks
  <2>2. Holds(in[u], [type |-> "DISCONNECT"])
    BY <1>1, <2>1, QueueFacts DEF Inboxes
  <2>. QED
    BY <2>2 DEF Asks
<1>. QED
  BY <1>2, <1>3, <1>4

LEMMA TakenTells ==
  ASSUME NEW ev \in EventQueues, NEW t \in Tabs
  PROVE  /\ ev[t] # <<>> => /\ Fewer([ev EXCEPT ![t] = Tail(@)], ev)
                            /\ Tells(ev, Head(ev[t]))
                            /\ [ev EXCEPT ![t] = Tail(@)] \in EventQueues
         /\ Fewer([ev EXCEPT ![t] = <<>>], ev)
<1>1. \A u \in Tabs : ev[u] \in Seq(BOOLEAN)
  BY DEF EventQueues
<1>2. ASSUME ev[t] # <<>>, NEW v \in BOOLEAN, Tells([ev EXCEPT ![t] = Tail(@)], v)
      PROVE  Tells(ev, v)
  <2>1. PICK u \in Tabs : Holds([ev EXCEPT ![t] = Tail(@)][u], v)
    BY <1>2 DEF Tells
  <2>2. Holds(ev[u], v)
    BY <1>1, <1>2, <2>1, QueueFacts DEF EventQueues
  <2>. QED
    BY <2>2 DEF Tells
<1>3. ev[t] # <<>> => Tells(ev, Head(ev[t])) /\ Tail(ev[t]) \in Seq(BOOLEAN)
  BY <1>1, QueueFacts DEF Tells
<1>4. ASSUME NEW v \in BOOLEAN, Tells([ev EXCEPT ![t] = <<>>], v)
      PROVE  Tells(ev, v)
  <2>1. PICK u \in Tabs : Holds([ev EXCEPT ![t] = <<>>][u], v)
    BY <1>4 DEF Tells
  <2>2. Holds(ev[u], v)
    BY <1>1, <2>1, QueueFacts DEF EventQueues
  <2>. QED
    BY <2>2 DEF Tells
<1>. QED
  BY <1>2, <1>3, <1>4 DEF Fewer, EventQueues

\* At rest there is neither an ending nor a setting under way.
LEMMA RestFacts ==
  ASSUME RequestTypes, StorageTypes, NEW t \in Tabs, AtRest(t)
  PROVE  Ending /\ Setting /\ ~Busy(t)
<1>1. \A u \in Tabs : events[u] = <<>> /\ [type |-> "DISCONNECT"] \notin Range(inbox[u])
  BY DEF AtRest
<1>2. clearing = {} /\ saving = {} /\ ~Busy(t)
  BY DEF AtRest
<1>3. \A v : ~Tells(events, v)
  BY <1>1, QueueFacts DEF Tells, StorageTypes, EventQueues
<1>4. ~Asks(inbox)
  <2>1. \A u \in Tabs : inbox[u] \in Seq(Messages)
    BY DEF RequestTypes, Inboxes
  <2>. QED
    BY <1>1, <2>1, QueueFacts DEF Asks
<1>. QED
  BY <1>2, <1>3, <1>4 DEF Ending, Setting

\* A step that leaves the account, the storage and what is asked of the pages.
LEMMA QuietFollows ==
  ASSUME Following, UNCHANGED <<page, storage, clearing>>, clearing \subseteq Tabs,
         leader' = leader \/ leader = NoTab, Asks(inbox') => Asks(inbox)
  PROVE  Following'
<1>1. clearing' \subseteq {leader'}
  BY TabsAssumption DEF Following
<1>2. (Ending => Ending') /\ (Setting => Setting') /\ (PagesFollow => PagesFollow')
  BY DEF storage, Ending, Setting, PagesFollow
<1>. QED
  BY <1>1, <1>2 DEF Following, storage

\* The account is cleared in t.
LEMMA NoAccountFollows ==
  ASSUME Following, ElectionTypes, StorageTypes, Ending, NEW t \in page,
         NEW ev \in EventQueues, \A u \in Tabs : u # t => ev[u] = events[u],
         Fewer(ev, events), NoAccount(t, ev), UNCHANGED <<page, leader>>,
         clearing' \subseteq {leader}, \A u \in clearing : u = t \/ u \in clearing'
  PROVE  Following'
<1>1. /\ account' = [account EXCEPT ![t] = FALSE]
      /\ stored' = FALSE
      /\ events' = Told(ev, t, FALSE)
      /\ Dropped(t)
      /\ t \in Tabs
  BY DEF NoAccount, ElectionTypes
<1>2. saving = {} /\ saving' = {} /\ late' = late
  BY <1>1, DroppedStep DEF Ending
<1>3. ~Tells(events', TRUE)
  BY <1>1, ToldTells DEF Ending, Fewer
<1>4. Ending'
  BY <1>1, <1>2, <1>3 DEF Ending
<1>5. PagesFollow'
  <2>1. ASSUME NEW u \in page, events'[u] = <<>>
        PROVE  account'[u] = stored' \/ u \in clearing'
    <3>1. u \in Tabs
      BY DEF ElectionTypes
    <3>2. CASE u = t
      BY <1>1, <3>2 DEF StorageTypes
    <3>3. CASE u # t
      <4>0. ev[u] = events[u] /\ Told(ev, t, FALSE)[u] = <<>>
        BY <1>1, <2>1, <3>1, <3>3
      <4>2. ev[u] \in Seq(BOOLEAN)
        BY <3>1 DEF EventQueues
      <4>3. Append(ev[u], FALSE) # <<>>
        BY <4>2, AppendNotEmpty
      <4>1. events[u] = <<>> /\ stored = FALSE
        BY <3>1, <3>3, <4>0, <4>3 DEF Told
      <4>4. account'[u] = account[u]
        BY <1>1, <3>1, <3>3 DEF StorageTypes
      <4>. QED
        BY <1>1, <1>2, <3>3, <4>1, <4>4 DEF Following, PagesFollow
    <3>. QED
      BY <3>2, <3>3
  <2>. QED
    BY <2>1 DEF PagesFollow
<1>. QED
  BY <1>2, <1>4, <1>5 DEF Following

\* setActiveAccount(undefined) in t.
LEMMA ClearingFollows ==
  ASSUME Following, RequestTypes, ElectionTypes, StorageTypes, Ending, NEW t \in page,
         NEW in \in Inboxes, Asks(in) => Asks(inbox),
         NEW ev \in EventQueues, \A u \in Tabs : u # t => ev[u] = events[u],
         Fewer(ev, events), SetActiveAccount(t, in, ev)
  PROVE  Following'
<1>1. UNCHANGED <<page, leader>>
  BY DEF SetActiveAccount, election
<1>2. CASE NoAccount(t, ev) /\ UNCHANGED clearing
  <2>1. clearing' \subseteq {leader}
    BY <1>2 DEF Following
  <2>. QED
    BY <1>1, <1>2, <2>1, NoAccountFollows
<1>3. CASE /\ IsLeader(t) /\ clearing' = clearing \cup {t}
           /\ inbox' = in /\ events' = ev
           /\ UNCHANGED <<account, stored, saving, late>>
  <2>1. Ending'
    BY <1>3 DEF Ending, Fewer
  <2>2. PagesFollow'
    BY <1>1, <1>3 DEF Following, PagesFollow, ElectionTypes
  <2>3. clearing' \subseteq {leader'}
    BY <1>1, <1>3 DEF Following, IsLeader
  <2>. QED
    BY <1>3, <2>1, <2>2, <2>3 DEF Following
<1>. QED
  BY <1>2, <1>3 DEF SetActiveAccount

\* The account is stored, which t has.
LEMMA SaveFollows ==
  ASSUME Following, ElectionTypes, StorageTypes, Setting, NEW t \in page,
         NEW ev \in EventQueues, \A u \in Tabs : u # t => ev[u] = events[u],
         Fewer(ev, events), Save(t, ev), account'[t] = TRUE,
         \A u \in Tabs : u # t => account'[u] = account[u], saving' \subseteq saving,
         Asks(inbox') => Asks(inbox), UNCHANGED <<page, leader, clearing, late>>
  PROVE  Following'
<1>1. stored' = TRUE /\ events' = Told(ev, t, TRUE) /\ t \in Tabs
  BY DEF Save, ElectionTypes
<1>2. ~Tells(events', FALSE)
  BY <1>1, ToldTells DEF Setting, Fewer
<1>3. ASSUME NEW u \in saving'
      PROVE  account'[u]
  <2>1. u \in saving /\ u \in Tabs /\ account[u]
    BY DEF Setting, StorageTypes
  <2>2. CASE u = t
    BY <2>2
  <2>3. CASE u # t
    BY <2>1, <2>3
  <2>. QED
    BY <2>2, <2>3
<1>4. Setting'
  BY <1>1, <1>2, <1>3 DEF Setting
<1>5. PagesFollow'
  <2>1. ASSUME NEW u \in page, events'[u] = <<>>
        PROVE  account'[u] = stored' \/ u \in saving'
    <3>1. u \in Tabs
      BY DEF ElectionTypes
    <3>2. CASE u = t
      BY <1>1, <3>2 DEF StorageTypes
    <3>3. CASE u # t
      <4>0. ev[u] = events[u] /\ Told(ev, t, TRUE)[u] = <<>>
        BY <1>1, <2>1, <3>1, <3>3
      <4>2. ev[u] \in Seq(BOOLEAN)
        BY <3>1 DEF EventQueues
      <4>3. Append(ev[u], TRUE) # <<>>
        BY <4>2, AppendNotEmpty
      <4>1. events[u] = <<>> /\ stored = TRUE
        BY <3>1, <3>3, <4>0, <4>3 DEF Told
      <4>4. account'[u] = account[u]
        BY <3>1, <3>3 DEF StorageTypes
      <4>. QED
        BY <1>1, <3>3, <4>1, <4>4 DEF Following, PagesFollow, Setting
    <3>. QED
      BY <3>2, <3>3
  <2>. QED
    BY <2>1 DEF PagesFollow
<1>. QED
  BY <1>4, <1>5 DEF Following

\* An account is set in t.
LEMMA NewAccountFollows ==
  ASSUME Following, ElectionTypes, StorageTypes, Setting, NEW t \in page,
         NEW ev \in EventQueues, \A u \in Tabs : u # t => ev[u] = events[u],
         Fewer(ev, events), NewAccount(t, ev),
         Asks(inbox') => Asks(inbox), UNCHANGED <<page, leader, clearing>>
  PROVE  Following'
<1>1. account' = [account EXCEPT ![t] = TRUE] /\ UNCHANGED late
  BY DEF NewAccount
<1>2. CASE Save(t, ev) /\ UNCHANGED saving
  <2>1. /\ saving' \subseteq saving /\ account'[t] = TRUE
        /\ \A u \in Tabs : u # t => account'[u] = account[u]
    BY <1>1, <1>2 DEF StorageTypes, ElectionTypes
  <2>2. UNCHANGED <<page, leader, clearing, late>>
    BY <1>1
  <2>3. Save(t, ev)
    BY <1>2
  <2>. QED
    BY <2>1, <2>2, <2>3, SaveFollows
<1>3. CASE saving' = saving \cup {t} /\ events' = ev /\ UNCHANGED stored
  <2>1. ASSUME NEW u \in saving'
        PROVE  account'[u]
    <3>1. u \in Tabs /\ (u = t \/ account[u])
      BY <1>3 DEF Setting, StorageTypes, ElectionTypes
    <3>. QED
      BY <1>1, <3>1 DEF StorageTypes
  <2>2. Setting'
    BY <1>3, <2>1 DEF Setting, Fewer
  <2>3. PagesFollow'
    <3>1. ASSUME NEW u \in page, u # t, events'[u] = <<>>
          PROVE  account'[u] = stored' \/ u \in clearing' \/ u \in saving'
      <4>1. u \in Tabs /\ events[u] = <<>> /\ account'[u] = account[u]
        BY <1>1, <1>3, <3>1 DEF ElectionTypes, StorageTypes
      <4>. QED
        BY <1>3, <4>1 DEF Following, PagesFollow
    <3>. QED
      BY <1>3, <3>1 DEF PagesFollow
  <2>. QED
    BY <1>1, <2>2, <2>3 DEF Following
<1>. QED
  BY <1>2, <1>3 DEF NewAccount


\* handleRequestError changes nothing of this: the page that has no account is
\* not about to store one.
LEMMA ErrorFollows ==
  ASSUME Following, StorageTypes, NEW t \in Tabs, HandleRequestError(t)
  PROVE  UNCHANGED storage
<1>1. CASE account[t]
  BY <1>1 DEF HandleRequestError, storage
<1>2. CASE ~account[t]
  <2>1. t \notin saving
    BY <1>2 DEF Following, Ending, Setting
  <2>2. late' = late /\ saving' = saving
    BY <1>2, <2>1, DroppedStep DEF HandleRequestError
  <2>. QED
    BY <2>2 DEF HandleRequestError, storage
<1>. QED
  BY <1>1, <1>2

\* An answer in t.
LEMMA AnsweringFollows ==
  ASSUME Following, RequestTypes, ElectionTypes, StorageTypes, OpenTypes, overlaps' = 0,
         NEW t \in page, NEW r \in Requests, NEW in \in Inboxes, Asks(in) => Asks(inbox),
         HandleResponse(t, r, in)
  PROVE  Following'
<1>1. t \in Tabs /\ UNCHANGED <<page, leader, clearing>>
  BY DEF HandleResponse, ElectionTypes
<1>2. Asks(inbox') => Asks(inbox)
  <2>1. [type |-> "RESPONSE", id |-> r] \in Messages
    BY DEF Messages
  <2>2. [type |-> "RESPONSE", id |-> r].type # "DISCONNECT"
    OBVIOUS
  <2>3. Asks(Posted(in, t, [type |-> "RESPONSE", id |-> r])) => Asks(in)
    BY <1>1, <2>1, <2>2, PostedAsks
  <2>. QED
    BY <2>3 DEF HandleResponse
<1>3. CASE UNCHANGED storage
  BY <1>1, <1>2, <1>3, QuietFollows DEF OpenTypes
<1>4. CASE HandleRequestError(t)
  BY <1>1, <1>3, <1>4, ErrorFollows
<1>5. CASE Changes(t) /\ NewAccount(t, events)
  <2>1. AtRest(t)
    BY <1>1, <1>5, ChangesStep
  <2>2. Setting
    BY <1>1, <2>1, RestFacts
  <2>3. Fewer(events, events) /\ events \in EventQueues
    BY DEF Fewer, StorageTypes
  <2>. QED
    BY <1>1, <1>2, <1>5, <2>2, <2>3, NewAccountFollows
<1>. QED
  BY <1>3, <1>4, <1>5 DEF HandleResponse, Settle

\* A page is opened.
LEMMA LoadingFollows ==
  ASSUME Following, ElectionTypes, StorageTypes, OpenTypes, NEW t \in Tabs \ page,
         ClosedIsEmpty(t), Load(t)
  PROVE  Following'
<1>1. /\ page' = page \cup {t}
      /\ account' = [account EXCEPT ![t] = stored]
      /\ UNCHANGED <<leader, stored, events, late, inbox, clearing>>
  BY DEF Load, ActiveAccountLoaded, requests
<1>2. account'[t] = stored /\ \A u \in Tabs : u # t => account'[u] = account[u]
  BY <1>1 DEF StorageTypes
<1>3. PagesFollow'
  <2>1. saving \subseteq saving'
    BY DEF Load, InitInternalTransports
  <2>2. ASSUME NEW u \in page', events'[u] = <<>>
        PROVE  account'[u] = stored' \/ u \in clearing' \/ u \in saving'
    <3>1. CASE u = t
      BY <1>1, <1>2, <3>1
    <3>2. CASE u # t
      BY <1>1, <1>2, <2>1, <2>2, <3>2 DEF Following, PagesFollow, ElectionTypes
    <3>. QED
      BY <3>1, <3>2
  <2>. QED
    BY <2>2 DEF PagesFollow
<1>4. CASE saving' = saving
  <2>1. Setting => \A u \in saving' : account'[u]
    BY <1>2, <1>4 DEF Setting, ClosedIsEmpty, StorageTypes
  <2>2. (Ending => Ending') /\ (Setting => Setting')
    BY <1>1, <1>4, <2>1 DEF Ending, Setting
  <2>. QED
    BY <1>1, <1>3, <2>2 DEF Following
<1>5. CASE stored /\ CheckIfBCLeaderExists(t) # "secondary" /\ saving' = saving \cup {t}
  <2>1. leader = NoTab
    BY <1>5 DEF CheckIfBCLeaderExists, HasLeader, IsLeader, ClosedIsEmpty
  <2>2. clearing = {}
    BY <2>1, TabsAssumption DEF Following, OpenTypes
  <2>3. Setting
    BY <1>5, <2>2 DEF Following, Ending, Setting
  <2>4. ASSUME NEW u \in saving' PROVE account'[u]
    BY <1>2, <1>5, <2>3 DEF Setting, StorageTypes
  <2>5. Setting'
    BY <1>1, <2>3, <2>4 DEF Setting
  <2>. QED
    BY <1>1, <1>3, <2>5 DEF Following
<1>. QED
  BY <1>4, <1>5 DEF Load, InitInternalTransports

\* A page is closed.
LEMMA ClosingFollows ==
  ASSUME Following, RequestTypes, ElectionTypes, StorageTypes, OpenTypes, NEW t \in Tabs,
         Close(t)
  PROVE  Following'
<1>1. /\ page' = page \ {t}
      /\ leader' = IF leader = t THEN NoTab ELSE leader
      /\ account' = [account EXCEPT ![t] = FALSE]
      /\ events' = [events EXCEPT ![t] = <<>>]
      /\ saving' = saving \ {t}
      /\ late' = [late EXCEPT ![t] = 0]
      /\ clearing' = clearing \ {t}
      /\ stored' = stored
  BY DEF Close, IsLeader
<1>2. Fewer(events', events)
  BY <1>1, TakenTells DEF StorageTypes
<1>3. Asks(inbox') => Asks(inbox)
  <2>. DEFINE m == [type |-> "LEADER_DEAD"]
  <2>1. m \in Messages /\ m.type # "DISCONNECT"
    BY DEF Messages
  <2>2. Posted(inbox, t, m) \in Inboxes
    BY <2>1, PostedIsCalm DEF RequestTypes, Calm
  <2>3. Asks(Posted(inbox, t, m)) => Asks(inbox)
    BY <2>1, PostedAsks DEF RequestTypes
  <2>4. Asks([Posted(inbox, t, m) EXCEPT ![t] = <<>>]) => Asks(Posted(inbox, t, m))
    BY <2>2, TakenAsks
  <2>5. Asks([inbox EXCEPT ![t] = <<>>]) => Asks(inbox)
    BY TakenAsks DEF RequestTypes
  <2>. QED
    BY <2>3, <2>4, <2>5 DEF Close
<1>4. \A u \in Tabs : u # t => account'[u] = account[u] /\ events'[u] = events[u]
  BY <1>1 DEF StorageTypes, EventQueues
<1>5. Ending => Ending'
  BY <1>1, <1>2, <1>3 DEF Ending, Fewer
<1>6. Setting => Setting'
  <2>1. Setting => \A u \in saving' : account'[u]
    BY <1>1, <1>4 DEF Setting, StorageTypes
  <2>. QED
    BY <1>1, <1>2, <1>3, <2>1 DEF Setting, Fewer
<1>7. PagesFollow'
  BY <1>1, <1>4 DEF Following, PagesFollow, ElectionTypes
<1>8. \A u \in Tabs : late'[u] = 0
  BY <1>1 DEF Following, StorageTypes
<1>9. clearing' \subseteq {leader'}
  BY <1>1 DEF Following
<1>. QED
  BY <1>5, <1>6, <1>7, <1>8, <1>9 DEF Following

LEMMA NextKeepsFollowInv == AskInv /\ AccountInv /\ FollowInv /\ [Next]_vars => FollowInv'
<1>. SUFFICES ASSUME AskInv, AccountInv, FollowInv, [Next]_vars, overlaps' = 0
              PROVE  Following'
  BY DEF FollowInv
<1>0. /\ RequestTypes /\ ElectionTypes /\ StorageTypes /\ OpenTypes
      /\ inbox \in Inboxes /\ events \in EventQueues /\ Fewer(events, events)
      /\ \A t \in Tabs \ page : ClosedIsEmpty(t)
      /\ clearing \subseteq Tabs
  BY DEF AskInv, AccountInv, RequestTypes, StorageTypes, OpenTypes, Fewer
<1>1. ASSUME UNCHANGED overlaps PROVE Following
  BY <1>1 DEF FollowInv
<1>2. ASSUME NEW t \in Tabs, Changes(t)
      PROVE  Following /\ Ending /\ Setting
  <2>1. overlaps = 0 /\ AtRest(t)
    BY <1>0, <1>2, ChangesStep
  <2>. QED
    BY <1>0, <2>1, RestFacts DEF FollowInv
<1>3. ASSUME UNCHANGED <<page, storage, clearing, overlaps>>,
             leader' = leader \/ leader = NoTab, Asks(inbox') => Asks(inbox)
      PROVE  Following'
  BY <1>0, <1>1, <1>3, QuietFollows
<1>4. CASE UNCHANGED vars
  BY <1>3, <1>4 DEF vars, bounds, election
<1>5. ASSUME NEW t \in Tabs, Elected(t)
      PROVE  Following'
  BY <1>3, <1>5 DEF Elected, HasLeader, bounds
<1>6. ASSUME NEW t \in Tabs, Connected(t)
      PROVE  Following'
  <2>1. /\ t \in page /\ Following
        /\ UNCHANGED <<page, leader, account, late, inbox, clearing, overlaps>>
    BY <1>0, <1>1, <1>6 DEF Connected, ClosedIsEmpty, Memory, NoMemory, election, bounds
  <2>2. CASE t \notin saving
    BY <1>3, <1>6, <2>1, <2>2 DEF Connected, storage
  <2>3. CASE t \in saving
    <3>1. Save(t, events) /\ saving' \subseteq saving
      BY <1>6, <2>3 DEF Connected
    <3>2. Setting /\ account[t] = TRUE
      BY <1>0, <2>1, <2>3 DEF Following, Ending, Setting, StorageTypes
    <3>3. account'[t] = TRUE /\ \A u \in Tabs : u # t => account'[u] = account[u]
      BY <2>1, <3>2
    <3>. QED
      BY <1>0, <2>1, <3>1, <3>2, <3>3, SaveFollows
  <2>. QED
    BY <2>2, <2>3
<1>7. ASSUME NEW t \in Tabs, ConnectedLate(t)
      PROVE  Following'
  BY <1>1, <1>7 DEF ConnectedLate, Following, bounds
<1>8. ASSUME NEW t \in Tabs, Disconnected(t)
      PROVE  Following'
  <2>1. /\ t \in clearing /\ clearing' = clearing \ {t}
        /\ NoAccount(t, events)
        /\ UNCHANGED <<page, leader, overlaps>>
    BY <1>8 DEF Disconnected, election, bounds
  <2>2. Following /\ t \in page
    BY <1>0, <1>1, <2>1 DEF ClosedIsEmpty
  <2>3. Ending
    BY <2>1, <2>2 DEF Following, Setting
  <2>4. clearing' \subseteq {leader} /\ \A u \in clearing : u = t \/ u \in clearing'
    BY <2>1, <2>2 DEF Following
  <2>. QED
    BY <1>0, <2>1, <2>2, <2>3, <2>4, NoAccountFollows
<1>9. ASSUME NEW t \in Tabs, Disconnect(t)
      PROVE  Following'
  <2>1. t \in page /\ SetActiveAccount(t, inbox, events) /\ Changes(t)
    BY <1>0, <1>9 DEF Disconnect, ClosedIsEmpty, Memory, NoMemory
  <2>. QED
    BY <1>0, <1>2, <2>1, ClearingFollows
<1>10. ASSUME NEW t \in Tabs, ChannelClosed(t)
       PROVE  Following'
  <2>1. /\ t \in page /\ Changes(t) /\ NoAccount(t, events)
        /\ UNCHANGED <<page, leader>>
        /\ clearing' = clearing \/ (leader = t /\ clearing' = clearing \cup {t})
    BY <1>0, <1>10
       DEF ChannelClosed, ClosedIsEmpty, Memory, NoMemory, election, IsLeader
  <2>2. Following /\ Ending
    BY <1>2, <2>1
  <2>3. clearing' \subseteq {leader} /\ \A u \in clearing : u = t \/ u \in clearing'
    BY <2>1, <2>2 DEF Following
  <2>. QED
    BY <1>0, <2>1, <2>2, <2>3, NoAccountFollows
<1>11. ASSUME NEW t \in Tabs, RelayerError(t)
       PROVE  Following'
  <2>1. /\ t \in page /\ Changes(t) /\ NoAccount(t, events)
        /\ UNCHANGED <<page, leader, clearing>>
    BY <1>0, <1>11
       DEF RelayerError, ResetInvalidState, ClosedIsEmpty, Memory, NoMemory, election
  <2>2. Following /\ Ending
    BY <1>2, <2>1
  <2>3. clearing' \subseteq {leader} /\ \A u \in clearing : u = t \/ u \in clearing'
    BY <2>1, <2>2 DEF Following
  <2>. QED
    BY <1>0, <2>1, <2>2, <2>3, NoAccountFollows
<1>12. ASSUME NEW t \in Tabs, OnBCMessage(t)
       PROVE  Following'
  <2>. DEFINE m == Head(inbox[t])
              in == [inbox EXCEPT ![t] = Tail(@)]
  <2>1. inbox[t] # <<>> /\ t \in page
    BY <1>0, <1>12 DEF OnBCMessage, ClosedIsEmpty
  <2>2. in \in Inboxes
    BY <1>0, <2>1, TakenIsCalm DEF Calm
  <2>3. /\ Asks(in) => Asks(inbox)
        /\ m = [type |-> "DISCONNECT"] => Asks(inbox)
    BY <1>0, <2>1, TakenAsks
  <2>4. m \in Messages
    BY <1>0, <2>1 DEF Inboxes
  <2>. HIDE DEF m, in
  <2>5. CASE m.type = "RESPONSE" /\ HandleResponse(t, m.id, in)
    <3>1. m.id \in Requests
      BY <2>4, <2>5 DEF Messages
    <3>2. Following
      <4>1. CASE UNCHANGED overlaps
        BY <1>1, <4>1
      <4>2. CASE Changes(t)
        BY <1>2, <4>2
      <4>. QED
        BY <2>5, <4>1, <4>2 DEF HandleResponse, Settle, HandleRequestError
    <3>. QED
      BY <1>0, <2>1, <2>2, <2>3, <2>5, <3>1, <3>2, AnsweringFollows
  <2>6. CASE m.type = "DISCONNECT" /\ SetActiveAccount(t, in, events) /\ UNCHANGED overlaps
    <3>1. m = [type |-> "DISCONNECT"]
      BY <2>4, <2>6 DEF Messages
    <3>2. Following /\ Ending
      BY <1>1, <2>3, <2>6, <3>1 DEF Following, Setting
    <3>. QED
      BY <1>0, <2>1, <2>2, <2>3, <2>6, <3>2, ClearingFollows
  <2>7. CASE /\ inbox' = in
             /\ UNCHANGED <<page, leader, storage, clearing, overlaps>>
    BY <1>3, <2>3, <2>7
  <2>. QED
    BY <1>12, <2>5, <2>6, <2>7
       DEF OnBCMessage, PrepareRequest, AwaitLeadership, election, requests, bounds, m, in
<1>13. ASSUME NEW t \in Tabs, StorageChanged(t)
       PROVE  Following'
  <2>. DEFINE ev == [events EXCEPT ![t] = Tail(@)]
  <2>1. events[t] # <<>> /\ t \in page
    BY <1>0, <1>13 DEF StorageChanged, ClosedIsEmpty
  <2>2. /\ Fewer(ev, events) /\ ev \in EventQueues
        /\ Tells(events, Head(events[t]))
    BY <1>0, <2>1, TakenTells
  <2>3. (\A u \in Tabs : u # t => ev[u] = events[u]) /\ Head(events[t]) \in BOOLEAN
    BY <1>0, <2>1 DEF EventQueues
  <2>4. Following
    BY <1>1, <1>13 DEF StorageChanged, bounds
  <2>. HIDE DEF ev
  <2>5. CASE ~Head(events[t]) /\ SetActiveAccount(t, inbox, ev)
    <3>1. Head(events[t]) = FALSE
      BY <2>3, <2>5
    <3>2. Ending
      BY <2>2, <2>4, <3>1 DEF Following, Setting
    <3>. QED
      BY <1>0, <2>1, <2>2, <2>3, <2>4, <2>5, <3>2, ClearingFollows
  <2>6. CASE /\ Head(events[t]) /\ NewAccount(t, ev)
             /\ UNCHANGED <<page, leader, inbox, clearing>>
    <3>1. Head(events[t]) = TRUE
      BY <2>3, <2>6
    <3>2. Setting
      BY <2>2, <2>4, <3>1 DEF Following, Ending
    <3>. QED
      BY <1>0, <2>1, <2>2, <2>3, <2>4, <2>6, <3>2, NewAccountFollows
  <2>. QED
    BY <1>13, <2>5, <2>6 DEF StorageChanged, ev
<1>14. ASSUME NEW t \in Tabs, NEW r \in Requests, Answer(t, r)
       PROVE  Following'
  <2>1. t \in page /\ HandleResponse(t, r, inbox)
    BY <1>0, <1>14 DEF Answer, ClosedIsEmpty
  <2>2. Following
    <3>1. CASE UNCHANGED overlaps
      BY <1>1, <3>1
    <3>2. CASE Changes(t)
      BY <1>2, <3>2
    <3>. QED
      BY <2>1, <3>1, <3>2 DEF HandleResponse, Settle, HandleRequestError
  <2>. QED
    BY <1>0, <2>1, <2>2, AnsweringFollows
<1>15. ASSUME NEW t \in Tabs, NEW r \in Requests, RelayRequest(t, r)
       PROVE  Following'
  <2>. DEFINE m == [type |-> "REQUEST", id |-> r]
  <2>1. m \in Messages /\ m.type # "DISCONNECT"
    BY DEF Messages
  <2>2. Asks(Posted(inbox, t, m)) => Asks(inbox)
    BY <1>0, <2>1, PostedAsks
  <2>. QED
    BY <1>3, <1>15, <2>2 DEF RelayRequest, election, bounds
<1>16. ASSUME NEW t \in Tabs, NEW r \in Requests,
              \/ CheckMakeRequest(t, r) \/ MakeRequest(t, r) \/ Paired(t, r)
              \/ AddOpenRequest(t, r) \/ Send(t, r) \/ MakeRequestBC(t, r)
              \/ AddRelayed(t, r) \/ Forward(t, r)
       PROVE  Following'
  <2>1. UNCHANGED <<page, leader, storage, inbox, clearing, overlaps>>
    BY <1>16 DEF CheckMakeRequest, ChannelInit, MakeRequest, Paired, AddOpenRequest, Send,
       MakeRequestBC, AddRelayed, Forward, election, bounds
  <2>. QED
    BY <1>3, <2>1
<1>17. ASSUME NEW t \in Tabs, Load(t)
       PROVE  Following'
  <2>1. Following /\ t \in Tabs \ page
    BY <1>1, <1>17 DEF Load
  <2>. QED
    BY <1>0, <1>17, <2>1, LoadingFollows
<1>18. ASSUME NEW t \in Tabs, Close(t)
       PROVE  Following'
  <2>1. Following
    BY <1>1, <1>18 DEF Close, bounds
  <2>. QED
    BY <1>0, <1>18, <2>1, ClosingFollows
<1>. QED
  BY <1>4, <1>5, <1>6, <1>7, <1>8, <1>9, <1>10, <1>11, <1>12, <1>13, <1>14, <1>15, <1>16,
     <1>17, <1>18 DEF Next, Progress

LEMMA InitFollowInv == Init => FollowInv
<1>. SUFFICES ASSUME Init PROVE Following
  BY DEF FollowInv
<1>1. \A v : ~Tells(events, v)
  BY DEF Init, Tells, Holds
<1>2. ~Asks(inbox)
  BY DEF Init, Asks, Holds
<1>. QED
  BY <1>1, <1>2 DEF Init, Following, Ending, Setting, PagesFollow

\* When the pages have told each other everything, each has the active account
\* of the storage, for any number of pages, calls and errors, until changes of
\* the account overlap (setActiveAccount, DAppClient.ts:960, and the storage
\* events, :266).
THEOREM QuietPagesAgree == Spec => []PagesAgree
<1>1. AccountInv /\ FollowInv => PagesAgree
  BY DEF AccountInv, ElectionTypes, FollowInv, Following, PagesFollow, PagesAgree, Agreement, Quiet
<1>. QED
  BY <1>1, InitAskInv, NextKeepsAskInv, InitAccountInv, NextKeepsAccountInv, InitFollowInv,
     NextKeepsFollowInv, PTL DEF Spec

-----------------------------------------------------------------------------
(***************************************************************************)
(* Operations that wait                                                    *)
(***************************************************************************)

\* The calls of t that wait are open in t, and who pairs hears the channel.
CallsInPlace(t) ==
  \A r \in Requests : call[r].tab = t =>
    /\ call[r].at = "waiting" => r \in open[t]
    /\ call[r].at = "pairing" => ready[t]

\* Who connects leads, and a page that hears nothing yet has its transport for its
\* account.
LinkedFor(t) ==
  /\ link[t] \in {"starting", "connected"} => leader = t
  /\ ~ready[t] /\ link[t] # "none" => account[t]

\* An operation that has passed the checks has an account, from there until it
\* waits and the account is cleared; until changes of the account overlap.
OperationsHaveAccount(t) ==
  overlaps = 0 =>
    \A r \in Requests : call[r].kind = "operation" =>
      /\ r \in adding[t] => account[t]
      /\ call[r].tab = t =>
           /\ call[r].at \in {"relaying", "posted"} => account[t]
           /\ call[r].at = "linked" /\ ready[t] /\ link[t] # "none" => account[t] \/ leader = t
           /\ call[r].at = "waiting" /\ errors = 0 => account[t] \/ t \in clearing

TabInv(t) == CallsInPlace(t) /\ LinkedFor(t) /\ OperationsHaveAccount(t)

MadeByPages == \A r \in Requests : call[r].at # "idle" => call[r].tab \in Tabs

WaitInv == MadeByPages /\ \A t \in Tabs : TabInv(t)

\* The histories are not taken back.
Counted == (overlaps' = 0 => overlaps = 0) /\ (errors' = 0 => errors = 0)

\* The calls of the pages but t, and what kind the calls are that are added.
CallsApart(t) ==
  \A r \in Requests :
    /\ call'[r] = call[r] \/ (call[r].tab \notin Tabs \ {t} /\ call'[r].tab = t)
    /\ call'[r].kind = call[r].kind \/ \A u \in Tabs : r \notin adding[u]

\* A step of page t leaves what TabInv says of the other pages.
Apart(t) ==
  /\ \A u \in Tabs : u # t =>
       /\ link'[u] = link[u] /\ account'[u] = account[u] /\ open'[u] = open[u]
       /\ adding'[u] = adding[u] /\ ready'[u] = ready[u]
       /\ u \in clearing => u \in clearing'
       /\ leader' = u <=> leader = u
  /\ Counted
  /\ CallsApart(t)

LEMMA ApartStep ==
  ASSUME WaitInv, NEW t \in Tabs, Apart(t), TabInv(t)'
  PROVE  WaitInv'
<1>1. ASSUME NEW u \in Tabs, u # t PROVE TabInv(u)'
  <2>1. TabInv(u)
    BY DEF WaitInv
  <2>2. \A r \in Requests : call'[r].tab = u \/ call[r].tab = u => call'[r] = call[r]
    BY <1>1 DEF Apart, CallsApart
  <2>3. \A r \in Requests : r \in adding[u] => call'[r].kind = call[r].kind
    BY DEF Apart, CallsApart
  <2>4. CallsInPlace(u)'
    BY <1>1, <2>1, <2>2 DEF TabInv, CallsInPlace, Apart
  <2>5. LinkedFor(u)'
    BY <1>1, <2>1 DEF TabInv, LinkedFor, Apart
  <2>6. OperationsHaveAccount(u)'
    BY <1>1, <2>1, <2>2, <2>3 DEF TabInv, OperationsHaveAccount, Apart, Counted
  <2>. QED
    BY <2>4, <2>5, <2>6 DEF TabInv
<1>2. MadeByPages'
  BY DEF WaitInv, MadeByPages, Apart, CallsApart
<1>. QED
  BY <1>1, <1>2 DEF WaitInv

\* A call gets a new state.
LEMMA CallSetFacts ==
  ASSUME RequestTypes, NEW r \in Requests, NEW x, call' = [call EXCEPT ![r].at = x]
  PROVE  /\ call'[r].tab = call[r].tab /\ call'[r].kind = call[r].kind /\ call'[r].at = x
         /\ \A q \in Requests : q # r => call'[q] = call[q]
         /\ CallsApart(call[r].tab)
<1>1. call[r] \in CallStates /\ call'[r] = [call[r] EXCEPT !.at = x]
  BY DEF RequestTypes
<1>2. /\ call'[r].tab = call[r].tab /\ call'[r].kind = call[r].kind /\ call'[r].at = x
      /\ \A q \in Requests : q # r => call'[q] = call[q]
  BY <1>1 DEF CallStates, RequestTypes
<1>. QED
  BY <1>2 DEF CallsApart

\* Nothing of t that is not waiting for an answer is on its way.
LEMMA NotBusyFacts ==
  ASSUME NEW t \in Tabs, ~Busy(t)
  PROVE  /\ adding[t] = {}
         /\ \A r \in Requests : call[r].tab = t =>
              /\ call[r].at \notin {"relaying", "posted"}
              /\ call[r].at = "linked" /\ ready[t] =>
                   link[t] = "none" /\ (leader = t \/ call[r].kind = "permission")
BY DEF Busy, GoesOn, MakesItself, IsLeader

\* All open requests are rejected, and none of the calls of t waits any more.
LEMMA RejectedFacts ==
  ASSUME RequestTypes, OpenTypes, NEW t \in Tabs, CallsInPlace(t), RejectOpen(t)
  PROVE  /\ \A u \in Tabs : u # t => open'[u] = open[u]
         /\ CallsApart(t)
         /\ \A r \in Requests : call'[r].tab = t => call'[r].at = "aborted" \/
              (call'[r] = call[r] /\ call[r].at # "waiting")
<1>1. \A r \in Requests : /\ call[r] \in CallStates
                          /\ [call[r] EXCEPT !.at = "aborted"].tab = call[r].tab
                          /\ [call[r] EXCEPT !.at = "aborted"].kind = call[r].kind
                          /\ [call[r] EXCEPT !.at = "aborted"].at = "aborted"
  BY DEF RequestTypes, CallStates
<1>2. \A r \in Requests :
        \/ call'[r] = call[r] /\ ~(r \in open[t] /\ call[r].tab = t)
        \/ /\ call[r].tab = t /\ call'[r].tab = t /\ call'[r].at = "aborted"
           /\ call'[r].kind = call[r].kind
  BY <1>1 DEF RejectOpen
<1>. QED
  BY <1>2 DEF CallsInPlace, CallsApart, RejectOpen, OpenTypes

\* The page loses its transport, and its calls are rejected or the account is
\* still being cleared.
LEMMA ClearedTab ==
  ASSUME RequestTypes, OpenTypes, NEW t \in Tabs, TabInv(t), link'[t] = "none",
         overlaps' = 0 => ~Busy(t), UNCHANGED <<leader, adding, ready>>, Counted,
         \/ RejectOpen(t)
         \/ /\ UNCHANGED <<open, call>>
            /\ errors' = 0 /\ (account[t] \/ t \in clearing) => account'[t] \/ t \in clearing'
  PROVE  /\ TabInv(t)' /\ CallsApart(t)
         /\ \A u \in Tabs : u # t => open'[u] = open[u]
<1>1. LinkedFor(t)'
  BY DEF LinkedFor
<1>2. CASE RejectOpen(t)
  <2>1. /\ \A u \in Tabs : u # t => open'[u] = open[u]
        /\ CallsApart(t)
        /\ \A r \in Requests : call'[r].tab = t => call'[r].at = "aborted" \/
             (call'[r] = call[r] /\ call[r].at # "waiting")
    BY <1>2, RejectedFacts DEF TabInv
  <2>2. CallsInPlace(t)'
    BY <2>1 DEF TabInv, CallsInPlace
  <2>3. OperationsHaveAccount(t)'
    BY <2>1, NotBusyFacts DEF OperationsHaveAccount
  <2>. QED
    BY <1>1, <2>1, <2>2, <2>3 DEF TabInv
<1>3. CASE /\ UNCHANGED <<open, call>>
           /\ errors' = 0 /\ (account[t] \/ t \in clearing) => account'[t] \/ t \in clearing'
  <2>1. CallsInPlace(t)' /\ CallsApart(t)
    BY <1>3 DEF TabInv, CallsInPlace, CallsApart
  <2>2. OperationsHaveAccount(t)'
    BY <1>3, NotBusyFacts DEF TabInv, OperationsHaveAccount, Counted
  <2>. QED
    BY <1>1, <1>3, <2>1, <2>2 DEF TabInv
<1>. QED
  BY <1>2, <1>3

\* The calls of a page do not change, nor who leads, and the account stays.
LEMMA SameCallsTab ==
  ASSUME NEW t \in Tabs, TabInv(t), UNCHANGED <<call, leader, adding, ready>>, Counted,
         open[t] \subseteq open'[t], account[t] => account'[t],
         link'[t] \in {"starting", "connected"} => leader = t,
         link'[t] # "none" => link[t] # "none" \/ account'[t],
         t \in clearing => t \in clearing' \/ account'[t]
  PROVE  TabInv(t)' /\ CallsApart(t)
<1>1. CallsInPlace(t)' /\ CallsApart(t)
  BY DEF TabInv, CallsInPlace, CallsApart
<1>2. LinkedFor(t)'
  BY DEF TabInv, LinkedFor
<1>3. OperationsHaveAccount(t)'
  BY DEF TabInv, OperationsHaveAccount, Counted
<1>. QED
  BY <1>1, <1>2, <1>3 DEF TabInv

\* A step that leaves all of this.
LEMMA SameWait ==
  ASSUME WaitInv, UNCHANGED <<call, leader, adding, ready, open, account, link, clearing>>,
         Counted
  PROVE  WaitInv'
BY DEF WaitInv, MadeByPages, TabInv, CallsInPlace, LinkedFor, OperationsHaveAccount, Counted

\* Connecting a transport makes nobody start who does not lead.
LEMMA NewAccountTab ==
  ASSUME StorageTypes, NEW t \in Tabs, NEW ev, NewAccount(t, ev), LinkedFor(t)
  PROVE  /\ account'[t] = TRUE
         /\ link'[t] \in {"starting", "connected"} => leader = t
         /\ \A u \in Tabs : u # t => account'[u] = account[u] /\ link'[u] = link[u]
<1>1. CASE link[t] = "none"
  <2>1. link' = [link EXCEPT ![t] = CheckIfBCLeaderExists(t)]
    BY <1>1 DEF NewAccount, Connect
  <2>2. CheckIfBCLeaderExists(t) \in {"starting", "connected"} => leader = t
    BY DEF CheckIfBCLeaderExists, IsLeader
  <2>. QED
    BY <2>1, <2>2 DEF StorageTypes, NewAccount
<1>2. CASE link[t] # "none"
  BY <1>2 DEF NewAccount, transport, StorageTypes, LinkedFor
<1>. QED
  BY <1>1, <1>2

LEMMA NoAccountTab ==
  ASSUME StorageTypes, NEW t \in Tabs, NEW ev, NoAccount(t, ev)
  PROVE  /\ account'[t] = FALSE /\ link'[t] = "none"
         /\ \A u \in Tabs : u # t => account'[u] = account[u] /\ link'[u] = link[u]
BY DEF NoAccount, StorageTypes

\* setActiveAccount(undefined).
LEMMA ClearingKeepsWaitInv ==
  ASSUME RequestTypes, StorageTypes, OpenTypes, WaitInv, NEW t \in Tabs, NEW in, NEW ev,
         SetActiveAccount(t, in, ev), overlaps' = 0 => ~Busy(t) /\ overlaps = 0
  PROVE  WaitInv'
<1>0. TabInv(t) /\ UNCHANGED <<leader, ready, adding, errors>> /\ Counted
  BY DEF WaitInv, SetActiveAccount, election, Counted
<1>1. CASE /\ clearing' = clearing \cup {t}
           /\ UNCHANGED <<account, transport, open, call>>
  <2>1. TabInv(t)' /\ CallsApart(t)
    BY <1>0, <1>1, SameCallsTab DEF transport, TabInv, LinkedFor
  <2>2. Apart(t)
    BY <1>0, <1>1, <2>1 DEF Apart, transport
  <2>. QED
    BY <2>1, <2>2, ApartStep
<1>2. CASE /\ NoAccount(t, ev) /\ UNCHANGED clearing
           /\ RejectOpen(t) \/ ((~account[t] \/ t \in clearing) /\ UNCHANGED <<open, call>>)
  <2>1. /\ account'[t] = FALSE /\ link'[t] = "none"
        /\ \A u \in Tabs : u # t => account'[u] = account[u] /\ link'[u] = link[u]
    BY <1>2, NoAccountTab
  <2>2. /\ TabInv(t)' /\ CallsApart(t)
        /\ \A u \in Tabs : u # t => open'[u] = open[u]
    BY <1>0, <1>2, <2>1, ClearedTab
  <2>3. Apart(t)
    BY <1>0, <1>2, <2>1, <2>2 DEF Apart
  <2>. QED
    BY <2>2, <2>3, ApartStep
<1>. QED
  BY <1>1, <1>2 DEF SetActiveAccount

\* The answer to a permission request brings the account operations need, or takes
\* the transport away that serves none.
LEMMA AnsweringKeepsWaitInv ==
  ASSUME RequestTypes, StorageTypes, OpenTypes, WaitInv, overlaps' = 0 => overlaps = 0,
         NEW t \in Tabs, NEW r \in Requests, NEW in, HandleResponse(t, r, in)
  PROVE  WaitInv'
<1>0. TabInv(t) /\ UNCHANGED <<leader, ready, adding, errors, clearing>> /\ Counted
  BY DEF WaitInv, HandleResponse, Counted
<1>1. CASE UNCHANGED <<open, call, storage, transport>>
  BY <1>0, <1>1, SameWait DEF storage, transport
<1>2. CASE Settle(t, r)
  <2>1. /\ open'[t] = open[t] \ {r}
        /\ \A u \in Tabs : u # t => open'[u] = open[u]
    BY <1>2 DEF Settle, OpenTypes
  <2>2. CASE r \in open[t] /\ call[r].tab = t
    <3>1. /\ call' = [call EXCEPT ![r].at = "answered"]
          /\ NewAccount(t, events) \/ HandleRequestError(t) \/ UNCHANGED <<storage, transport>>
      BY <1>2, <2>2 DEF Settle
    <3>2. /\ call'[r].kind = call[r].kind /\ call'[r].at = "answered"
          /\ \A q \in Requests : q # r => call'[q] = call[q]
          /\ CallsApart(t)
      BY <2>2, <3>1, CallSetFacts
    <3>3. /\ \A u \in Tabs : u # t => account'[u] = account[u] /\ link'[u] = link[u]
          /\ link'[t] \in {"starting", "connected"} => leader = t
          /\ \/ account'[t] = TRUE
             \/ account'[t] = account[t] /\ link'[t] \in {link[t], "none"}
      <4>1. CASE NewAccount(t, events)
        BY <1>0, <4>1, NewAccountTab DEF TabInv
      <4>2. CASE HandleRequestError(t)
        BY <1>0, <4>2 DEF HandleRequestError, StorageTypes, TabInv, LinkedFor
      <4>3. CASE UNCHANGED <<storage, transport>>
        BY <1>0, <4>3 DEF storage, transport, TabInv, LinkedFor
      <4>. QED
        BY <3>1, <4>1, <4>2, <4>3
    <3>4. Apart(t)
      BY <1>0, <2>1, <3>2, <3>3 DEF Apart
    <3>5. CallsInPlace(t)'
      BY <1>0, <2>1, <3>2 DEF TabInv, CallsInPlace
    <3>6. LinkedFor(t)'
      BY <1>0, <3>3 DEF TabInv, LinkedFor
    <3>7. OperationsHaveAccount(t)'
      BY <1>0, <3>2, <3>3 DEF TabInv, OperationsHaveAccount, Counted
    <3>. QED
      BY <3>4, <3>5, <3>6, <3>7, ApartStep DEF TabInv
  <2>3. CASE ~(r \in open[t] /\ call[r].tab = t)
    <3>1. UNCHANGED <<call, storage, transport>>
      BY <1>2, <2>3 DEF Settle
    <3>2. Apart(t)
      BY <1>0, <2>1, <3>1 DEF Apart, CallsApart, storage, transport
    <3>3. CallsInPlace(t)'
      BY <1>0, <2>1, <2>3, <3>1 DEF TabInv, CallsInPlace
    <3>4. LinkedFor(t)' /\ OperationsHaveAccount(t)'
      BY <1>0, <3>1 DEF TabInv, LinkedFor, OperationsHaveAccount, Counted, storage, transport
    <3>. QED
      BY <3>2, <3>3, <3>4, ApartStep DEF TabInv
  <2>. QED
    BY <2>2, <2>3
<1>. QED
  BY <1>1, <1>2 DEF HandleResponse

\* makeRequest in the page itself: an operation passes with an account only.
LEMMA CheckingKeepsWaitInv ==
  ASSUME RequestTypes, WaitInv, NEW t \in Tabs, NEW r \in Requests, call[r].tab = t,
         Check(t, r), UNCHANGED <<leader, ready, account, open, clearing, errors, overlaps>>,
         \A u \in Tabs : u # t => link'[u] = link[u], LinkedFor(t)',
         \/ UNCHANGED link
         \/ \A q \in Requests : call[q].tab = t /\ call[q].kind = "operation" =>
              ~(call[q].at = "linked" /\ ready[t]) \/ leader = t
  PROVE  WaitInv'
<1>0. TabInv(t)
  BY DEF WaitInv
<1>1. PICK x \in {"passed", "refused"} :
        /\ call' = [call EXCEPT ![r].at = x]
        /\ \/ CheckPermissions(t, r) /\ adding' = [adding EXCEPT ![t] = @ \cup {r}]
           \/ UNCHANGED adding
  BY DEF Check
<1>2. /\ call'[r].tab = t /\ call'[r].kind = call[r].kind /\ call'[r].at = x
      /\ \A q \in Requests : q # r => call'[q] = call[q]
      /\ CallsApart(t)
  BY <1>1, CallSetFacts
<1>3. /\ \A u \in Tabs : u # t => adding'[u] = adding[u]
      /\ adding'[t] = adding[t] \/ (adding'[t] = adding[t] \cup {r} /\ CheckPermissions(t, r))
  BY <1>1 DEF RequestTypes
<1>4. Apart(t)
  BY <1>2, <1>3 DEF Apart, Counted
<1>5. CallsInPlace(t)'
  BY <1>0, <1>2 DEF TabInv, CallsInPlace
<1>6. OperationsHaveAccount(t)'
  <2>1. r \in adding'[t] => r \in adding[t] \/ call[r].kind = "permission" \/ account[t]
    BY <1>3 DEF CheckPermissions
  <2>2. \A q \in Requests : q # r => (q \in adding'[t] <=> q \in adding[t])
    BY <1>3
  <2>. QED
    BY <1>0, <1>2, <2>1, <2>2 DEF TabInv, OperationsHaveAccount
<1>. QED
  BY <1>4, <1>5, <1>6, ApartStep DEF TabInv

LEMMA NextKeepsWaitInv ==
  AskInv /\ AccountInv /\ WaitInv /\ [Next]_vars => WaitInv'
<1>. SUFFICES ASSUME AskInv, AccountInv, WaitInv, [Next]_vars PROVE WaitInv'
  OBVIOUS
<1>0. /\ RequestTypes /\ ElectionTypes /\ StorageTypes /\ OpenTypes
      /\ \A t \in Tabs : TabInv(t)
      /\ \A t \in Tabs \ page : ClosedIsEmpty(t)
      /\ KeptWithTransport
  BY DEF AskInv, AccountInv, WaitInv
<1>1. ASSUME NEW t \in Tabs, Changes(t)
      PROVE  overlaps' = 0 => overlaps = 0 /\ ~Busy(t)
  BY <1>0, <1>1, ChangesStep, RestFacts
<1>2. CASE UNCHANGED vars
  BY <1>2, SameWait DEF vars, election, transport, storage, requests, bounds, Counted
<1>3. ASSUME NEW t \in Tabs, Elected(t)
      PROVE  WaitInv'
  <2>1. /\ \A u \in Tabs : leader # u
        /\ leader' = t
        /\ UNCHANGED <<account, open, adding, call, clearing, errors, overlaps>>
        /\ \A u \in Tabs : u # t => link'[u] = link[u] /\ ready'[u] = ready[u]
        /\ link'[t] # "none" => link[t] # "none"
        /\ ready[t] => ready'[t]
    BY <1>0, <1>3, TabsAssumption
       DEF Elected, HasLeader, storage, requests, bounds, StorageTypes, ElectionTypes
  <2>2. Apart(t)
    BY <2>1 DEF Apart, CallsApart, Counted
  <2>3. CallsInPlace(t)'
    BY <1>0, <2>1 DEF TabInv, CallsInPlace
  <2>4. LinkedFor(t)'
    BY <1>0, <2>1 DEF TabInv, LinkedFor
  <2>5. OperationsHaveAccount(t)'
    BY <1>0, <2>1 DEF TabInv, OperationsHaveAccount
  <2>. QED
    BY <2>2, <2>3, <2>4, <2>5, ApartStep DEF TabInv
<1>4. ASSUME NEW t \in Tabs, Connected(t)
      PROVE  WaitInv'
  <2>1. /\ link[t] = "starting" /\ link' = [link EXCEPT ![t] = "connected"]
        /\ UNCHANGED <<account, open, adding, ready, call, clearing, errors, leader, overlaps>>
    BY <1>4 DEF Connected, election, requests, bounds
  <2>2. leader = t
    BY <1>0, <2>1 DEF TabInv, LinkedFor
  <2>3. TabInv(t)' /\ CallsApart(t) /\ Counted
    BY <1>0, <2>1, <2>2, SameCallsTab DEF Counted
  <2>4. Apart(t)
    BY <1>0, <2>1, <2>3 DEF Apart, StorageTypes
  <2>. QED
    BY <2>3, <2>4, ApartStep
<1>5. ASSUME NEW t \in Tabs, ConnectedLate(t)
      PROVE  WaitInv'
  BY <1>5, SameWait DEF ConnectedLate, election, transport, requests, bounds, Counted
<1>6. ASSUME NEW t \in Tabs, Disconnected(t)
      PROVE  WaitInv'
  <2>1. /\ clearing' = clearing \ {t} /\ RejectOpen(t) /\ NoAccount(t, events) /\ ~Busy(t)
        /\ UNCHANGED <<leader, ready, adding, errors, overlaps>>
    BY <1>6 DEF Disconnected, election, bounds
  <2>2. /\ link'[t] = "none"
        /\ \A u \in Tabs : u # t => account'[u] = account[u] /\ link'[u] = link[u]
    BY <1>0, <2>1, NoAccountTab
  <2>3. /\ TabInv(t)' /\ CallsApart(t) /\ Counted
        /\ \A u \in Tabs : u # t => open'[u] = open[u]
    BY <1>0, <2>1, <2>2, ClearedTab DEF Counted
  <2>4. Apart(t)
    BY <2>1, <2>2, <2>3 DEF Apart
  <2>. QED
    BY <2>3, <2>4, ApartStep
<1>7. ASSUME NEW t \in Tabs, ChannelClosed(t)
      PROVE  WaitInv'
  <2>1. /\ link[t] = "connected" /\ NoAccount(t, events) /\ Changes(t) /\ ~Busy(t)
        /\ clearing' = IF account[t] /\ leader = t THEN clearing \cup {t} ELSE clearing
        /\ UNCHANGED <<leader, ready, adding, errors, open, call>>
    BY <1>7 DEF ChannelClosed, election, requests, IsLeader
  <2>2. leader = t
    BY <1>0, <2>1 DEF TabInv, LinkedFor
  <2>3. /\ account'[t] = FALSE /\ link'[t] = "none"
        /\ \A u \in Tabs : u # t => account'[u] = account[u] /\ link'[u] = link[u]
    BY <1>0, <2>1, NoAccountTab
  <2>4. Counted
    BY <1>1, <2>1 DEF Counted
  <2>5. TabInv(t)' /\ CallsApart(t)
    BY <1>0, <2>1, <2>2, <2>3, <2>4, ClearedTab
  <2>6. Apart(t)
    BY <2>1, <2>3, <2>4, <2>5 DEF Apart
  <2>. QED
    BY <2>5, <2>6, ApartStep
<1>8. ASSUME NEW t \in Tabs, RelayerError(t)
      PROVE  WaitInv'
  <2>1. /\ NoAccount(t, events) /\ errors' = errors + 1 /\ Changes(t) /\ ~Busy(t)
        /\ UNCHANGED <<leader, ready, adding, open, call, clearing>>
    BY <1>8 DEF RelayerError, ResetInvalidState, election
  <2>2. errors' # 0
    BY <1>0, <2>1, TabsAssumption DEF OpenTypes
  <2>3. /\ account'[t] = FALSE /\ link'[t] = "none"
        /\ \A u \in Tabs : u # t => account'[u] = account[u] /\ link'[u] = link[u]
    BY <1>0, <2>1, NoAccountTab
  <2>4. Counted
    BY <1>1, <2>1, <2>2 DEF Counted
  <2>5. TabInv(t)' /\ CallsApart(t)
    BY <1>0, <2>1, <2>2, <2>3, <2>4, ClearedTab
  <2>6. Apart(t)
    BY <2>1, <2>3, <2>4, <2>5 DEF Apart
  <2>. QED
    BY <2>5, <2>6, ApartStep
<1>9. ASSUME NEW t \in Tabs, OnBCMessage(t)
      PROVE  WaitInv'
  <2>. DEFINE m == Head(inbox[t])
              in == [inbox EXCEPT ![t] = Tail(@)]
  <2>0. ~Busy(t)
    BY <1>9 DEF OnBCMessage
  <2>1. m \in Messages
    <3>1. inbox[t] \in Seq(Messages) /\ inbox[t] # <<>>
      BY <1>0, <1>9 DEF RequestTypes, Inboxes, OnBCMessage
    <3>. QED
      BY <3>1, HeadTailProperties
  <2>. HIDE DEF m, in
  <2>2. CASE /\ UNCHANGED <<leader, ready, adding, link, account, open, call, clearing>>
             /\ UNCHANGED <<errors, overlaps>>
    BY <2>2, SameWait DEF Counted
  <2>3. CASE m.type = "RESPONSE" /\ HandleResponse(t, m.id, in)
    <3>1. m.id \in Requests
      BY <2>1, <2>3 DEF Messages
    <3>2. overlaps' = 0 => overlaps = 0
      BY <1>1, <2>3 DEF HandleResponse, Settle, HandleRequestError
    <3>. QED
      BY <1>0, <2>3, <3>1, <3>2, AnsweringKeepsWaitInv
  <2>4. CASE SetActiveAccount(t, in, events) /\ UNCHANGED overlaps
    BY <1>0, <2>0, <2>4, ClearingKeepsWaitInv
  <2>5. CASE \/ PrepareRequest(t, in) \/ AwaitLeadership(t, in)
             \/ UNCHANGED <<page, election, transport, storage, requests, clearing, bounds>>
    BY <2>2, <2>5
       DEF PrepareRequest, AwaitLeadership, election, transport, storage, requests, bounds
  <2>. QED
    BY <1>9, <2>3, <2>4, <2>5 DEF OnBCMessage, m, in
<1>10. ASSUME NEW t \in Tabs, StorageChanged(t)
       PROVE  WaitInv'
  <2>. DEFINE ev == [events EXCEPT ![t] = Tail(@)]
  <2>0. ~Busy(t)
    BY <1>10 DEF StorageChanged
  <2>1. CASE SetActiveAccount(t, inbox, ev) /\ UNCHANGED overlaps
    BY <1>0, <2>0, <2>1, ClearingKeepsWaitInv
  <2>2. CASE /\ NewAccount(t, ev)
             /\ UNCHANGED <<page, leader, ready, was, inbox, requests, clearing, bounds>>
    <3>1. /\ account'[t] = TRUE
          /\ link'[t] \in {"starting", "connected"} => leader = t
          /\ \A u \in Tabs : u # t => account'[u] = account[u] /\ link'[u] = link[u]
      BY <1>0, <2>2, NewAccountTab DEF TabInv
    <3>2. UNCHANGED <<call, leader, adding, ready, open, clearing>> /\ Counted
      BY <2>2 DEF requests, bounds, Counted
    <3>3. TabInv(t)' /\ CallsApart(t)
      BY <1>0, <3>1, <3>2, SameCallsTab
    <3>4. Apart(t)
      BY <3>1, <3>2, <3>3 DEF Apart
    <3>. QED
      BY <3>3, <3>4, ApartStep
  <2>. QED
    BY <1>10, <2>1, <2>2 DEF StorageChanged
<1>11. ASSUME NEW t \in Tabs, Disconnect(t)
       PROVE  WaitInv'
  BY <1>0, <1>1, <1>11, ClearingKeepsWaitInv DEF Disconnect
<1>12. ASSUME NEW t \in Tabs, NEW r \in Requests, CheckMakeRequest(t, r)
       PROVE  WaitInv'
  <2>1. /\ call[r] = NoCall
        /\ call' = [call EXCEPT ![r] =
             [tab |-> t, kind |-> IF account[t] THEN "operation" ELSE "permission",
              at |-> IF link[t] # "none" THEN "linked" ELSE "checking"]]
        /\ UNCHANGED <<leader, link, account, open, adding, clearing, errors, overlaps>>
    BY <1>12 DEF CheckMakeRequest, ChannelInit, election, transport, storage, bounds
  <2>2. ready' = ready \/ ready' = [ready EXCEPT ![t] = TRUE]
    BY <1>12 DEF CheckMakeRequest, ChannelInit, election
  <2>3. ready[t] => ready'[t] /\ \A u \in Tabs : u # t => ready'[u] = ready[u]
    BY <1>0, <2>2 DEF ElectionTypes
  <2>4. /\ call[r].tab \notin Tabs /\ call[r].at = "idle"
        /\ \A u \in Tabs : r \notin adding[u]
    BY <1>0, <2>1, TabsAssumption DEF NoCall, AskInv, UnmadeIsUnknown, Unmade, Touches
  <2>5. /\ call'[r].tab = t
        /\ call'[r].at \in {"linked", "checking"}
        /\ call'[r].kind = "permission" \/ account[t]
        /\ \A q \in Requests : q # r => call'[q] = call[q]
    BY <1>0, <2>1 DEF RequestTypes
  <2>6. \A u \in Tabs : u # t => ready'[u] = ready[u]
    BY <1>0, <2>2 DEF ElectionTypes
  <2>7. Apart(t)
    BY <2>1, <2>4, <2>5, <2>6 DEF Apart, CallsApart, Counted
  <2>8. CallsInPlace(t)'
    BY <1>0, <2>1, <2>3, <2>5 DEF TabInv, CallsInPlace
  <2>9. LinkedFor(t)'
    BY <1>0, <2>1, <2>3 DEF TabInv, LinkedFor
  <2>10. OperationsHaveAccount(t)'
    BY <1>0, <2>1, <2>4, <2>5 DEF TabInv, LinkedFor, OperationsHaveAccount
  <2>. QED
    BY <2>7, <2>8, <2>9, <2>10, ApartStep DEF TabInv
<1>13. ASSUME NEW t \in Tabs, NEW r \in Requests, MakeRequest(t, r)
       PROVE  WaitInv'
  <2>1. /\ call[r].tab = t /\ ready[t]
        /\ UNCHANGED <<leader, ready, link, account, open, clearing, errors, overlaps>>
    BY <1>13 DEF MakeRequest, GoesOn, election, transport, storage, bounds
  <2>2. LinkedFor(t)'
    BY <1>0, <2>1 DEF TabInv, LinkedFor
  <2>3. CASE Check(t, r)
    BY <1>0, <2>1, <2>2, <2>3, CheckingKeepsWaitInv
  <2>4. CASE call' = [call EXCEPT ![r].at = "pairing"] /\ UNCHANGED adding
    <3>1. /\ call'[r].at = "pairing" /\ call'[r].kind = call[r].kind
          /\ \A q \in Requests : q # r => call'[q] = call[q]
          /\ CallsApart(t)
      BY <1>0, <2>1, <2>4, CallSetFacts
    <3>2. Apart(t)
      BY <2>1, <2>4, <3>1 DEF Apart, Counted
    <3>3. CallsInPlace(t)'
      BY <1>0, <2>1, <3>1 DEF TabInv, CallsInPlace
    <3>4. OperationsHaveAccount(t)'
      BY <1>0, <2>1, <2>4, <3>1 DEF TabInv, OperationsHaveAccount
    <3>. QED
      BY <2>2, <3>2, <3>3, <3>4, ApartStep DEF TabInv
  <2>. QED
    BY <1>13, <2>3, <2>4 DEF MakeRequest
<1>14. ASSUME NEW t \in Tabs, NEW r \in Requests, Paired(t, r)
       PROVE  WaitInv'
  <2>1. /\ call[r].tab = t /\ call[r].at = "pairing" /\ ~Busy(t)
        /\ UNCHANGED <<leader, ready, account, open, clearing, errors, overlaps>>
    BY <1>14 DEF Paired, storage, bounds
  <2>2. CASE UNCHANGED <<transport, adding, call>>
    BY <2>1, <2>2, SameWait DEF transport, Counted
  <2>3. CASE /\ link' = IF link[t] # "none" THEN link
                ELSE [link EXCEPT ![t] = IF leader = t THEN "connected" ELSE "secondary"]
             /\ Check(t, r)
    <3>1. \A u \in Tabs : u # t => link'[u] = link[u]
      BY <2>3
    <3>2. ready[t]
      BY <1>0, <2>1 DEF TabInv, CallsInPlace
    <3>3. LinkedFor(t)'
      BY <1>0, <2>1, <2>3, <3>2 DEF TabInv, LinkedFor, StorageTypes
    <3>4. \A q \in Requests : call[q].tab = t /\ call[q].kind = "operation" =>
            ~(call[q].at = "linked" /\ ready[t]) \/ leader = t
      BY <2>1, NotBusyFacts
    <3>. QED
      BY <1>0, <2>1, <2>3, <3>1, <3>3, <3>4, CheckingKeepsWaitInv
  <2>. QED
    BY <1>14, <2>2, <2>3 DEF Paired, IsLeader
<1>15. ASSUME NEW t \in Tabs, NEW r \in Requests, AddOpenRequest(t, r)
       PROVE  WaitInv'
  <2>1. /\ r \in adding[t]
        /\ adding' = [adding EXCEPT ![t] = @ \ {r}]
        /\ open' = [open EXCEPT ![t] = @ \cup {r}]
        /\ call' = IF call[r].tab = t THEN [call EXCEPT ![r].at = "waiting"] ELSE call
        /\ UNCHANGED <<leader, ready, link, account, clearing, errors, overlaps>>
    BY <1>15 DEF AddOpenRequest, election, transport, storage, bounds
  <2>2. /\ \A u \in Tabs : u # t => open'[u] = open[u] /\ adding'[u] = adding[u]
        /\ open'[t] = open[t] \cup {r} /\ adding'[t] = adding[t] \ {r}
    BY <1>0, <2>1 DEF OpenTypes, RequestTypes
  <2>3. /\ \A q \in Requests : call'[q].kind = call[q].kind
        /\ \A q \in Requests : q # r => call'[q] = call[q]
        /\ call'[r].tab = call[r].tab
        /\ call[r].tab # t => call'[r] = call[r]
        /\ call[r].tab = t => call'[r].at = "waiting"
    <3>1. CASE call[r].tab = t
      BY <1>0, <2>1, <3>1, CallSetFacts
    <3>2. CASE call[r].tab # t
      BY <2>1, <3>2
    <3>. QED
      BY <3>1, <3>2
  <2>4. CallsApart(t)
    BY <2>3 DEF CallsApart
  <2>5. Apart(t)
    BY <2>1, <2>2, <2>4 DEF Apart, Counted
  <2>6. CallsInPlace(t)'
    BY <1>0, <2>1, <2>2, <2>3 DEF TabInv, CallsInPlace
  <2>7. LinkedFor(t)'
    BY <1>0, <2>1 DEF TabInv, LinkedFor
  <2>8. OperationsHaveAccount(t)'
    BY <1>0, <2>1, <2>2, <2>3 DEF TabInv, OperationsHaveAccount
  <2>. QED
    BY <2>5, <2>6, <2>7, <2>8, ApartStep DEF TabInv
<1>16. ASSUME NEW t \in Tabs, NEW r \in Requests,
              MakeRequestBC(t, r) \/ RelayRequest(t, r) \/ AddRelayed(t, r)
       PROVE  WaitInv'
  <2>1. /\ call[r].tab = t
        /\ UNCHANGED <<leader, ready, link, account, adding, clearing, errors, overlaps>>
    BY <1>16 DEF MakeRequestBC, RelayRequest, AddRelayed, GoesOn, election, transport, storage, bounds
  <2>2. PICK x \in {"undefined", "relaying", "posted", "waiting"} :
          /\ call' = [call EXCEPT ![r].at = x]
          /\ x = "waiting" => open' = [open EXCEPT ![t] = @ \cup {r}]
          /\ x # "waiting" => open' = open
          /\ x = "relaying" =>
               call[r].at \in {"checking", "linked"} /\ ready[t] /\ link[t] # "none" /\ ~MakesItself(t, r)
          /\ x \in {"posted", "waiting"} => call[r].at \in {"relaying", "posted"}
    <3>1. CASE MakeRequestBC(t, r)
      BY <3>1 DEF MakeRequestBC, GoesOn
    <3>2. CASE RelayRequest(t, r)
      BY <3>2 DEF RelayRequest
    <3>3. CASE AddRelayed(t, r)
      BY <3>3 DEF AddRelayed
    <3>. QED
      BY <1>16, <3>1, <3>2, <3>3
  <2>3. /\ call'[r].tab = t /\ call'[r].kind = call[r].kind /\ call'[r].at = x
        /\ \A q \in Requests : q # r => call'[q] = call[q]
        /\ CallsApart(t)
    BY <1>0, <2>1, <2>2, CallSetFacts
  <2>4. /\ \A u \in Tabs : u # t => open'[u] = open[u]
        /\ open[t] \subseteq open'[t]
        /\ x = "waiting" => r \in open'[t]
    BY <1>0, <2>2 DEF OpenTypes
  <2>5. Apart(t)
    BY <2>1, <2>3, <2>4 DEF Apart, Counted
  <2>6. CallsInPlace(t)'
    BY <1>0, <2>1, <2>3, <2>4 DEF TabInv, CallsInPlace
  <2>7. LinkedFor(t)'
    BY <1>0, <2>1 DEF TabInv, LinkedFor
  <2>8. x = "relaying" => call[r].at = "linked" /\ leader # t
    BY <2>2 DEF MakesItself, IsLeader
  <2>9. OperationsHaveAccount(t)'
    BY <1>0, <2>1, <2>2, <2>3, <2>8 DEF TabInv, OperationsHaveAccount
  <2>. QED
    BY <2>5, <2>6, <2>7, <2>9, ApartStep DEF TabInv
<1>17. ASSUME NEW t \in Tabs, NEW r \in Requests, Forward(t, r)
       PROVE  WaitInv'
  <2>1. /\ UNCHANGED <<leader, ready, link, account, open, call, clearing, errors, overlaps>>
        /\ adding' = IF CheckPermissions(t, r) THEN [adding EXCEPT ![t] = @ \cup {r}] ELSE adding
    BY <1>17 DEF Forward, election, transport, storage, bounds
  <2>2. /\ \A u \in Tabs : u # t => adding'[u] = adding[u]
        /\ \A q \in adding'[t] :
             q \in adding[t] \/ (q = r /\ (call[r].kind = "permission" \/ account[t]))
    BY <1>0, <2>1 DEF RequestTypes, CheckPermissions
  <2>3. Apart(t)
    BY <2>1, <2>2 DEF Apart, CallsApart, Counted
  <2>4. CallsInPlace(t)' /\ LinkedFor(t)'
    BY <1>0, <2>1 DEF TabInv, CallsInPlace, LinkedFor
  <2>5. OperationsHaveAccount(t)'
    BY <1>0, <2>1, <2>2 DEF TabInv, OperationsHaveAccount
  <2>. QED
    BY <2>3, <2>4, <2>5, ApartStep DEF TabInv
<1>18. ASSUME NEW t \in Tabs, NEW r \in Requests, Send(t, r)
       PROVE  WaitInv'
  BY <1>18, SameWait DEF Send, election, transport, storage, bounds, Counted
<1>19. ASSUME NEW t \in Tabs, NEW r \in Requests, Answer(t, r)
       PROVE  WaitInv'
  <2>1. overlaps' = 0 => overlaps = 0
    BY <1>1, <1>19 DEF Answer, HandleResponse, Settle, HandleRequestError
  <2>. QED
    BY <1>0, <1>19, <2>1, AnsweringKeepsWaitInv DEF Answer
<1>20. ASSUME NEW t \in Tabs, Load(t)
       PROVE  WaitInv'
  <2>1. /\ account' = [account EXCEPT ![t] = stored]
        /\ UNCHANGED <<leader, ready, open, adding, call, clearing, errors, overlaps>>
    BY <1>20 DEF Load, ActiveAccountLoaded, requests
  <2>2. /\ \A u \in Tabs : u # t => link'[u] = link[u]
        /\ link'[t] \in {"starting", "connected"} => leader = t
        /\ link'[t] # "none" => stored \/ link[t] # "none"
    <3>1. CASE stored
      <4>1. link' = [link EXCEPT ![t] = CheckIfBCLeaderExists(t)]
        BY <1>20, <3>1 DEF Load, InitInternalTransports, Connect
      <4>2. CheckIfBCLeaderExists(t) \in {"starting", "connected"} => leader = t
        BY DEF CheckIfBCLeaderExists, IsLeader
      <4>. QED
        BY <1>0, <3>1, <4>1, <4>2 DEF StorageTypes
    <3>2. CASE ~stored
      BY <1>0, <1>20, <3>2
         DEF Load, InitInternalTransports, transport, TabInv, LinkedFor
    <3>. QED
      BY <3>1, <3>2
  <2>3. t \notin page /\ ClosedIsEmpty(t)
    BY <1>0, <1>20 DEF Load
  <2>4. account[t] = FALSE /\ t \notin clearing
    BY <2>3 DEF ClosedIsEmpty, Memory, NoMemory
  <2>5. account'[t] = stored /\ \A u \in Tabs : u # t => account'[u] = account[u]
    BY <1>0, <2>1 DEF StorageTypes
  <2>6. TabInv(t)' /\ CallsApart(t) /\ Counted
    BY <1>0, <2>1, <2>2, <2>4, <2>5, SameCallsTab DEF Counted
  <2>7. Apart(t)
    BY <2>1, <2>2, <2>5, <2>6 DEF Apart
  <2>. QED
    BY <2>6, <2>7, ApartStep
<1>21. ASSUME NEW t \in Tabs, Close(t)
       PROVE  WaitInv'
  <2>1. /\ link' = [link EXCEPT ![t] = "none"]
        /\ account' = [account EXCEPT ![t] = FALSE]
        /\ open' = [open EXCEPT ![t] = {}]
        /\ adding' = [adding EXCEPT ![t] = {}]
        /\ ready' = [ready EXCEPT ![t] = FALSE]
        /\ clearing' = clearing \ {t}
        /\ leader' = IF leader = t THEN NoTab ELSE leader
        /\ UNCHANGED <<errors, overlaps>>
        /\ call' = [r \in Requests |-> IF call[r].tab = t THEN [call[r] EXCEPT !.at = "gone"]
                                       ELSE call[r]]
    BY <1>21 DEF Close, IsLeader, bounds
  <2>2. \A r \in Requests :
          /\ call'[r].kind = call[r].kind
          /\ \/ call'[r] = call[r] /\ call[r].tab # t
             \/ call[r].tab = t /\ call'[r].tab = t /\ call'[r].at = "gone"
    <3>1. \A r \in Requests : /\ [call[r] EXCEPT !.at = "gone"].tab = call[r].tab
                              /\ [call[r] EXCEPT !.at = "gone"].kind = call[r].kind
                              /\ [call[r] EXCEPT !.at = "gone"].at = "gone"
      BY <1>0 DEF RequestTypes, CallStates
    <3>. QED
      BY <2>1, <3>1
  <2>3. CallsApart(t)
    BY <2>2 DEF CallsApart
  <2>4. /\ \A u \in Tabs : u # t =>
             /\ link'[u] = link[u] /\ account'[u] = account[u] /\ open'[u] = open[u]
             /\ adding'[u] = adding[u] /\ ready'[u] = ready[u]
        /\ link'[t] = "none" /\ adding'[t] = {}
    BY <1>0, <2>1 DEF StorageTypes, OpenTypes, RequestTypes, ElectionTypes
  <2>5. Apart(t)
    BY <2>1, <2>3, <2>4, TabsAssumption DEF Apart, Counted
  <2>6. TabInv(t)'
    BY <2>2, <2>4 DEF TabInv, CallsInPlace, LinkedFor, OperationsHaveAccount
  <2>. QED
    BY <2>5, <2>6, ApartStep
<1>. QED
  BY <1>2, <1>3, <1>4, <1>5, <1>6, <1>7, <1>8, <1>9, <1>10, <1>11, <1>12, <1>13, <1>14,
     <1>15, <1>16, <1>17, <1>18, <1>19, <1>20, <1>21 DEF Next, Progress

LEMMA InitWaitInv == Init => WaitInv
<1>. SUFFICES ASSUME Init PROVE WaitInv
  OBVIOUS
<1>1. /\ \A r \in Requests : call[r].tab = NoTab /\ call[r].at = "idle" /\ call[r].kind = "none"
      /\ \A t \in Tabs : link[t] = "none"
  BY DEF Init, NoCall
<1>. QED
  BY <1>1, TabsAssumption
     DEF WaitInv, MadeByPages, TabInv, CallsInPlace, LinkedFor, OperationsHaveAccount

\* No operation waits for an answer in a page that lost its transport and has
\* nothing left to do: whichever page ended the session, the calls of all of them
\* were rejected, also those another page ended it under between two awaits; until
\* changes of the account overlap (setActiveAccount, DAppClient.ts:981).
THEOREM EndedSessionsRejectCalls == Spec => []CutOffPagesDoNotWait
<1>1. AskInv /\ AccountInv /\ WaitInv => CutOffPagesDoNotWait
  <2>. SUFFICES ASSUME AskInv, AccountInv, WaitInv, overlaps = 0, Quiet, errors = 0,
                       NEW r \in Requests,
                       call[r].kind = "operation", call[r].at = "waiting"
                PROVE  link[call[r].tab] # "none"
    BY DEF CutOffPagesDoNotWait, NoneWaitsCutOff
  <2>1. call[r].tab \in Tabs
    BY DEF WaitInv, MadeByPages
  <2>2. account[call[r].tab]
    BY <2>1 DEF WaitInv, TabInv, OperationsHaveAccount, Quiet
  <2>. QED
    BY <2>1, <2>2 DEF AccountInv, KeptWithTransport
<1>. QED
  BY <1>1, InitAskInv, NextKeepsAskInv, InitAccountInv, NextKeepsAccountInv,
     InitWaitInv, NextKeepsWaitInv, PTL DEF Spec

=============================================================================
