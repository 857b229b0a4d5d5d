--------------------------- MODULE DAppCallsProofs ---------------------------
(***************************************************************************)
(* Theorems about DAppCalls for any calls, accounts, limits and times: how *)
(* many requests are sent in a window of time, and what the one toast of   *)
(* the page is left with.                                                  *)
(***************************************************************************)
EXTENDS DAppCalls, FiniteSetTheorems, SequenceTheorems, TLAPS

-----------------------------------------------------------------------------
(***************************************************************************)
(* The inductive invariant                                                 *)
(***************************************************************************)

CallStates == {"idle", "preparing", "waiting", "acknowledged", "resolved", "rejected"}
              \cup Answers

ClientTypes ==
    /\ role \in Roles /\ phone \in Phones /\ account \in Accounts \cup {None}
    /\ kind \in Programs
    /\ call \in [Calls -> CallStates]
    /\ counter \subseteq Requests \X (0..MaxTime) /\ sends \subseteq Requests \X (0..MaxTime)
    /\ now \in 0..MaxTime /\ others \in 0..MaxOthers
    /\ linking \in BOOLEAN

ToastTypes ==
    /\ root \in {"none", "creating", "there"} /\ isOpen \in BOOLEAN
    /\ config \in Toasts \cup {None} /\ coming \in Seq(Toasts) /\ lastTimer \in BOOLEAN
    /\ astray \in BOOLEAN

\* What was sent lately was counted, and nothing was sent later than now.
SentIsCounted ==
    \A p \in sends : p[2] <= now /\ (p[2] + Window > now => p \in counter)

\* What the toast will show when the delays are over.
Latest == IF coming = <<>> THEN config ELSE coming[Len(coming)]

\* Toasts that can be left to the user: they close, or the user has to see them.
MayStay(t) ==
    /\ t.state \notin Awaiting
    /\ t.timer \/ t = ErrorToast("failed") \/ t.state = "prepare"

\* Before the page of the toast is made, nothing is to come; the timer is that of the
\* latest toast; and the latest toast may stay, if it is not that a call waits or that it
\* is of none.
ToastFollowsCalls ==
    /\ root = "none" => coming = <<>>
    /\ Latest # None => (Latest.timer => lastTimer)
    /\ Latest # None =>
        MayStay(Latest) \/ (Latest.state \in Awaiting /\ (Waiting \/ astray))

IInv ==
    /\ ClientTypes
    /\ ToastTypes
    /\ SentIsCounted
    /\ RateLimitHolds
    /\ ToastFollowsCalls

LEMMA IInvImplies ==
    IInv => TypeOK /\ RateLimitHolds /\ QuietToastAwaitsNothing /\ LeftToastTimesOut
<1>. SUFFICES ASSUME IInv
              PROVE  TypeOK /\ RateLimitHolds /\ QuietToastAwaitsNothing /\ LeftToastTimesOut
  OBVIOUS
<1>1. TypeOK /\ RateLimitHolds
  BY DEF IInv, TypeOK, ClientTypes, ToastTypes, CallStates
<1>2. ASSUME coming = <<>>, Visible
      PROVE  /\ config.timer => lastTimer
             /\ MayStay(config) \/ (config.state \in Awaiting /\ (Waiting \/ astray))
  BY <1>2 DEF IInv, ToastFollowsCalls, Latest, Visible
<1>. QED
  BY <1>1, <1>2 DEF QuietToastAwaitsNothing, LeftToastTimesOut, MayStay

-----------------------------------------------------------------------------
(***************************************************************************)
(* The toast                                                               *)
(***************************************************************************)

\* A toast is opened: it is the latest.
LEMMA OpenedIsLatest ==
    ASSUME ToastTypes, ToastFollowsCalls, NEW t \in Toasts, OpenToast(t), astray' \in BOOLEAN
    PROVE  /\ ToastTypes'
           /\ root' # "none"
           /\ Latest' = t /\ lastTimer' = t.timer
<1>1. t.timer \in BOOLEAN
  BY DEF Toasts
<1>2. CASE root = "none"
  BY <1>1, <1>2 DEF OpenToast, ToastTypes, ToastFollowsCalls, Latest
<1>3. CASE root # "none"
  <2>1. coming' = Append(coming, t) /\ coming \in Seq(Toasts) /\ UNCHANGED <<root, config>>
    BY <1>3 DEF OpenToast, ToastTypes
  <2>2. /\ coming' \in Seq(Toasts) /\ coming' # <<>>
        /\ coming'[Len(coming')] = t
    BY <2>1, AppendProperties
  <2>. QED
    BY <1>1, <1>3, <2>1, <2>2 DEF OpenToast, ToastTypes, Latest
<1>. QED
  BY <1>2, <1>3

\* What events show of a request that is sent, acknowledged or prepared, ...
LEMMA AwaitingToasts ==
    ASSUME phone \in BOOLEAN
    PROVE  /\ SentToast \in Toasts /\ SentToast.state \in Awaiting
           /\ AcknowledgedToast \in Toasts /\ AcknowledgedToast.state \in Awaiting
           /\ PrepareToast \in Toasts /\ MayStay(PrepareToast)
BY DEF SentToast, AcknowledgedToast, PrepareToast, Toast, Toasts, Awaiting, MayStay

\* ... and of its outcome.
LEMMA SuccessToasts ==
    ASSUME NEW k PROVE SuccessToast(k) \in Toasts /\ MayStay(SuccessToast(k))
<1>1. PlainToast \in Toasts /\ PlainToast.state = "finished" /\ PlainToast.timer = TRUE
  BY DEF PlainToast, Toast, Toasts
<1>2. /\ ExplorerToast \in Toasts
      /\ ExplorerToast.state = "finished" /\ ExplorerToast.timer = TRUE
  BY <1>1 DEF ExplorerToast, Toasts
<1>3. SuccessToast(k) = PlainToast \/ SuccessToast(k) = ExplorerToast
  BY DEF SuccessToast, CopyToast
<1>4. ASSUME NEW t, t.state = "finished", t.timer = TRUE PROVE MayStay(t)
  BY <1>4 DEF MayStay, Awaiting
<1>. QED
  BY <1>1, <1>2, <1>3, <1>4

LEMMA ErrorToasts ==
    ASSUME NEW a \in {"aborted", "failed"}
    PROVE  ErrorToast(a) \in Toasts /\ MayStay(ErrorToast(a))
<1>1. (a = "aborted") \in BOOLEAN
  OBVIOUS
<1>2. ErrorToast(a) \in Toasts /\ ErrorToast(a).state = "finished"
  BY <1>1 DEF ErrorToast, Toast, Toasts
<1>3. CASE a = "aborted"
  <2>1. ErrorToast(a).timer = TRUE
    BY <1>3 DEF ErrorToast, Toast
  <2>. QED
    BY <1>2, <2>1 DEF MayStay, Awaiting
<1>4. CASE a = "failed"
  BY <1>2, <1>4 DEF MayStay, Awaiting
<1>. QED
  BY <1>2, <1>3, <1>4

\* A toast that is opened may stay, or a call waits, or it is astray.
LEMMA OpenStep ==
    ASSUME ToastTypes, ToastFollowsCalls, NEW t \in Toasts, Emit(t),
           MayStay(t) \/ (t.state \in Awaiting /\ Waiting')
    PROVE  ToastTypes' /\ ToastFollowsCalls'
BY OpenedIsLatest DEF Emit, ToastFollowsCalls

LEMMA OpenAstrayStep ==
    ASSUME ToastTypes, ToastFollowsCalls, NEW t \in Toasts, EmitAstray(t), t.state \in Awaiting
    PROVE  ToastTypes' /\ ToastFollowsCalls'
BY OpenedIsLatest DEF EmitAstray, ToastFollowsCalls

\* A call ends with no event.
LEMMA NoEventStep ==
    ASSUME ToastTypes, ToastFollowsCalls, NoEvent
    PROVE  ToastTypes' /\ ToastFollowsCalls'
BY DEF NoEvent, shown, ToastTypes, ToastFollowsCalls, Latest, MayStay

\* A toast is closed, or left alone, while the calls that wait go on waiting.
LEMMA CloseStep ==
    ASSUME ToastTypes, ToastFollowsCalls, CloseToast, Waiting => Waiting'
    PROVE  ToastTypes' /\ ToastFollowsCalls'
<1>1. CASE root = "there"
  BY <1>1 DEF CloseToast, ToastTypes, ToastFollowsCalls, Latest, MayStay
<1>2. CASE root # "there"
  BY <1>2 DEF CloseToast, toastVars, shown, ToastTypes, ToastFollowsCalls, Latest, MayStay
<1>. QED
  BY <1>1, <1>2

LEMMA KeepStep ==
    ASSUME ToastTypes, ToastFollowsCalls, UNCHANGED toastVars, Waiting => Waiting'
    PROVE  ToastTypes' /\ ToastFollowsCalls'
BY DEF toastVars, shown, ToastTypes, ToastFollowsCalls, Latest, MayStay

\* The delay of a toast is over.
LEMMA NextConfigStep ==
    ASSUME ToastTypes, ToastFollowsCalls, NextConfig
    PROVE  ToastTypes' /\ ToastFollowsCalls'
<1>. DEFINE n == Len(coming)
<1>1. /\ coming \in Seq(Toasts) /\ coming # <<>> /\ n \in Nat \ {0}
      /\ Head(coming) \in Toasts /\ Head(coming) = coming[1]
      /\ Tail(coming) \in Seq(Toasts) /\ Len(Tail(coming)) = n - 1
      /\ \A i \in 1..Len(Tail(coming)) : Tail(coming)[i] = coming[i + 1]
  BY HeadTailProperties DEF NextConfig, ToastTypes
<1>2. config' = Head(coming) /\ coming' = Tail(coming) /\ UNCHANGED <<root, isOpen, lastTimer, astray, call>>
  BY DEF NextConfig, clientVars
<1>3. Latest = coming[n]
  BY <1>1 DEF Latest
<1>. HIDE DEF n
<1>4. CASE n = 1
  <2>1. Tail(coming) = <<>>
    <3>1. Len(Tail(coming)) = 0
      BY <1>1, <1>4
    <3>. QED
      BY <1>1, <3>1, EmptySeq
  <2>. QED
    BY <1>1, <1>2, <1>3, <1>4, <2>1 DEF ToastTypes, ToastFollowsCalls, Latest, MayStay, Waiting
<1>5. CASE n # 1
  <2>1. n - 1 \in 1..Len(Tail(coming)) /\ (n - 1) + 1 = n
    BY <1>1, <1>5
  <2>2. Tail(coming) # <<>>
    <3>1. Len(Tail(coming)) # 0
      BY <1>1, <1>5
    <3>. QED
      BY <3>1, EmptySeq
  <2>3. Tail(coming)[n - 1] = coming[n]
    BY <1>1, <2>1
  <2>4. Latest' = Latest
    BY <1>1, <1>2, <1>3, <2>2, <2>3 DEF Latest
  <2>. QED
    BY <1>1, <1>2, <2>2, <2>4 DEF ToastTypes, ToastFollowsCalls, MayStay, Waiting, NextConfig
<1>. QED
  BY <1>4, <1>5

-----------------------------------------------------------------------------
(***************************************************************************)
(* The rate limit                                                          *)
(***************************************************************************)

\* The second of a counted request.
LEMMA Seconds ==
    ASSUME NEW S, S \subseteq Requests \X (0..MaxTime), NEW p \in S
    PROVE  p[1] \in Requests /\ p[2] \in 0..MaxTime
OBVIOUS

LEMMA CountStep ==
    ASSUME ClientTypes, SentIsCounted, RateLimitHolds, NEW c \in Requests, CountRequest(c),
           UNCHANGED now,
           \/ sends' = sends
           \/ sends' = sends \cup {<<c, now>>} /\ Cardinality(counter') <= RateLimit
    PROVE  /\ counter' \subseteq Requests \X (0..MaxTime)
           /\ sends' \subseteq Requests \X (0..MaxTime)
           /\ SentIsCounted'
           /\ RateLimitHolds'
<1>1. /\ counter' = {p \in counter : p[2] + Window > now} \cup {<<c, now>>}
      /\ counter \subseteq Requests \X (0..MaxTime) /\ sends \subseteq Requests \X (0..MaxTime)
      /\ now \in 0..MaxTime /\ now' = now
      /\ Window \in Nat \ {0} /\ RateLimit \in Nat /\ MaxTime \in Nat
  BY CallsAssumption DEF CountRequest, Recent, ClientTypes
<1>2. counter' \subseteq Requests \X (0..MaxTime) /\ sends' \subseteq Requests \X (0..MaxTime)
  BY <1>1
<1>3. SentIsCounted'
  <2>1. ASSUME NEW p \in sends'
        PROVE  p[2] <= now /\ (p[2] + Window > now => p \in counter')
    <3>1. CASE p \in sends
      BY <1>1, <3>1 DEF SentIsCounted
    <3>2. CASE p = <<c, now>>
      BY <1>1, <3>2
    <3>. QED
      BY <3>1, <3>2
  <2>. QED
    BY <1>1, <2>1 DEF SentIsCounted
<1>4. IsFiniteSet(counter')
  <2>1. IsFiniteSet(Requests) /\ IsFiniteSet(0..MaxTime)
    BY <1>1, FS_Interval, CallsAssumption DEF Requests
  <2>2. IsFiniteSet(Requests \X (0..MaxTime))
    BY <2>1, FS_Product
  <2>. QED
    BY <1>2, <2>2, FS_Subset
<1>5. ASSUME NEW t \in 0..MaxTime
      PROVE  Cardinality({p \in sends' : p[2] \in t..(t + Window - 1)}) <= RateLimit
  <2>. DEFINE W(s) == {p \in s : p[2] \in t..(t + Window - 1)}
  <2>0. Cardinality(W(sends)) <= RateLimit
    BY DEF RateLimitHolds
  <2>1. CASE W(sends') = W(sends)
    BY <2>0, <2>1
  <2>2. CASE W(sends') # W(sends)
    <3>1. /\ sends' = sends \cup {<<c, now>>} /\ Cardinality(counter') <= RateLimit
          /\ now \in t..(t + Window - 1)
      BY <2>2
    <3>2. ASSUME NEW p \in W(sends') PROVE p \in counter'
      <4>1. CASE p \in sends
        <5>1. p[2] \in 0..MaxTime /\ t <= p[2] /\ t \in Nat
          BY <1>1, <3>2, <4>1, Seconds
        <5>2. now <= t + Window - 1
          BY <1>1, <3>1, <5>1
        <5>3. p[2] + Window > now
          BY <1>1, <5>1, <5>2
        <5>. QED
          BY <1>1, <4>1, <5>3 DEF SentIsCounted
      <4>2. CASE p = <<c, now>>
        BY <1>1, <4>2
      <4>. QED
        BY <3>1, <4>1, <4>2
    <3>3. W(sends') \subseteq counter'
      BY <3>2
    <3>4. /\ Cardinality(W(sends')) <= Cardinality(counter')
          /\ Cardinality(W(sends')) \in Nat /\ Cardinality(counter') \in Nat
      <4>1. IsFiniteSet(W(sends'))
        BY <1>4, <3>3, FS_Subset
      <4>. QED
        BY <1>4, <3>3, <4>1, FS_Subset, FS_CardinalityType
    <3>. QED
      BY <1>1, <3>1, <3>4
  <2>. QED
    BY <2>1, <2>2
<1>. QED
  BY <1>2, <1>3, <1>5 DEF RateLimitHolds

-----------------------------------------------------------------------------
(***************************************************************************)
(* The actions                                                             *)
(***************************************************************************)

LEMMA InitIInv == Init => IInv
<1>. SUFFICES ASSUME Init PROVE IInv
  OBVIOUS
<1>1. ClientTypes
  <2>1. /\ 0 \in 0..MaxTime /\ 0 \in 0..MaxOthers
        /\ "idle" \in CallStates
    BY CallsAssumption DEF CallStates
  <2>2. [c \in Calls |-> "idle"] \in [Calls -> CallStates]
    BY <2>1
  <2>. QED
    BY <2>1, <2>2 DEF Init, ClientTypes
<1>5. ToastTypes
  BY EmptySeq DEF Init, ToastTypes
<1>2. SentIsCounted
  BY DEF Init, SentIsCounted
<1>3. RateLimitHolds
  <2>1. \A t \in 0..MaxTime : {p \in sends : p[2] \in t..(t + Window - 1)} = {}
    BY DEF Init
  <2>2. Cardinality({}) = 0
    BY FS_EmptySet
  <2>3. 0 <= RateLimit
    BY CallsAssumption
  <2>. QED
    BY <2>1, <2>2, <2>3 DEF RateLimitHolds
<1>4. ToastFollowsCalls
  BY DEF Init, ToastFollowsCalls, Latest
<1>. QED
  BY <1>1, <1>2, <1>3, <1>4, <1>5 DEF IInv

\* How many requests were counted is a number.
LEMMA CountedIsFinite ==
    ASSUME ClientTypes, NEW c \in Requests, CountRequest(c)
    PROVE  Cardinality(counter') \in Int
<1>1. counter' \subseteq Requests \X (0..MaxTime)
  BY DEF CountRequest, Recent, ClientTypes
<1>2. IsFiniteSet(Requests \X (0..MaxTime))
  <2>1. IsFiniteSet(Requests) /\ IsFiniteSet(0..MaxTime)
    BY FS_Interval, CallsAssumption DEF Requests
  <2>. QED
    BY <2>1, FS_Product
<1>. QED
  BY <1>1, <1>2, FS_Subset, FS_CardinalityType

\* A step that counts and sends nothing.
LEMMA UncountedStep ==
    ASSUME IInv, UNCHANGED <<counter, sends, now>>
    PROVE  SentIsCounted' /\ RateLimitHolds'
BY DEF IInv, SentIsCounted, RateLimitHolds

\* The state of one call changes.
LEMMA MoveStep ==
    ASSUME ClientTypes, NEW c \in Calls, NEW st \in CallStates, Move(c, st)
    PROVE  /\ call' \in [Calls -> CallStates] /\ call'[c] = st
           /\ \A d \in Calls : d # c => call'[d] = call[d]
BY DEF ClientTypes, Move

LEMMA WaitingGoesOn ==
    ASSUME NEW c \in Calls, \A d \in Calls : d # c => call'[d] = call[d],
           \/ call[c] \notin {"waiting", "acknowledged"} \cup Answers
           \/ call'[c] \in {"waiting", "acknowledged"} \cup Answers
    PROVE  Waiting => Waiting'
BY DEF Waiting

LEMMA NextKeepsIInv == IInv /\ [Next]_vars => IInv'
<1>. SUFFICES ASSUME IInv, [Next]_vars PROVE IInv'
  OBVIOUS
<1>0. /\ ClientTypes /\ ToastTypes /\ SentIsCounted /\ RateLimitHolds /\ ToastFollowsCalls
      /\ phone \in BOOLEAN
      /\ Answers \subseteq CallStates /\ Calls \subseteq Requests
      /\ {"idle", "preparing", "waiting", "acknowledged", "resolved", "rejected"} \subseteq CallStates
  BY CallsAssumption DEF IInv, ClientTypes, CallStates, Calls, Requests
<1>1. CASE UNCHANGED vars
  <2>1. ClientTypes'
    BY <1>0, <1>1 DEF vars, clientVars, ClientTypes
  <2>2. ToastTypes' /\ ToastFollowsCalls'
    BY <1>0, <1>1, KeepStep DEF vars, clientVars, Waiting
  <2>3. SentIsCounted' /\ RateLimitHolds'
    BY <1>1, UncountedStep DEF vars, clientVars
  <2>. QED
    BY <2>1, <2>2, <2>3 DEF IInv
<1>2. ASSUME NEW c \in Calls, NotifySuccess(c)
      PROVE  IInv'
  <2>1. /\ Move(c, "resolved") /\ Emit(SuccessToast(kind[c]))
        /\ account' = account \/ account' \in Accounts
        /\ UNCHANGED <<role, phone, kind, counter, sends, now, others, linking>>
    BY <1>2 DEF NotifySuccess, NewAccount
  <2>2. ClientTypes'
    BY <1>0, <2>1, MoveStep DEF ClientTypes
  <2>3. ToastTypes' /\ ToastFollowsCalls'
    BY <1>0, <2>1, OpenStep, SuccessToasts
  <2>. QED
    BY <2>1, <2>2, <2>3, UncountedStep DEF IInv
<1>3. ASSUME NEW c \in Calls, HandleRequestError(c)
      PROVE  IInv'
  <2>1. /\ Move(c, "rejected")
        /\ NoEvent \/ (call[c] \in {"aborted", "failed"} /\ Emit(ErrorToast(call[c])))
        /\ UNCHANGED <<role, phone, kind, account, counter, sends, now, others, linking>>
    BY <1>3 DEF HandleRequestError, ErrorEvent
  <2>2. ClientTypes'
    BY <1>0, <2>1, MoveStep DEF ClientTypes
  <2>3. ToastTypes' /\ ToastFollowsCalls'
    BY <1>0, <2>1, OpenStep, NoEventStep, ErrorToasts
  <2>. QED
    BY <2>1, <2>2, <2>3, UncountedStep DEF IInv
<1>4. ASSUME NEW c \in Calls, AnswerThrows(c)
       PROVE  IInv'
  <2>1. /\ Move(c, "rejected") \/ Move(c, "resolved")
        /\ account' = account \/ account' \in Accounts
        /\ UNCHANGED <<role, phone, kind, counter, sends, now, others, linking>>
    BY <1>4 DEF AnswerThrows, NewAccount
  <2>2. ClientTypes'
    BY <1>0, <2>1, MoveStep DEF ClientTypes
  <2>3. ToastTypes' /\ ToastFollowsCalls'
    BY <1>0, <1>4, NoEventStep DEF AnswerThrows
  <2>. QED
    BY <2>1, <2>2, <2>3, UncountedStep DEF IInv
<1>5. ASSUME Render \/ NextConfig \/ TimerCloses
      PROVE  IInv'
  <2>1. UNCHANGED <<clientVars, linking>>
    BY <1>5 DEF Render, NextConfig, TimerCloses
  <2>2. ClientTypes'
    BY <1>0, <2>1 DEF ClientTypes, clientVars
  <2>3. ToastTypes' /\ ToastFollowsCalls'
    <3>1. CASE Render
      BY <1>0, <3>1 DEF Render, clientVars, ToastTypes, ToastFollowsCalls, Latest, Waiting, MayStay
    <3>2. CASE TimerCloses
      BY <1>0, <3>2 DEF TimerCloses, ToastTypes, ToastFollowsCalls, Latest
    <3>. QED
      BY <1>0, <1>5, <3>1, <3>2, NextConfigStep
  <2>. QED
    BY <2>1, <2>2, <2>3, UncountedStep DEF IInv, clientVars
<1>6. ASSUME NEW c \in Calls, NEW k, NEW may, Begin(c, k, may)
      PROVE  IInv'
  <2>1. /\ call[c] = "idle"
        /\ Move(c, "preparing") \/ Move(c, "rejected")
        /\ UNCHANGED <<toastVars, role, phone, kind, account, counter, sends, now, others, linking>>
    BY <1>6 DEF Begin
  <2>2. ClientTypes'
    BY <1>0, <2>1, MoveStep DEF ClientTypes
  <2>3. Waiting => Waiting'
    BY <1>0, <2>1, MoveStep, WaitingGoesOn DEF Answers
  <2>. QED
    BY <1>0, <2>1, <2>2, <2>3, KeepStep, UncountedStep DEF IInv
<1>7. ASSUME NEW c \in Calls, MakeRequest(c)
      PROVE  IInv'
  <2>1. /\ call[c] = "preparing" /\ CountRequest(c)
        /\ UNCHANGED <<role, phone, kind, account, now, others, linking>>
    BY <1>7 DEF MakeRequest
  <2>2. CASE Move(c, "rejected") /\ UNCHANGED <<sends, toastVars>>
    <3>1. Waiting => Waiting'
      BY <1>0, <2>1, <2>2, MoveStep, WaitingGoesOn DEF Answers
    <3>2. ToastTypes' /\ ToastFollowsCalls'
      BY <1>0, <2>2, <3>1, KeepStep
    <3>3. SentIsCounted' /\ RateLimitHolds' /\ ClientTypes'
      BY <1>0, <2>1, <2>2, CountStep, MoveStep DEF ClientTypes
    <3>. QED
      BY <3>2, <3>3 DEF IInv
  <2>3. CASE /\ Cardinality(counter') <= RateLimit
             /\ Move(c, "waiting") /\ sends' = sends \cup {<<c, now>>} /\ Emit(SentToast)
    <3>1. Waiting'
      BY <1>0, <2>3, MoveStep DEF Waiting
    <3>2. ToastTypes' /\ ToastFollowsCalls'
      BY <1>0, <2>3, <3>1, AwaitingToasts, OpenStep
    <3>3. SentIsCounted' /\ RateLimitHolds' /\ ClientTypes'
      BY <1>0, <2>1, <2>3, CountStep, MoveStep DEF ClientTypes
    <3>. QED
      BY <3>2, <3>3 DEF IInv
  <2>4. Cardinality(counter') \in Int
    BY <1>0, <2>1, CountedIsFinite
  <2>. QED
    BY <1>7, <2>2, <2>3, <2>4, CallsAssumption DEF MakeRequest, Refused
<1>8. ASSUME NEW c \in Calls, Acknowledge(c) \/ WalletConnectRejects(c)
      PROVE  IInv'
  <2>1. PICK st \in {"acknowledged", "aborted"}, t \in {AcknowledgedToast, ErrorToast("aborted")} :
          Move(c, st) /\ Emit(t)
    BY <1>8 DEF Acknowledge, WalletConnectRejects
  <2>2. UNCHANGED <<role, phone, kind, account, counter, sends, now, others, linking>>
    BY <1>8 DEF Acknowledge, WalletConnectRejects
  <2>3. st \in CallStates
    BY <1>0, <2>1 DEF CallStates, Answers
  <2>4. ClientTypes'
    BY <1>0, <2>1, <2>2, <2>3, MoveStep DEF ClientTypes
  <2>5. Waiting'
    BY <1>0, <2>1, <2>3, MoveStep DEF Waiting, Answers
  <2>6. t \in Toasts /\ (MayStay(t) \/ t.state \in Awaiting)
    BY <1>0, <2>1, AwaitingToasts, ErrorToasts
  <2>7. ToastTypes' /\ ToastFollowsCalls'
    BY <1>0, <2>1, <2>5, <2>6, OpenStep
  <2>. QED
    BY <2>2, <2>4, <2>7, UncountedStep DEF IInv
<1>9. ASSUME NEW c \in Calls, NEW a \in Answers, Answer(c, a)
      PROVE  IInv'
  <2>1. /\ Move(c, a)
        /\ UNCHANGED <<toastVars, role, phone, kind, account, counter, sends, now, others, linking>>
    BY <1>9 DEF Answer
  <2>2. ClientTypes'
    BY <1>0, <2>1, MoveStep DEF ClientTypes
  <2>3. Waiting'
    BY <1>0, <2>1, MoveStep DEF Waiting
  <2>. QED
    BY <1>0, <2>1, <2>2, <2>3, KeepStep, UncountedStep DEF IInv
<1>10. ASSUME NEW a \in Accounts \cup {None}, SetActiveAccount(a)
      PROVE  IInv'
  <2>1. /\ others < MaxOthers /\ others' = others + 1 /\ account' = a
        /\ UNCHANGED <<toastVars, role, phone, kind, call, counter, sends, now, linking>>
    BY <1>10 DEF SetActiveAccount, Count
  <2>2. ClientTypes'
    BY <1>0, <2>1, CallsAssumption DEF ClientTypes
  <2>. QED
    BY <1>0, <2>1, <2>2, KeepStep, UncountedStep DEF IInv, Waiting
<1>11. ASSUME NEW t \in Toasts,
              (Emit(t) /\ MayStay(t)) \/ (EmitAstray(t) /\ t.state \in Awaiting), Count,
              UNCHANGED <<role, phone, kind, account, call, counter, sends, now, linking>>
       PROVE  IInv'
  <2>1. others < MaxOthers /\ others' = others + 1
    BY <1>11 DEF Count
  <2>2. ClientTypes'
    BY <1>0, <1>11, <2>1, CallsAssumption DEF ClientTypes
  <2>3. ToastTypes' /\ ToastFollowsCalls'
    BY <1>0, <1>11, OpenStep, OpenAstrayStep
  <2>. QED
    BY <1>11, <2>2, <2>3, UncountedStep DEF IInv
<1>12. ASSUME ShowPrepare \/ AcknowledgeLate
              \/ \E t \in {AcknowledgedToast, ErrorToast("aborted")} : WcToastHandler(t)
       PROVE  IInv'
  <2>1. CASE ShowPrepare
    BY <1>0, <1>11, <2>1, AwaitingToasts DEF ShowPrepare
  <2>2. CASE AcknowledgeLate
    BY <1>0, <1>11, <2>2, AwaitingToasts DEF AcknowledgeLate
  <2>3. ASSUME NEW t \in {AcknowledgedToast, ErrorToast("aborted")}, WcToastHandler(t)
        PROVE  IInv'
    <3>1. \/ t = AcknowledgedToast /\ EmitAstray(t)
          \/ t = ErrorToast("aborted") /\ Emit(t)
      BY <2>3 DEF WcToastHandler
    <3>2. /\ t \in Toasts
          /\ (Emit(t) /\ MayStay(t)) \/ (EmitAstray(t) /\ t.state \in Awaiting)
      BY <1>0, <3>1, AwaitingToasts, ErrorToasts
    <3>. QED
      BY <1>11, <2>3, <3>2 DEF WcToastHandler
  <2>. QED
    BY <1>12, <2>1, <2>2, <2>3
<1>13. ASSUME NEW k \in Kinds, PrepareRequest(k)
       PROVE  IInv'
  <2>. DEFINE c == NCalls + others'
  <2>1. /\ others < MaxOthers /\ others' = others + 1 /\ CountRequest(c)
        /\ UNCHANGED <<role, phone, kind, account, call, now, linking>>
        /\ c \in Requests
    BY <1>0, <1>13, CallsAssumption DEF PrepareRequest, Count, ClientTypes, Requests
  <2>2. Cardinality(counter') \in Int
    BY <1>0, <2>1, CountedIsFinite
  <2>3. \/ sends' = sends /\ UNCHANGED toastVars
        \/ /\ sends' = sends \cup {<<c, now>>} /\ Cardinality(counter') <= RateLimit
           /\ UNCHANGED toastVars \/ EmitAstray(SentToast)
    BY <1>13, <2>2, CallsAssumption DEF PrepareRequest, Refused
  <2>. HIDE DEF c
  <2>4. ToastTypes' /\ ToastFollowsCalls'
    <3>1. CASE UNCHANGED toastVars
      BY <1>0, <2>1, <3>1, KeepStep DEF Waiting
    <3>2. CASE EmitAstray(SentToast)
      BY <1>0, <3>2, AwaitingToasts, OpenAstrayStep
    <3>. QED
      BY <2>3, <3>1, <3>2
  <2>5. SentIsCounted' /\ RateLimitHolds' /\ ClientTypes'
    BY <1>0, <2>1, <2>3, CountStep, CallsAssumption DEF ClientTypes
  <2>. QED
    BY <2>4, <2>5 DEF IInv
<1>14. ASSUME HideUI \/ ClickClose \/ ResetConnection \/ ExplorerOpened
       PROVE  IInv'
  <2>1. /\ CloseToast /\ account' \in {account, None} /\ linking' \in {linking, FALSE}
        /\ UNCHANGED <<role, phone, kind, call, counter, sends, now, others>>
    BY <1>14 DEF HideUI, ClickClose, ResetConnection, ExplorerOpened, clientVars
  <2>2. ClientTypes'
    BY <1>0, <2>1 DEF ClientTypes
  <2>. QED
    BY <1>0, <2>1, <2>2, CloseStep, UncountedStep DEF IInv, Waiting
<1>15. ASSUME Tick
       PROVE  IInv'
  <2>1. /\ now < MaxTime /\ now' = now + 1
        /\ UNCHANGED <<toastVars, role, phone, kind, account, call, counter, sends, others, linking>>
    BY <1>15 DEF Tick
  <2>2. ClientTypes'
    BY <1>0, <2>1, CallsAssumption DEF ClientTypes
  <2>3. SentIsCounted'
    <3>1. ASSUME NEW p \in sends
          PROVE  p[2] <= now + 1 /\ (p[2] + Window > now + 1 => p \in counter)
      <4>1. p[2] \in 0..MaxTime /\ now \in 0..MaxTime
        BY <1>0, Seconds DEF ClientTypes
      <4>2. p[2] <= now /\ (p[2] + Window > now => p \in counter)
        BY <1>0 DEF SentIsCounted
      <4>. QED
        BY <4>1, <4>2, CallsAssumption
    <3>. QED
      BY <2>1, <3>1 DEF SentIsCounted
  <2>4. RateLimitHolds'
    BY <1>0, <2>1 DEF RateLimitHolds
  <2>. QED
    BY <1>0, <2>1, <2>2, <2>3, <2>4, KeepStep DEF IInv, Waiting
<1>16. ASSUME OpenExplorer
       PROVE  IInv'
  <2>1. linking' = TRUE /\ UNCHANGED <<clientVars, toastVars>>
    BY <1>16 DEF OpenExplorer
  <2>2. ClientTypes'
    BY <1>0, <2>1 DEF ClientTypes, clientVars
  <2>. QED
    BY <1>0, <2>1, <2>2, KeepStep, UncountedStep DEF IInv, Waiting, clientVars
<1>17. CASE Environment
  BY <1>6, <1>7, <1>8, <1>9, <1>10, <1>11, <1>12, <1>13, <1>14, <1>15, <1>16, <1>17
     DEF Environment, RequestPermissions, RequestProofOfEventChallenge,
         RequestSimulatedProofOfEventChallenge, RequestSignPayload, RequestOperation,
         RequestBroadcast, PermissionRequest, Request
<1>. QED
  BY <1>1, <1>2, <1>3, <1>4, <1>5, <1>17 DEF Next, Reactions, Timers

\* TypeOK, for any calls, accounts and limits.
THEOREM TypeCorrect == Spec => []TypeOK
  BY InitIInv, NextKeepsIInv, IInvImplies, PTL DEF Spec

\* No more requests are sent in any window of time than the rate limit allows,
\* whichever calls are refused or rejected
\* (addRequestAndCheckIfRateLimited, Client.ts:147).
THEOREM SendingIsLimited == Spec => []RateLimitHolds
  BY InitIInv, NextKeepsIInv, IInvImplies, PTL DEF Spec

\* A call that ends with an event leaves no toast that awaits the wallet, however
\* delayed, closed and replaced toasts follow each other (openToast, ui/toast).
THEOREM NoToastAwaitsInVain == Spec => []QuietToastAwaitsNothing
  BY InitIInv, NextKeepsIInv, IInvImplies, PTL DEF Spec

\* A toast that does not await the wallet has a timer that will close it, or is one the
\* user has to see, also while calls wait (openToast and the one lastTimer, ui/toast).
THEOREM LeftToastsClose == Spec => []LeftToastTimesOut
  BY InitIInv, NextKeepsIInv, IInvImplies, PTL DEF Spec

=============================================================================
