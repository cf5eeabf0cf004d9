-------------------------- MODULE DebugStreamProofs --------------------------
(***************************************************************************)
(* The event stream of the production page, for any number of sockets and  *)
(* any sizes of channel and store: order, no silent loss, a true indicator *)
(* and a final disconnect.                                                 *)
(*                                                                         *)
(* The argument: while the page is mounted it has one socket in use or one *)
(* pending reconnect, never both (PageInv). So a new socket subscribes     *)
(* only after the last one has closed, and everything it can deliver is    *)
(* newer than everything shown (OrderInv); and the only events a socket    *)
(* skips are those of its receiver's lag (LossInv).                        *)
(***************************************************************************)
EXTENDS DebugStream, SequenceTheorems, TLAPS

(* One socket in use or one pending reconnect.                             *)
PageInv ==
  /\ ws # NoSocket => readyState[ws] \in InUse /\ timers = {}
  /\ \A s \in Sockets : readyState[s] \in InUse => s = ws
  /\ timers \subseteq {retryTimer}
  /\ page # "mounted" => ws = NoSocket /\ timers = {}
  /\ page = "loading" => \A s \in Sockets : readyState[s] = "closed"
  /\ page = "mounted" => \A s \in Sockets : readyState[s] # "closing"
  /\ page = "unmounted" <=> manualClose
  /\ IndicatorTells

(* What is on the way to the page is in order and newer than what it       *)
(* shows, and what a handler receives next is newer still.                 *)
InOrder(s) ==
  /\ readyState[s] = "closed" => wire[s] = <<>>
  /\ handler[s] \in {"none", "upgraded"} => wire[s] = <<>>
  /\ \A i, j \in 1..Len(wire[s]) : i < j => wire[s][i] < wire[s][j]
  /\ \A j \in 1..Len(wire[s]) : wire[s][j] <= sent
  /\ handler[s] = "serving" =>
       /\ since[s] < next[s] /\ next[s] <= sent + 1
       /\ \A j \in 1..Len(wire[s]) : wire[s][j] < next[s]
  /\ readyState[s] \in InUse =>
       \A i \in 1..Len(events) :
         /\ \A j \in 1..Len(wire[s]) : events[i] < wire[s][j]
         /\ handler[s] = "serving" => events[i] < next[s]

OrderInv ==
  /\ ShownInOrder
  /\ Len(events) <= MaxShown
  /\ \A i \in 1..Len(events) : events[i] <= sent
  /\ \A s \in Sockets : InOrder(s)

(* What a handler has passed is shown, dropped from a full store, on its   *)
(* way, or reported.                                                       *)
Accounted(s, e) ==
  \/ e \in missed[s] \union ToSet(wire[s]) \union ToSet(events)
  \/ Len(events) = MaxShown /\ e < events[1]

LossInv ==
  \A s \in Sockets : readyState[s] \in InUse /\ handler[s] = "serving" =>
    \A e \in since[s] + 1..next[s] - 1 : Accounted(s, e)

(* The inductive invariant.                                                *)
IInv == TypeOK /\ PageInv /\ OrderInv /\ LossInv

-----------------------------------------------------------------------------
(* The oldest event of the channel.                                        *)
LEMMA OldestBounds ==
  ASSUME TypeOK
  PROVE  Oldest \in Nat /\ 1 <= Oldest /\ Oldest <= sent + 1 /\ (sent > 0 => Oldest <= sent)
BY BoundsAssumption DEF TypeOK, Oldest

(* The initial state satisfies the invariant.                              *)
LEMMA InitIInv == Init => IInv
<1> SUFFICES ASSUME Init PROVE IInv
  OBVIOUS
<1>1. TypeOK
  <2>1. 0 \in 0..MaxSent /\ 1 \in 1..MaxSent + 1
    BY BoundsAssumption
  <2>2. <<>> \in Seq(1..MaxSent)
    OBVIOUS
  <2> QED BY <2>1, <2>2 DEF Init, TypeOK, Handler, ReadyState
<1>2. PageInv
  BY DEF Init, PageInv, InUse, IndicatorTells
<1>3. OrderInv
  BY BoundsAssumption DEF Init, OrderInv, InOrder, ShownInOrder, InUse
<1>4. LossInv
  BY DEF Init, LossInv, InUse
<1> QED BY <1>1, <1>2, <1>3, <1>4 DEF IInv

(* A store that takes in an event newer than all it shows.                 *)
LEMMA PushFacts ==
  ASSUME NEW e \in 1..MaxSent, events \in Seq(1..MaxSent), ShownInOrder,
         Len(events) <= MaxShown, \A i \in 1..Len(events) : events[i] < e
  PROVE  /\ Push(e) \in Seq(1..MaxSent)
         /\ Len(Push(e)) \in 1..MaxShown /\ Push(e)[Len(Push(e))] = e
         /\ \A i \in 1..Len(Push(e)) : Push(e)[i] <= e
         /\ \A i, j \in 1..Len(Push(e)) : i < j => Push(e)[i] < Push(e)[j]
         /\ \A i \in 1..Len(events) :
              \/ \E j \in 1..Len(Push(e)) : Push(e)[j] = events[i]
              \/ Len(Push(e)) = MaxShown /\ events[i] < Push(e)[1]
         /\ Len(events) = MaxShown =>
              Len(Push(e)) = MaxShown /\ events[1] < Push(e)[1]
<1> DEFINE all == Append(events, e)
           n == Len(events)
<1>1. /\ all \in Seq(1..MaxSent) /\ Len(all) = n + 1 /\ n \in Nat
      /\ all[n + 1] = e
      /\ \A i \in 1..n + 1 : all[i] \in Int
      /\ \A i \in 1..n : all[i] = events[i] /\ events[i] \in Int
      /\ e \in Int /\ MaxShown \in Nat /\ MaxShown >= 1
  BY BoundsAssumption
<1>2. \A i, j \in 1..n + 1 : i < j => all[i] < all[j]
  BY <1>1 DEF ShownInOrder
<1>3. CASE n + 1 > MaxShown
  <2> DEFINE t == Tail(all)
  <2>0. all # <<>>
    BY <1>1
  <2>1. t \in Seq(1..MaxSent) /\ Len(t) = n /\ n >= 1 /\ n = MaxShown
    BY <1>1, <1>3, <2>0
  <2>2. \A i \in 1..n : t[i] = all[i + 1]
    BY <1>1, <2>0, <2>1
  <2>3. Push(e) = t
    BY <1>1, <1>3 DEF Push
  <2> HIDE DEF all, t
  <2>4. t[n] = e
    BY <1>1, <2>1, <2>2
  <2>5. \A i, j \in 1..n : i < j => t[i] < t[j]
    <3> SUFFICES ASSUME NEW i \in 1..n, NEW j \in 1..n, i < j PROVE t[i] < t[j]
      OBVIOUS
    <3>1. i + 1 \in 1..n + 1 /\ j + 1 \in 1..n + 1 /\ i + 1 < j + 1
      BY <1>1
    <3> QED BY <1>2, <2>2, <3>1
  <2>6. \A i \in 1..n : t[i] <= e
    <3> SUFFICES ASSUME NEW i \in 1..n PROVE t[i] <= e
      OBVIOUS
    <3>1. CASE i = n
      BY <1>1, <2>4, <3>1
    <3>2. CASE i # n
      <4>1. n \in 1..n /\ i < n
        BY <1>1, <3>2
      <4>2. t[i] < t[n]
        BY <2>5, <4>1
      <4>3. t[i] \in Int
        BY <1>1, <2>2
      <4> QED BY <1>1, <2>4, <4>2, <4>3
    <3> QED BY <3>1, <3>2
  <2>7. ASSUME NEW i \in 1..n
        PROVE  /\ (\E j \in 1..n : t[j] = events[i]) \/ events[i] < t[1]
               /\ i = 1 => events[i] < t[1]
    <3>1. CASE i = 1
      <4>1. 1 \in 1..n + 1 /\ 2 \in 1..n + 1 /\ 1 \in 1..n
        BY <1>1, <2>1
      <4>2. t[1] = all[2] /\ all[1] = events[1]
        BY <1>1, <2>2, <4>1
      <4> QED BY <1>2, <3>1, <4>1, <4>2
    <3>2. CASE i # 1
      <4>1. i - 1 \in 1..n /\ (i - 1) + 1 = i
        BY <1>1, <3>2
      <4>2. t[i - 1] = all[i]
        BY <2>2, <4>1
      <4> QED BY <1>1, <4>1, <4>2
    <3> QED BY <3>1, <3>2
  <2> QED BY <2>1, <2>3, <2>4, <2>5, <2>6, <2>7
<1>4. CASE ~ (n + 1 > MaxShown)
  <2>1. Push(e) = all
    BY <1>1, <1>4 DEF Push
  <2> HIDE DEF all
  <2>2. \A i \in 1..n + 1 : all[i] <= e
    <3> SUFFICES ASSUME NEW i \in 1..n + 1 PROVE all[i] <= e
      OBVIOUS
    <3>1. CASE i = n + 1
      BY <1>1, <3>1
    <3>2. CASE i # n + 1
      BY <1>1, <3>2
    <3> QED BY <3>1, <3>2
  <2>3. \A i \in 1..n : i \in 1..n + 1 /\ all[i] = events[i]
    BY <1>1
  <2>4. n # MaxShown /\ n + 1 \in 1..MaxShown
    BY <1>1, <1>4
  <2> QED BY <1>1, <1>2, <2>1, <2>2, <2>3, <2>4
<1> QED BY <1>1, <1>3, <1>4

(* connectWs in production, when there is no socket.                       *)
LEMMA ConnectFacts ==
  ASSUME Connect(NoSocket, readyState)
  PROVE  \E s \in Sockets :
           /\ readyState[s] = "closed" /\ handler[s] = "none"
           /\ ws' = s /\ readyState' = [readyState EXCEPT ![s] = "connecting"]
           /\ manualClose' = FALSE
BY DEF Connect, IsInUse

-----------------------------------------------------------------------------
(* Types.                                                                  *)
LEMMA StepTypeOK == IInv /\ [Next]_vars => TypeOK'
<1> SUFFICES ASSUME IInv, [Next]_vars PROVE TypeOK'
  OBVIOUS
<1>0. TypeOK /\ OrderInv
  BY DEF IInv
<1> USE <1>0, BoundsAssumption DEF TypeOK
<1>1. CASE Emit
  <2>1. sent' \in 0..MaxSent
    BY <1>1 DEF Emit
  <2> QED BY <1>1, <2>1 DEF Emit, clientVars
<1>2. CASE ServerDown
  BY <1>2 DEF ServerDown, clientVars, Handler
<1>3. CASE ServerUp \/ Stabilize
  BY <1>3 DEF ServerUp, Stabilize, clientVars
<1>4. CASE Mount
  <2>1. PICK rs \in MountStates : Connect(NoSocket, rs)
    BY <1>4 DEF Mount
  <2>2. rs \in [Sockets -> ReadyState]
    BY DEF MountStates, ReadyState
  <2>3. readyState' \in [Sockets -> ReadyState] /\ ws' \in Sockets \union {NoSocket}
        /\ manualClose' \in BOOLEAN
    BY <2>1, <2>2 DEF Connect, ReadyState
  <2> QED BY <1>4, <2>3 DEF Mount, serverVars
<1>5. CASE Unmount
  BY <1>5 DEF Unmount, serverVars, ReadyState
<1>6. ASSUME NEW s \in Sockets, ServerOf(s) PROVE TypeOK'
  <2>1. CASE Upgrade(s)
    BY <2>1 DEF Upgrade, clientVars, Handler
  <2>2. CASE Subscribe(s)
    BY <2>2 DEF Subscribe, FirstEvent, clientVars, Handler
  <2>3. CASE Forward(s)
    <3>1. next[s] \in 1..MaxSent /\ next[s] + 1 \in 1..MaxSent + 1
      BY <2>3 DEF Forward
    <3>2. Append(wire[s], next[s]) \in Seq(1..MaxSent)
      BY <3>1
    <3> QED BY <2>3, <3>1, <3>2 DEF Forward, clientVars
  <2>4. CASE Lag(s)
    <3>1. Oldest \in 1..MaxSent + 1 /\ next[s]..Oldest - 1 \subseteq 1..MaxSent
      BY OldestBounds
    <3> QED BY <2>4, <3>1 DEF Lag, clientVars
  <2>5. CASE HandlerEnds(s)
    BY <2>5 DEF HandlerEnds, clientVars, Handler
  <2> QED BY <1>6, <2>1, <2>2, <2>3, <2>4, <2>5 DEF ServerOf
<1>7. ASSUME NEW s \in Sockets, BrowserOf(s) PROVE TypeOK'
  <2>1. CASE OnOpen(s)
    <3>1. readyState' \in [Sockets -> ReadyState]
      BY <2>1 DEF OnOpen, ReadyState
    <3> QED BY <2>1, <3>1 DEF OnOpen, serverVars
  <2>2. CASE OnMessage(s)
    <3>1. /\ wire[s] \in Seq(1..MaxSent) /\ wire[s] # <<>>
          /\ Head(wire[s]) \in 1..MaxSent /\ Tail(wire[s]) \in Seq(1..MaxSent)
      BY <2>2 DEF OnMessage
    <3>2. readyState[s] = "open" => Push(Head(wire[s])) \in Seq(1..MaxSent)
      <4> SUFFICES ASSUME readyState[s] = "open" PROVE Push(Head(wire[s])) \in Seq(1..MaxSent)
        OBVIOUS
      <4>1. Head(wire[s]) = wire[s][1] /\ 1 \in 1..Len(wire[s])
        BY <3>1
      <4>2. \A i \in 1..Len(events) : events[i] < Head(wire[s])
        BY <4>1 DEF OrderInv, InOrder, InUse
      <4> QED BY <3>1, <4>2, PushFacts DEF OrderInv
    <3>3. events' \in Seq(1..MaxSent)
      BY <2>2, <3>2 DEF OnMessage
    <3> QED BY <2>2, <3>1, <3>3 DEF OnMessage, serverVars, clientVars
  <2>3. CASE OnClose(s)
    <3>1. readyState' \in [Sockets -> ReadyState] /\ wire' \in [Sockets -> Seq(1..MaxSent)]
      BY <2>3 DEF OnClose, ReadyState
    <3>2. timers' \in SUBSET Sockets /\ retryTimer' \in Sockets \union {NoSocket}
      BY <2>3 DEF OnClose, ScheduleReconnect
    <3> QED BY <2>3, <3>1, <3>2 DEF OnClose, serverVars
  <2>4. CASE Retry(s)
    BY <2>4 DEF Retry, Connect, serverVars, ReadyState
  <2> QED BY <1>7, <2>1, <2>2, <2>3, <2>4 DEF BrowserOf
<1>8. ASSUME NEW s \in Sockets, Forget(s) PROVE TypeOK'
  BY <1>8 DEF Forget, clientVars, Handler
<1>9. CASE UNCHANGED vars
  BY <1>9 DEF vars, serverVars, clientVars
<1> QED BY <1>1, <1>2, <1>3, <1>4, <1>5, <1>6, <1>7, <1>8, <1>9 DEF Next

(* One socket in use or one pending reconnect: every step of production.   *)
LEMMA StepPageInv == IInv /\ ~StrictMode /\ [Next]_vars => PageInv'
<1> SUFFICES ASSUME IInv, ~StrictMode, [Next]_vars PROVE PageInv'
  OBVIOUS
<1>0. TypeOK /\ PageInv
  BY DEF IInv
<1> USE <1>0, NoSocketAssumption DEF TypeOK, PageInv, IndicatorTells, InUse
<1>1. CASE UNCHANGED <<readyState, page, clientVars>>
  BY <1>1 DEF clientVars
<1>2. CASE Mount
  <2>1. ws = NoSocket /\ Connect(NoSocket, readyState)
    BY <1>2 DEF Mount, MountStates
  <2>2. PICK s \in Sockets :
          /\ readyState[s] = "closed"
          /\ ws' = s /\ readyState' = [readyState EXCEPT ![s] = "connecting"]
          /\ manualClose' = FALSE
    BY <2>1, ConnectFacts
  <2> QED BY <1>2, <2>2 DEF Mount
<1>3. CASE Unmount
  BY <1>3 DEF Unmount
<1>4. ASSUME NEW s \in Sockets, BrowserOf(s) PROVE PageInv'
  <2>1. CASE OnOpen(s)
    BY <2>1 DEF OnOpen
  <2>2. CASE OnMessage(s)
    BY <1>1, <2>2 DEF OnMessage
  <2>3. CASE OnClose(s)
    <3>1. /\ page # "loading"
          /\ \A r \in Sockets : readyState'[r] \notin InUse
      BY <2>3 DEF OnClose, Ends
    <3>2. timers' \subseteq {retryTimer'} /\ (manualClose => timers' = {})
      BY <2>3 DEF OnClose, Ends, ScheduleReconnect
    <3>3. page = "mounted" => \A r \in Sockets : readyState'[r] # "closing"
      BY <2>3 DEF OnClose, Ends
    <3> QED BY <2>3, <3>1, <3>2, <3>3 DEF OnClose
  <2>4. CASE Retry(s)
    <3>1. ws = NoSocket /\ page = "mounted" /\ timers' = {} /\ Connect(NoSocket, readyState)
      BY <2>4 DEF Retry
    <3>2. PICK r \in Sockets :
            /\ readyState[r] = "closed"
            /\ ws' = r /\ readyState' = [readyState EXCEPT ![r] = "connecting"]
            /\ manualClose' = FALSE
      BY <3>1, ConnectFacts
    <3> QED BY <2>4, <3>1, <3>2 DEF Retry
  <2> QED BY <1>4, <2>1, <2>2, <2>3, <2>4 DEF BrowserOf
<1>5. ASSUME NEW s \in Sockets, ServerOf(s) \/ Forget(s) PROVE PageInv'
  BY <1>1, <1>5 DEF ServerOf, Upgrade, Subscribe, Forward, Lag, HandlerEnds, Forget
<1>6. CASE Emit \/ ServerDown \/ ServerUp \/ Stabilize \/ UNCHANGED vars
  BY <1>1, <1>6 DEF Emit, ServerDown, ServerUp, Stabilize, vars
<1> QED BY <1>2, <1>3, <1>4, <1>5, <1>6 DEF Next

(* Events on the way and in the store are numbers.                         *)
LEMMA Elements ==
  ASSUME TypeOK
  PROVE  /\ sent \in Nat /\ Len(events) \in Nat
         /\ \A i \in 1..Len(events) : events[i] \in Int
         /\ \A s \in Sockets :
              /\ next[s] \in Nat /\ since[s] \in Nat /\ Len(wire[s]) \in Nat
              /\ \A j \in 1..Len(wire[s]) : wire[s][j] \in Int
BY BoundsAssumption DEF TypeOK

(* Order: every step of production.                                        *)
LEMMA StepOrderInv == IInv /\ ~StrictMode /\ [Next]_vars => OrderInv'
<1> SUFFICES ASSUME IInv, ~StrictMode, [Next]_vars PROVE OrderInv'
  OBVIOUS
<1>0. TypeOK /\ PageInv /\ OrderInv
  BY DEF IInv
<1>e. /\ sent \in Nat /\ Len(events) \in Nat
      /\ \A i \in 1..Len(events) : events[i] \in Int
      /\ \A s \in Sockets :
           /\ next[s] \in Nat /\ since[s] \in Nat /\ Len(wire[s]) \in Nat
           /\ \A j \in 1..Len(wire[s]) : wire[s][j] \in Int
  BY <1>0, Elements
<1>s. ASSUME UNCHANGED events, sent' \in Nat, sent <= sent',
             \A r \in Sockets : InOrder(r)'
      PROVE  OrderInv'
  BY <1>0, <1>e, <1>s DEF OrderInv, ShownInOrder
<1>u. ASSUME UNCHANGED <<sent, events>>, NEW r \in Sockets,
             UNCHANGED <<handler[r], since[r], next[r], wire[r], readyState[r]>>
      PROVE  InOrder(r)'
  BY <1>0, <1>u DEF OrderInv, InOrder
<1>c. ASSUME UNCHANGED <<sent, handler, since, next, wire, events>>,
             NEW s \in Sockets, readyState' = [readyState EXCEPT ![s] = "connecting"],
             readyState[s] = "closed", handler[s] = "none"
      PROVE  OrderInv'
  <2>1. InOrder(s)'
    BY <1>0, <1>e, <1>c DEF OrderInv, InOrder, TypeOK
  <2>2. ASSUME NEW r \in Sockets, r # s PROVE InOrder(r)'
    BY <1>0, <1>c, <1>u, <2>2 DEF TypeOK
  <2> QED BY <1>c, <1>e, <1>s, <2>1, <2>2
<1>2. CASE Emit
  <2>1. /\ sent' = sent + 1
        /\ UNCHANGED <<handler, since, next, wire, readyState, events>>
    BY <1>2 DEF Emit
  <2>2. ASSUME NEW r \in Sockets PROVE InOrder(r)'
    <3>1. InOrder(r) /\ sent < sent'
      BY <1>0, <1>e, <2>1 DEF OrderInv
    <3>2. /\ \A j \in 1..Len(wire[r]) : wire[r][j] <= sent'
          /\ handler[r] = "serving" => next[r] <= sent' + 1
      BY <1>e, <2>1, <3>1 DEF InOrder
    <3> QED BY <2>1, <3>1, <3>2 DEF InOrder
  <2> QED BY <1>e, <1>s, <2>1, <2>2
<1>3. CASE ServerDown
  <2>1. ASSUME NEW r \in Sockets PROVE InOrder(r)'
    BY <1>0, <1>3 DEF ServerDown, OrderInv, InOrder
  <2> QED BY <1>3, <1>e, <1>s, <2>1 DEF ServerDown
<1>4. CASE Mount
  <2>1. Connect(NoSocket, readyState)
    BY <1>4 DEF Mount, MountStates
  <2> QED BY <1>4, <1>c, <2>1, ConnectFacts DEF Mount, serverVars
<1>5. CASE Unmount
  <2>1. ASSUME NEW r \in Sockets PROVE InOrder(r)'
    BY <1>0, <1>5 DEF Unmount, serverVars, OrderInv, InOrder, InUse
  <2> QED BY <1>5, <1>e, <1>s, <2>1 DEF Unmount, serverVars
<1>6. ASSUME NEW s \in Sockets, ServerOf(s) \/ Forget(s) PROVE OrderInv'
  <2>1. UNCHANGED <<sent, events, readyState>>
    BY <1>6 DEF ServerOf, Upgrade, Subscribe, Forward, Lag, HandlerEnds, Forget
  <2>2. ASSUME NEW r \in Sockets, r # s
        PROVE  UNCHANGED <<handler[r], since[r], next[r], wire[r], readyState[r]>>
    BY <1>0, <1>6, <2>2
       DEF TypeOK, ServerOf, Upgrade, Subscribe, Forward, Lag, HandlerEnds, Forget
  <2> SUFFICES InOrder(s)'
    BY <1>e, <1>s, <1>u, <2>1, <2>2
  <2>3. InOrder(s)
    BY <1>0 DEF OrderInv
  <2>4. CASE Upgrade(s) \/ HandlerEnds(s) \/ Forget(s)
    BY <1>0, <2>3, <2>4 DEF Upgrade, HandlerEnds, Forget, InOrder, InUse, TypeOK
  <2>5. CASE Subscribe(s)
    BY <1>0, <1>e, <2>3, <2>5 DEF Subscribe, FirstEvent, OrderInv, InOrder, TypeOK
  <2>6. CASE Forward(s)
    <3> DEFINE w == wire[s]
               v == wire'[s]
               n == Len(wire[s])
               e == next[s]
    <3>1. /\ v = Append(w, e) /\ next'[s] = e + 1 /\ e <= sent
          /\ handler[s] = "serving" /\ readyState[s] # "closed"
          /\ UNCHANGED <<handler, since>>
      BY <1>0, <2>6 DEF Forward, TypeOK
    <3>2. /\ Len(v) = n + 1 /\ v[n + 1] = e
          /\ \A j \in 1..n : v[j] = w[j]
      BY <1>0, <3>1 DEF TypeOK
    <3>3. \A j \in 1..n : w[j] < e /\ w[j] \in Int
      BY <1>e, <2>3, <3>1 DEF InOrder
    <3>4. \A j \in 1..n + 1 : v[j] \in Int /\ v[j] <= e
      <4> SUFFICES ASSUME NEW j \in 1..n + 1 PROVE v[j] \in Int /\ v[j] <= e
        OBVIOUS
      <4>1. CASE j = n + 1
        BY <1>e, <3>2, <4>1
      <4>2. CASE j # n + 1
        <5>1. j \in 1..n
          BY <1>e, <4>2
        <5> QED BY <1>e, <3>2, <3>3, <5>1
      <4> QED BY <4>1, <4>2
    <3>5. \A i, j \in 1..n + 1 : i < j => v[i] < v[j]
      <4> SUFFICES ASSUME NEW i \in 1..n + 1, NEW j \in 1..n + 1, i < j PROVE v[i] < v[j]
        OBVIOUS
      <4>1. i \in 1..n
        BY <1>e
      <4>2. CASE j = n + 1
        BY <3>2, <3>3, <4>1, <4>2
      <4>3. CASE j # n + 1
        <5>1. j \in 1..n
          BY <1>e, <4>3
        <5> QED BY <2>3, <3>2, <4>1, <5>1 DEF InOrder
      <4> QED BY <4>2, <4>3
    <3>6. readyState[s] \in InUse =>
            \A i \in 1..Len(events) : \A j \in 1..n + 1 : events[i] < v[j]
      <4> SUFFICES ASSUME readyState[s] \in InUse,
                          NEW i \in 1..Len(events), NEW j \in 1..n + 1
                   PROVE  events[i] < v[j]
        OBVIOUS
      <4>1. CASE j = n + 1
        BY <2>3, <3>1, <3>2, <4>1 DEF InOrder
      <4>2. CASE j # n + 1
        <5>1. j \in 1..n
          BY <1>e, <4>2
        <5> QED BY <2>3, <3>2, <5>1 DEF InOrder
      <4> QED BY <4>1, <4>2
    <3>7. readyState[s] \in InUse => \A i \in 1..Len(events) : events[i] < e + 1
      BY <1>e, <2>3, <3>1 DEF InOrder
    <3>8. since[s] < e + 1 /\ e + 1 <= sent + 1
          /\ \A j \in 1..n + 1 : v[j] <= sent /\ v[j] < e + 1
      BY <1>e, <2>3, <3>1, <3>4 DEF InOrder
    <3> HIDE DEF v
    <3> QED BY <2>1, <3>1, <3>2, <3>5, <3>6, <3>7, <3>8 DEF InOrder, v
  <2>7. CASE Lag(s)
    <3>1. Oldest \in Nat /\ next[s] < Oldest /\ Oldest <= sent + 1 /\ next'[s] = Oldest
          /\ UNCHANGED <<handler, since, wire>>
      BY <1>0, <2>7, OldestBounds DEF Lag, TypeOK
    <3> QED BY <1>e, <2>1, <2>3, <3>1 DEF InOrder
  <2> QED BY <1>6, <2>4, <2>5, <2>6, <2>7 DEF ServerOf
<1>7. ASSUME NEW s \in Sockets, OnMessage(s) PROVE OrderInv'
  <2> DEFINE w == wire[s]
             t == Tail(wire[s])
             n == Len(wire[s])
             e == wire[s][1]
  <2>1. /\ w \in Seq(1..MaxSent) /\ w # <<>> /\ n >= 1 /\ Head(w) = e
        /\ wire'[s] = t /\ \A r \in Sockets \ {s} : wire'[r] = wire[r]
        /\ UNCHANGED <<sent, handler, since, next, readyState>>
    BY <1>0, <1>7 DEF OnMessage, serverVars, TypeOK
  <2>2. e \in 1..MaxSent /\ Len(t) = n - 1 /\ \A j \in 1..n - 1 : t[j] = w[j + 1]
    <3>1. 1 \in 1..n
      BY <1>e, <2>1
    <3>2. e \in 1..MaxSent
      BY <2>1, <3>1, ElementOfSeq
    <3>3. Len(t) = n - 1 /\ \A j \in 1..n - 1 : t[j] = w[j + 1]
      BY <2>1
    <3> QED BY <3>2, <3>3
  <2>3. InOrder(s)
    BY <1>0 DEF OrderInv
  <2>4. ASSUME NEW j \in 1..n - 1 PROVE j + 1 \in 1..n /\ e < t[j] /\ t[j] \in Int
    <3>1. 1 \in 1..n /\ j + 1 \in 1..n /\ 1 < j + 1
      BY <1>e, <2>1
    <3> QED BY <1>e, <2>2, <2>3, <3>1 DEF InOrder
  <2>5. /\ \A i, j \in 1..n - 1 : i < j => t[i] < t[j]
        /\ \A j \in 1..n - 1 : t[j] <= sent
        /\ handler[s] = "serving" => \A j \in 1..n - 1 : t[j] < next[s]
    BY <1>e, <2>2, <2>3, <2>4 DEF InOrder
  <2>6. readyState[s] \in {"open", "closing"} /\ handler[s] \notin {"none", "upgraded"}
    BY <1>7, <2>1, <2>3 DEF OnMessage, InOrder
  <2>7. CASE readyState[s] = "closing"
    <3>1. UNCHANGED events
      BY <1>7, <2>7 DEF OnMessage
    <3>2. InOrder(s)'
      BY <2>1, <2>2, <2>3, <2>5, <2>6, <2>7 DEF InOrder, InUse
    <3>3. ASSUME NEW r \in Sockets, r # s PROVE InOrder(r)'
      BY <1>u, <2>1, <3>1, <3>3
    <3> QED BY <1>e, <1>s, <2>1, <3>1, <3>2, <3>3
  <2>8. CASE readyState[s] = "open"
    <3>1. events' = Push(e)
      BY <1>7, <2>1, <2>8 DEF OnMessage
    <3>2. 1 \in 1..n /\ \A i \in 1..Len(events) : events[i] < e
      BY <1>e, <2>1, <2>3, <2>8 DEF InOrder, InUse
    <3>3. /\ events' \in Seq(1..MaxSent) /\ Len(events') <= MaxShown
          /\ \A i \in 1..Len(events') : events'[i] <= e
          /\ ShownInOrder'
      <4>1. events \in Seq(1..MaxSent) /\ ShownInOrder /\ Len(events) <= MaxShown
        BY <1>0 DEF OrderInv, TypeOK
      <4>2. /\ Push(e) \in Seq(1..MaxSent) /\ Len(Push(e)) \in 1..MaxShown
            /\ \A i \in 1..Len(Push(e)) : Push(e)[i] <= e
            /\ \A i, j \in 1..Len(Push(e)) : i < j => Push(e)[i] < Push(e)[j]
        BY <2>2, <3>2, <4>1, PushFacts
      <4>3. ShownInOrder'
        BY <3>1, <4>2 DEF ShownInOrder
      <4>4. /\ events' \in Seq(1..MaxSent) /\ Len(events') <= MaxShown
            /\ \A i \in 1..Len(events') : events'[i] <= e
        BY <3>1, <4>2, BoundsAssumption
      <4> QED BY <4>3, <4>4
    <3>4. \A i \in 1..Len(events') : events'[i] \in Int
      <4> SUFFICES ASSUME NEW i \in 1..Len(events') PROVE events'[i] \in Int
        OBVIOUS
      <4>1. events'[i] \in 1..MaxSent
        BY <3>3, ElementOfSeq
      <4> QED BY <4>1
    <3>5. e <= sent /\ (handler[s] = "serving" => e < next[s]) /\ e \in Int
      BY <1>e, <2>3, <3>2 DEF InOrder
    <3>6. \A r \in Sockets : readyState[r] \in InUse => r = s
      BY <1>0, <2>8 DEF PageInv, InUse
    <3>7. \A i \in 1..Len(events') :
            /\ events'[i] <= sent
            /\ handler[s] = "serving" => events'[i] < next[s]
            /\ \A j \in 1..n - 1 : events'[i] < t[j]
      BY <1>e, <2>4, <3>3, <3>4, <3>5
    <3>8. InOrder(s)'
      BY <2>1, <2>2, <2>3, <2>5, <2>6, <2>8, <3>7 DEF InOrder
    <3>9. ASSUME NEW r \in Sockets, r # s PROVE InOrder(r)'
      <4>1. readyState[r] \notin InUse /\ InOrder(r)
        BY <1>0, <3>6, <3>9 DEF OrderInv
      <4> QED BY <2>1, <3>9, <4>1 DEF InOrder
    <3> QED BY <2>1, <3>3, <3>7, <3>8, <3>9 DEF OrderInv
  <2> QED BY <2>6, <2>7, <2>8
<1>8. ASSUME NEW s \in Sockets, OnOpen(s) \/ OnClose(s) PROVE OrderInv'
  <2>1. UNCHANGED <<sent, handler, since, next, events>>
    BY <1>8 DEF OnOpen, OnClose, serverVars
  <2>2. InOrder(s)'
    BY <1>0, <1>8 DEF OnOpen, OnClose, serverVars, OrderInv, InOrder, InUse, TypeOK
  <2>3. ASSUME NEW r \in Sockets, r # s PROVE InOrder(r)'
    BY <1>0, <1>8, <1>u, <2>1, <2>3 DEF OnOpen, OnClose, TypeOK
  <2> QED BY <1>e, <1>s, <2>1, <2>2, <2>3
<1>9. ASSUME NEW s \in Sockets, Retry(s) PROVE OrderInv'
  <2>1. Connect(NoSocket, readyState)
    BY <1>0, <1>9 DEF Retry, PageInv
  <2> QED BY <1>9, <1>c, <2>1, ConnectFacts DEF Retry, serverVars
<1>10. CASE ServerUp \/ Stabilize \/ UNCHANGED vars
  <2>1. UNCHANGED <<sent, handler, since, next, wire, readyState, events>>
    BY <1>10 DEF ServerUp, Stabilize, vars, serverVars
  <2> QED BY <1>e, <1>s, <1>u, <2>1
<1> QED BY <1>2, <1>3, <1>4, <1>5, <1>6, <1>7, <1>8, <1>9, <1>10 DEF Next, BrowserOf

(* No silent loss: every step of production.                               *)
LEMMA StepLossInv == IInv /\ ~StrictMode /\ [Next]_vars => LossInv'
<1> SUFFICES ASSUME IInv, ~StrictMode, [Next]_vars,
                    NEW r \in Sockets, (readyState[r] \in InUse /\ handler[r] = "serving")',
                    NEW x \in (since[r] + 1..next[r] - 1)'
             PROVE  Accounted(r, x)'
  BY DEF LossInv
<1>0. TypeOK /\ PageInv /\ OrderInv /\ LossInv
  BY DEF IInv
<1>1. CASE UNCHANGED <<since[r], next[r], missed[r], wire[r], events>>
           /\ readyState[r] \in InUse /\ handler[r] = "serving"
  BY <1>0, <1>1 DEF LossInv, Accounted
<1>2. ASSUME NEW s \in Sockets, ServerOf(s) \/ Forget(s), s # r \/ HandlerEnds(s)
      PROVE  Accounted(r, x)'
  BY <1>0, <1>1, <1>2
     DEF ServerOf, Upgrade, Subscribe, Forward, Lag, HandlerEnds, Forget, TypeOK
<1>3. CASE Upgrade(r) \/ Forget(r)
  BY <1>0, <1>3 DEF Upgrade, Forget, TypeOK
<1>4. CASE Subscribe(r)
  <2>1. since'[r] = sent /\ next'[r] = sent + 1 /\ sent \in Nat
    BY <1>0, <1>4, Elements DEF Subscribe, FirstEvent, TypeOK
  <2> QED BY <2>1
<1>5. CASE Forward(r)
  <2>1. /\ wire'[r] = Append(wire[r], next[r]) /\ next'[r] = next[r] + 1
        /\ since'[r] = since[r] /\ missed'[r] = missed[r] /\ events' = events
        /\ readyState[r] \in InUse /\ handler[r] = "serving"
    BY <1>0, <1>5 DEF Forward, TypeOK
  <2>2. wire[r] \in Seq(1..MaxSent) /\ next[r] \in Nat /\ since[r] \in Nat
    BY <1>0, Elements DEF TypeOK
  <2>3. next[r] \in ToSet(wire'[r]) /\ ToSet(wire[r]) \subseteq ToSet(wire'[r])
    <3> DEFINE n == Len(wire[r])
    <3>1. /\ n \in Nat /\ DOMAIN wire[r] = 1..n /\ DOMAIN wire'[r] = 1..n + 1
          /\ wire'[r][n + 1] = next[r]
          /\ \A j \in 1..n : wire'[r][j] = wire[r][j]
      BY <2>1, <2>2
    <3>2. n + 1 \in 1..n + 1 /\ 1..n \subseteq 1..n + 1
      BY <3>1
    <3> QED BY <3>1, <3>2 DEF ToSet
  <2>4. CASE x = next[r]
    BY <2>3, <2>4 DEF Accounted
  <2>5. CASE x # next[r]
    <3>1. x \in since[r] + 1..next[r] - 1
      BY <2>1, <2>2, <2>5
    <3>2. Accounted(r, x)
      BY <1>0, <2>1, <3>1 DEF LossInv
    <3> QED BY <2>1, <2>3, <3>2 DEF Accounted
  <2> QED BY <2>4, <2>5
<1>6. CASE Lag(r)
  <2>1. /\ missed'[r] = missed[r] \union (next[r]..Oldest - 1) /\ next'[r] = Oldest
        /\ since'[r] = since[r] /\ wire'[r] = wire[r] /\ events' = events
        /\ readyState[r] \in InUse /\ handler[r] = "serving"
    BY <1>0, <1>6 DEF Lag, TypeOK
  <2>2. next[r] \in Nat /\ since[r] \in Nat /\ Oldest \in Nat
    BY <1>0, Elements, OldestBounds
  <2>3. CASE x \in next[r]..Oldest - 1
    BY <2>1, <2>3 DEF Accounted
  <2>4. CASE x \notin next[r]..Oldest - 1
    <3>1. x \in since[r] + 1..next[r] - 1
      BY <2>1, <2>2, <2>4
    <3>2. Accounted(r, x)
      BY <1>0, <2>1, <3>1 DEF LossInv
    <3> QED BY <2>1, <3>2 DEF Accounted
  <2> QED BY <2>3, <2>4
<1>7. ASSUME NEW s \in Sockets, OnMessage(s) PROVE Accounted(r, x)'
  <2>1. /\ UNCHANGED <<since, next, missed, handler, readyState>>
        /\ wire' = [wire EXCEPT ![s] = Tail(wire[s])] /\ wire[s] # <<>>
        /\ wire[s] \in Seq(1..MaxSent)
    BY <1>0, <1>7 DEF OnMessage, serverVars, TypeOK
  <2>2. r = ws /\ Accounted(r, x)
    BY <1>0, <2>1 DEF PageInv, LossInv
  <2>3. CASE r # s
    <3>1. UNCHANGED events /\ wire'[r] = wire[r]
      BY <1>0, <1>7, <2>1, <2>2, <2>3 DEF OnMessage, PageInv, InUse, TypeOK
    <3> QED BY <2>1, <2>2, <3>1 DEF Accounted
  <2>4. CASE r = s
    <3> DEFINE w == wire[r]
               e == Head(wire[r])
    <3>1. readyState[r] = "open" /\ events' = Push(e) /\ wire'[r] = Tail(w) /\ missed'[r] = missed[r]
      BY <1>0, <1>7, <2>1, <2>4 DEF OnMessage, InUse, TypeOK
    <3>2. /\ e = w[1] /\ 1 \in 1..Len(w) /\ w \in Seq(1..MaxSent) /\ w # <<>>
      BY <2>1, <2>4
    <3>3. e \in 1..MaxSent
      BY <3>2, ElementOfSeq
    <3>4. \A i \in 1..Len(events) : events[i] < e
      BY <1>0, <3>1, <3>2 DEF OrderInv, InOrder, InUse
    <3>5. events \in Seq(1..MaxSent) /\ ShownInOrder /\ Len(events) <= MaxShown
      BY <1>0 DEF OrderInv, TypeOK
    <3>6. /\ Push(e) \in Seq(1..MaxSent)
          /\ Len(Push(e)) \in 1..MaxShown /\ Push(e)[Len(Push(e))] = e
          /\ \A i \in 1..Len(events) :
               \/ \E j \in 1..Len(Push(e)) : Push(e)[j] = events[i]
               \/ Len(Push(e)) = MaxShown /\ events[i] < Push(e)[1]
          /\ Len(events) = MaxShown =>
               Len(Push(e)) = MaxShown /\ events[1] < Push(e)[1]
      BY <3>3, <3>4, <3>5, PushFacts
    <3>7. CASE x \in missed[r]
      BY <3>1, <3>7 DEF Accounted
    <3>8. CASE x \in ToSet(w)
      <4>1. PICK j \in 1..Len(w) : x = w[j]
        BY <3>2, <3>8 DEF ToSet
      <4>2. CASE j = 1
        <5>1. x \in ToSet(Push(e))
          BY <3>2, <3>6, <4>1, <4>2 DEF ToSet
        <5> QED BY <3>1, <5>1 DEF Accounted
      <4>3. CASE j # 1
        <5>1. /\ Tail(w) \in Seq(1..MaxSent) /\ Len(Tail(w)) = Len(w) - 1
              /\ \A i \in 1..Len(Tail(w)) : Tail(w)[i] = w[i + 1]
          BY <3>2, HeadTailProperties
        <5>2. j - 1 \in 1..Len(Tail(w)) /\ (j - 1) + 1 = j
          BY <3>2, <4>1, <4>3, <5>1
        <5>3. x = Tail(w)[j - 1]
          BY <4>1, <5>1, <5>2
        <5>4. x \in ToSet(Tail(w))
          <6>1. DOMAIN Tail(w) = 1..Len(Tail(w))
            BY <5>1
          <6> QED BY <5>2, <5>3, <6>1 DEF ToSet
        <5> QED BY <3>1, <5>4 DEF Accounted
      <4> QED BY <4>2, <4>3
    <3>9. CASE x \in ToSet(events)
      <4>1. PICK i \in 1..Len(events) : x = events[i]
        BY <3>5, <3>9 DEF ToSet
      <4>2. CASE \E j \in 1..Len(Push(e)) : Push(e)[j] = x
        <5>1. x \in ToSet(Push(e))
          BY <3>6, <4>2 DEF ToSet
        <5> QED BY <3>1, <5>1 DEF Accounted
      <4>3. CASE Len(Push(e)) = MaxShown /\ x < Push(e)[1]
        BY <3>1, <4>3 DEF Accounted
      <4> QED BY <3>6, <4>1, <4>2, <4>3
    <3>10. CASE Len(events) = MaxShown /\ x < events[1]
      <4>1. Len(Push(e)) = MaxShown /\ events[1] < Push(e)[1]
        BY <3>6, <3>10
      <4>2. 1 \in 1..Len(events) /\ 1 \in 1..Len(Push(e))
        BY <3>6, <3>10, BoundsAssumption
      <4>3. events[1] \in 1..MaxSent /\ Push(e)[1] \in 1..MaxSent
        BY <3>5, <3>6, <4>2, ElementOfSeq
      <4>4. x \in Int
        BY <1>0, <2>1, <2>4, Elements
      <4>5. x < Push(e)[1]
        BY <3>10, <4>1, <4>3, <4>4
      <4> QED BY <3>1, <4>1, <4>5 DEF Accounted
    <3> QED BY <2>2, <3>7, <3>8, <3>9, <3>10 DEF Accounted
  <2> QED BY <2>3, <2>4
<1>8. ASSUME NEW s \in Sockets, OnOpen(s) \/ OnClose(s) \/ Retry(s) PROVE Accounted(r, x)'
  <2>1. /\ UNCHANGED <<since, next, missed, handler, events>>
    BY <1>8 DEF OnOpen, OnClose, Retry, serverVars
  <2>2. CASE OnOpen(s)
    <3>1. readyState[r] \in InUse /\ wire' = wire
      BY <1>0, <2>2 DEF OnOpen, InUse, TypeOK
    <3> QED BY <1>1, <2>1, <3>1
  <2>3. CASE OnClose(s)
    <3>1. r # s /\ readyState[r] \in InUse /\ wire'[r] = wire[r]
      BY <1>0, <2>3 DEF OnClose, InUse, TypeOK
    <3> QED BY <1>1, <2>1, <3>1
  <2>4. CASE Retry(s)
    <3>1. Connect(NoSocket, readyState) /\ wire' = wire
      BY <1>0, <2>4 DEF Retry, PageInv
    <3>2. readyState[r] \in InUse
      BY <1>0, <2>1, <3>1, ConnectFacts DEF TypeOK
    <3> QED BY <1>1, <2>1, <3>1, <3>2
  <2> QED BY <1>8, <2>2, <2>3, <2>4
<1>9. CASE Mount
  <2>1. Connect(NoSocket, readyState)
    BY <1>9 DEF Mount, MountStates
  <2>2. UNCHANGED <<since, next, missed, handler, wire, events>>
    BY <1>9 DEF Mount, serverVars
  <2>3. readyState[r] \in InUse
    BY <1>0, <2>1, <2>2, ConnectFacts DEF TypeOK
  <2> QED BY <1>1, <2>2, <2>3
<1>10. CASE Unmount
  BY <1>0, <1>1, <1>10 DEF Unmount, serverVars, InUse, TypeOK
<1>11. CASE Emit \/ ServerUp \/ Stabilize \/ UNCHANGED vars
  BY <1>1, <1>11 DEF Emit, ServerUp, Stabilize, vars, serverVars
<1>12. CASE ServerDown
  BY <1>0, <1>12 DEF ServerDown, TypeOK
<1> QED BY <1>2, <1>3, <1>4, <1>5, <1>6, <1>7, <1>8, <1>9, <1>10, <1>11, <1>12
        DEF Next, ServerOf, BrowserOf

-----------------------------------------------------------------------------
(* In production, every reachable state satisfies the invariant.           *)
THEOREM Invariant == ~StrictMode => (Spec => []IInv)
<1>1. IInv /\ ~StrictMode /\ [Next]_vars => IInv'
  BY StepTypeOK, StepPageInv, StepOrderInv, StepLossInv DEF IInv
<1> SUFFICES ASSUME ~StrictMode PROVE Spec => []IInv
  OBVIOUS
<1>2. IInv /\ [Next]_vars => IInv'
  BY <1>1
<1> QED BY <1>2, InitIInv, PTL DEF Spec

(* The event store shows events in the order they were sent, none twice.   *)
THEOREM StoreIsOrdered == ~StrictMode => (Spec => []ShownInOrder)
<1> SUFFICES ASSUME ~StrictMode PROVE Spec => []ShownInOrder
  OBVIOUS
<1>1. IInv => ShownInOrder
  BY DEF IInv, OrderInv
<1>2. Spec => []IInv
  BY Invariant
<1> QED BY <1>1, <1>2, PTL

(* An open connection loses no event without reporting it.                 *)
THEOREM LossIsReported == ~StrictMode => (Spec => []NothingLostSilently)
<1> SUFFICES ASSUME ~StrictMode PROVE Spec => []NothingLostSilently
  OBVIOUS
<1>1. IInv => NothingLostSilently
  BY DEF IInv, LossInv, Accounted, NothingLostSilently, InUse
<1>2. Spec => []IInv
  BY Invariant
<1> QED BY <1>1, <1>2, PTL

(* The indicator says Connected exactly while a socket is open.            *)
THEOREM IndicatorIsTrue == ~StrictMode => (Spec => []IndicatorTells)
<1> SUFFICES ASSUME ~StrictMode PROVE Spec => []IndicatorTells
  OBVIOUS
<1>1. IInv => IndicatorTells
  BY DEF IInv, PageInv
<1>2. Spec => []IInv
  BY Invariant
<1> QED BY <1>1, <1>2, PTL

(* A page whose effect was cleaned up stays disconnected.                  *)
THEOREM UnmountedStaysDisconnected == ~StrictMode => (Spec => []DisconnectIsFinal)
<1> SUFFICES ASSUME ~StrictMode PROVE Spec => []DisconnectIsFinal
  OBVIOUS
<1>1. IInv => DisconnectIsFinal
  BY NoSocketAssumption DEF IInv, PageInv, DisconnectIsFinal
<1>2. Spec => []IInv
  BY Invariant
<1> QED BY <1>1, <1>2, PTL

-----------------------------------------------------------------------------
(* The safety core of Reconnects. A mounted page is never without both a   *)
(* socket and a reconnect that will make one: whatever closes, and in      *)
(* whatever order, the close leaves a timer and the timer a socket.        *)
NeverStuck == page = "mounted" => ws # NoSocket \/ timers # {}

(* Every step of production keeps a way to the server.                     *)
LEMMA StepNeverStuck == IInv /\ ~StrictMode /\ NeverStuck /\ [Next]_vars => NeverStuck'
<1> SUFFICES ASSUME IInv, ~StrictMode, NeverStuck, [Next]_vars PROVE NeverStuck'
  OBVIOUS
<1>0. TypeOK /\ PageInv
  BY DEF IInv
<1>1. CASE UNCHANGED <<page, ws, timers>>
  BY <1>1 DEF NeverStuck
<1>2. CASE Mount
  <2>1. Connect(NoSocket, readyState)
    BY <1>2 DEF Mount, MountStates
  <2>2. ws' \in Sockets
    BY <2>1, ConnectFacts
  <2> QED BY <2>2, NoSocketAssumption DEF NeverStuck
<1>3. CASE Unmount
  BY <1>3 DEF Unmount, NeverStuck
<1>4. ASSUME NEW s \in Sockets, OnClose(s) PROVE NeverStuck'
  <2> SUFFICES ASSUME page' = "mounted" PROVE timers' # {}
    BY DEF NeverStuck
  <2>1. page = "mounted" /\ ~manualClose
    BY <1>0, <1>4 DEF OnClose, PageInv, TypeOK
  <2>2. timers' = timers \union {s}
    BY <1>4, <2>1 DEF OnClose, ScheduleReconnect
  <2> QED BY <2>2
<1>5. ASSUME NEW t \in Sockets, Retry(t) PROVE NeverStuck'
  <2>1. ws = NoSocket /\ Connect(ws, readyState)
    BY <1>0, <1>5 DEF Retry, PageInv
  <2>2. ws' \in Sockets
    BY <2>1, ConnectFacts
  <2> QED BY <2>2, NoSocketAssumption DEF NeverStuck
<1>6. ASSUME NEW s \in Sockets, ServerOf(s) \/ Forget(s) \/ OnOpen(s) \/ OnMessage(s)
      PROVE  NeverStuck'
  BY <1>1, <1>6 DEF ServerOf, Upgrade, Subscribe, Forward, Lag, HandlerEnds, Forget,
                    OnOpen, OnMessage, clientVars
<1>7. CASE Emit \/ ServerDown \/ ServerUp \/ Stabilize \/ UNCHANGED vars
  BY <1>1, <1>7 DEF Emit, ServerDown, ServerUp, Stabilize, vars, clientVars
<1> QED BY <1>2, <1>3, <1>4, <1>5, <1>6, <1>7 DEF Next, BrowserOf

(* A mounted page always has a socket or a pending reconnect.              *)
THEOREM MountedPageNeverStuck == ~StrictMode => (Spec => []NeverStuck)
<1> SUFFICES ASSUME ~StrictMode PROVE Spec => []NeverStuck
  OBVIOUS
<1>1. Init => NeverStuck
  BY DEF Init, NeverStuck
<1>2. IInv /\ NeverStuck /\ [Next]_vars => NeverStuck'
  BY StepNeverStuck
<1>3. Spec => []IInv
  BY Invariant
<1> QED BY <1>1, <1>2, <1>3, PTL DEF Spec

=============================================================================
