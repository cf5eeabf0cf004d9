----------------------------- MODULE DebugStream -----------------------------
(***************************************************************************)
(* The live event stream of the debug client: the broadcast channel of the *)
(* server (pa-app main.rs, pa-api ws.rs), one handler task per WebSocket,  *)
(* and the module web/src/ws/client.ts of the browser, which keeps one     *)
(* socket, reconnects when it closes, and feeds a bounded event store and  *)
(* a "Connected / Disconnected" indicator.                                 *)
(*                                                                         *)
(* Events are numbered in the order they are sent; what they say is left   *)
(* out, and so is the length of the delay before a retry.                  *)
(***************************************************************************)
EXTENDS Integers, Sequences, FiniteSets, SequencesExt

CONSTANTS Sockets,    \* WebSocket objects the page may use at the same time
          NoSocket,   \* the value null of `ws` and of `retryTimer`
          Capacity,   \* slots of the broadcast channel (512)
          MaxShown,   \* MAX_EVENTS, the length of the event store (200)
          MaxSent,    \* bound: events sent
          StrictMode  \* does React mount, unmount and mount again (development)?

ASSUME NoSocketAssumption == NoSocket \notin Sockets
ASSUME BoundsAssumption == Capacity \in Nat \ {0} /\ MaxShown \in Nat \ {0} /\ MaxSent \in Nat
ASSUME StrictModeAssumption == StrictMode \in BOOLEAN

VARIABLES
  up,          \* does the server run?
  stable,      \* have failures of server and network come to an end?
  sent,        \* number of the last event sent
  handler,     \* per socket: the server's task, see Handler
  since,       \* per socket: the last event before its handler subscribed
  next,        \* per socket: the event its handler receives next
  missed,      \* per socket: the events its handler reported as lagged
  wire,        \* per socket: events sent to the browser, in order
  readyState,  \* per socket: WebSocket.readyState
  page,        \* "loading", "mounted" or "unmounted"
  ws,          \* the module's current socket
  timers,      \* sockets whose close scheduled a reconnect that is pending
  retryTimer,  \* the timer the module remembers (named by that socket)
  manualClose, \* was the last thing asked for a disconnect?
  connected,   \* the indicator
  events       \* the event store

serverVars == <<up, stable, sent, handler, since, next, missed>>
clientVars == <<ws, timers, retryTimer, manualClose, connected>>
vars == <<serverVars, wire, readyState, page, clientVars, events>>

(* "none": no handshake yet; "upgraded": the answer is sent, the task is   *)
(* not running yet; "serving": in its loop; "gone": the task has ended.    *)
Handler == {"none", "upgraded", "serving", "gone"}
ReadyState == {"connecting", "open", "closing", "closed"}

TypeOK ==
  /\ up \in BOOLEAN /\ stable \in BOOLEAN
  /\ page \in {"loading", "mounted", "unmounted"}
  /\ sent \in 0..MaxSent
  /\ handler \in [Sockets -> Handler]
  /\ since \in [Sockets -> 0..MaxSent]
  /\ next \in [Sockets -> 1..MaxSent + 1]
  /\ missed \in [Sockets -> SUBSET (1..MaxSent)]
  /\ wire \in [Sockets -> Seq(1..MaxSent)]
  /\ readyState \in [Sockets -> ReadyState]
  /\ ws \in Sockets \union {NoSocket}
  /\ timers \in SUBSET Sockets
  /\ retryTimer \in Sockets \union {NoSocket}
  /\ manualClose \in BOOLEAN /\ connected \in BOOLEAN
  /\ events \in Seq(1..MaxSent)

Init ==
  /\ up = TRUE /\ stable = FALSE /\ sent = 0
  /\ handler = [s \in Sockets |-> "none"]
  /\ since = [s \in Sockets |-> 0]
  /\ next = [s \in Sockets |-> 1]
  /\ missed = [s \in Sockets |-> {}]
  /\ wire = [s \in Sockets |-> <<>>]
  /\ readyState = [s \in Sockets |-> "closed"]
  /\ page = "loading"
  /\ ws = NoSocket /\ timers = {} /\ retryTimer = NoSocket
  /\ manualClose = FALSE /\ connected = FALSE
  /\ events = <<>>

-----------------------------------------------------------------------------
(* Server.                                                                 *)

(* MarketGateway::emit; sending to a channel without receivers fails and   *)
(* is ignored.                                                             *)
Emit ==
  /\ up /\ sent < MaxSent
  /\ sent' = sent + 1
  /\ UNCHANGED <<up, stable, handler, since, next, missed, wire, readyState, page, clientVars, events>>

(* ws_handler answers 101 and hands the socket to a task of its own.       *)
Upgrade(s) ==
  /\ up /\ handler[s] = "none" /\ readyState[s] \in {"connecting", "closing"}
  /\ handler' = [handler EXCEPT ![s] = "upgraded"]
  /\ UNCHANGED <<up, stable, sent, since, next, missed, wire, readyState, page, clientVars, events>>

Oldest == IF sent > Capacity THEN sent - Capacity + 1 ELSE 1

(* The first event of a receiver that subscribes now: none of the past.    *)
FirstEvent_Replay == Oldest
FirstEvent == sent + 1

(* handle_socket starts: debug_tx.subscribe().                             *)
Subscribe(s) ==
  /\ handler[s] = "upgraded"
  /\ handler' = [handler EXCEPT ![s] = "serving"]
  /\ since' = [since EXCEPT ![s] = sent]
  /\ next' = [next EXCEPT ![s] = FirstEvent]
  /\ UNCHANGED <<up, stable, sent, missed, wire, readyState, page, clientVars, events>>

(* rx.recv() = Ok(event): it is sent if the browser still listens.         *)
Forward(s) ==
  /\ handler[s] = "serving" /\ readyState[s] # "closed"
  /\ Oldest <= next[s] /\ next[s] <= sent
  /\ wire' = [wire EXCEPT ![s] = Append(@, next[s])]
  /\ next' = [next EXCEPT ![s] = @ + 1]
  /\ UNCHANGED <<up, stable, sent, handler, since, missed, readyState, page, clientVars, events>>

(* rx.recv() = Lagged(n): n events are gone, the receiver goes on with the *)
(* oldest of the channel, and the handler logs n.                          *)
Lag(s) ==
  /\ handler[s] = "serving" /\ next[s] < Oldest
  /\ missed' = [missed EXCEPT ![s] = @ \union (next[s]..Oldest - 1)]
  /\ next' = [next EXCEPT ![s] = Oldest]
  /\ UNCHANGED <<up, stable, sent, handler, since, wire, readyState, page, clientVars, events>>

(* The loop breaks: close message, end of the connection, or failed send.  *)
HandlerEnds(s) ==
  /\ handler[s] = "serving"
  /\ readyState[s] \in {"closing", "closed"} \/ ~stable
  /\ handler' = [handler EXCEPT ![s] = "gone"]
  /\ UNCHANGED <<up, stable, sent, since, next, missed, wire, readyState, page, clientVars, events>>

ServerDown ==
  /\ up /\ ~stable
  /\ up' = FALSE
  /\ handler' = [s \in Sockets |-> IF handler[s] = "none" THEN "none" ELSE "gone"]
  /\ UNCHANGED <<stable, sent, since, next, missed, wire, readyState, page, clientVars, events>>

ServerUp ==
  /\ ~up
  /\ up' = TRUE
  /\ UNCHANGED <<stable, sent, handler, since, next, missed, wire, readyState, page, clientVars, events>>

(* From now on the server stays up and the network delivers.               *)
Stabilize ==
  /\ ~stable /\ up
  /\ stable' = TRUE
  /\ UNCHANGED <<up, sent, handler, since, next, missed, wire, readyState, page, clientVars, events>>

-----------------------------------------------------------------------------
(* Browser.                                                                *)

InUse == {"connecting", "open"}
IsInUse(s, rs) == s # NoSocket /\ rs[s] \in InUse

(* connectWs, with `current` as ws and rs as the states of the sockets:    *)
(* nothing if the current socket is in use, otherwise a new socket. A slot *)
(* both sides are done with and no timer names can be used for it.         *)
Connect(current, rs) ==
  \/ /\ IsInUse(current, rs)
     /\ ws' = current /\ readyState' = rs
     /\ UNCHANGED manualClose
  \/ /\ ~IsInUse(current, rs)
     /\ \E s \in Sockets \ timers' :
          /\ rs[s] = "closed" /\ handler[s] = "none"
          /\ ws' = s
          /\ readyState' = [rs EXCEPT ![s] = "connecting"]
     /\ manualClose' = FALSE

(* The states of the sockets when the last effect of the mount runs. In    *)
(* strict mode React has run the effect and its cleanup once before, in    *)
(* the same task: disconnectWs leaves a first socket closing.              *)
MountStates ==
  IF StrictMode THEN {[readyState EXCEPT ![s] = "closing"] : s \in Sockets} ELSE {readyState}

(* useWebSocket runs its effect.                                           *)
Mount ==
  /\ page = "loading"
  /\ page' = "mounted"
  /\ UNCHANGED <<timers, retryTimer, connected>>
  /\ \E rs \in MountStates : Connect(NoSocket, rs)
  /\ UNCHANGED <<serverVars, wire, events>>

(* The cleanup of the effect, disconnectWs. The root has no error boundary: *)
(* an exception while a page renders unmounts everything.                  *)
Unmount ==
  /\ page = "mounted"
  /\ page' = "unmounted"
  /\ manualClose' = TRUE
  /\ timers' = timers \ {retryTimer}
  /\ retryTimer' = NoSocket
  /\ readyState' = [s \in Sockets |-> IF s = ws /\ readyState[s] \in InUse
                                     THEN "closing" ELSE readyState[s]]
  /\ ws' = NoSocket
  /\ connected' = FALSE
  /\ UNCHANGED <<serverVars, wire, events>>

(* ws.onopen: the answer has arrived.                                      *)
OnOpen(s) ==
  /\ readyState[s] = "connecting" /\ handler[s] # "none"
  /\ readyState' = [readyState EXCEPT ![s] = "open"]
  /\ connected' = TRUE
  /\ UNCHANGED <<serverVars, wire, page, ws, timers, retryTimer, manualClose, events>>

(* push: the store keeps the last MAX_EVENTS events.                       *)
Push_StopWhenFull(e) == IF Len(events) < MaxShown THEN Append(events, e) ELSE events
Push(e) ==
  LET all == Append(events, e)
  IN  IF Len(all) > MaxShown THEN Tail(all) ELSE all

(* A message arrives: ws.onmessage, unless the socket is closing.          *)
OnMessage(s) ==
  /\ readyState[s] \in {"open", "closing"} /\ wire[s] # <<>>
  /\ wire' = [wire EXCEPT ![s] = Tail(@)]
  /\ events' = IF readyState[s] = "open" THEN Push(Head(wire[s])) ELSE events
  /\ UNCHANGED <<serverVars, readyState, page, clientVars>>

ScheduleReconnect_AfterManual(s) == timers' = timers \union {s} /\ retryTimer' = s
ScheduleReconnect_Once(s) ==
  IF manualClose \/ retryTimer # NoSocket
  THEN UNCHANGED <<timers, retryTimer>>
  ELSE timers' = timers \union {s} /\ retryTimer' = s

(* scheduleReconnect, called by the close of socket s.                     *)
ScheduleReconnect(s) ==
  IF manualClose
  THEN UNCHANGED <<timers, retryTimer>>
  ELSE timers' = timers \union {s} /\ retryTimer' = s

(* A connection ends for the browser when it asked for that, when the      *)
(* server's side has ended, and when the network or the server fails.      *)
Ends(s) ==
  \/ readyState[s] = "closing"
  \/ readyState[s] \in InUse /\ (handler[s] = "gone" \/ ~up \/ ~stable)

OnClose_KeepsIndicator(s) ==
  /\ Ends(s)
  /\ readyState' = [readyState EXCEPT ![s] = "closed"]
  /\ wire' = [wire EXCEPT ![s] = <<>>]
  /\ ws' = NoSocket
  /\ ScheduleReconnect(s)
  /\ UNCHANGED <<serverVars, page, manualClose, connected, events>>

(* ws.onclose, of whichever socket it is.                                  *)
OnClose(s) ==
  /\ Ends(s)
  /\ readyState' = [readyState EXCEPT ![s] = "closed"]
  /\ wire' = [wire EXCEPT ![s] = <<>>]
  /\ connected' = FALSE
  /\ ws' = NoSocket
  /\ ScheduleReconnect(s)
  /\ UNCHANGED <<serverVars, page, manualClose, events>>

(* A timer fires: connectWs.                                               *)
Retry(t) ==
  /\ t \in timers
  /\ timers' = timers \ {t}
  /\ Connect(ws, readyState)
  /\ UNCHANGED <<serverVars, wire, page, retryTimer, connected, events>>

(* Bookkeeping of the model: the slot of a socket that has ended on both   *)
(* sides, or that the server never saw, forgets its past.                  *)
Forget(s) ==
  /\ readyState[s] = "closed" /\ handler[s] = "gone"
  /\ handler' = [handler EXCEPT ![s] = "none"]
  /\ since' = [since EXCEPT ![s] = 0]
  /\ next' = [next EXCEPT ![s] = 1]
  /\ missed' = [missed EXCEPT ![s] = {}]
  /\ UNCHANGED <<up, stable, sent, wire, readyState, page, clientVars, events>>

-----------------------------------------------------------------------------
ServerOf(s) == Upgrade(s) \/ Subscribe(s) \/ Forward(s) \/ Lag(s) \/ HandlerEnds(s)
BrowserOf(s) == OnOpen(s) \/ OnMessage(s) \/ OnClose(s) \/ Retry(s)

Next ==
  \/ Emit \/ ServerDown \/ ServerUp \/ Stabilize \/ Mount \/ Unmount
  \/ \E s \in Sockets : ServerOf(s) \/ BrowserOf(s) \/ Forget(s)

Spec == Init /\ [][Next]_vars

(* The runtime polls every task, the browser delivers every event of its   *)
(* queue, a connection attempt ends one way or the other, and the page is  *)
(* opened.                                                                 *)
Fairness ==
  /\ WF_vars(Mount)
  /\ \A s \in Sockets :
       /\ WF_vars(Upgrade(s)) /\ WF_vars(Subscribe(s)) /\ WF_vars(Forward(s)) /\ WF_vars(Lag(s))
       /\ WF_vars(readyState[s] \in {"closing", "closed"} /\ HandlerEnds(s))
       /\ WF_vars(OnOpen(s)) /\ WF_vars(OnMessage(s)) /\ WF_vars(OnClose(s)) /\ WF_vars(Retry(s))
       /\ WF_vars(Forget(s))

FairSpec == Spec /\ Fairness

-----------------------------------------------------------------------------
(* The store shows events in the order they were sent and none twice,      *)
(* across lost connections, restarts and reconnects.                       *)
ShownInOrder == \A i, j \in 1..Len(events) : i < j => events[i] < events[j]

(* What was sent since the handler of an open socket subscribed was shown, *)
(* is on its way, or was reported by the handler as lagged: the stream     *)
(* loses nothing silently while the connection lasts.                      *)
NothingLostSilently ==
  \A s \in Sockets : readyState[s] = "open" /\ handler[s] = "serving" =>
    \A e \in since[s] + 1..next[s] - 1 :
      \/ e \in missed[s] \union ToSet(wire[s]) \union ToSet(events)
      \/ Len(events) = MaxShown /\ e < events[1]

(* The indicator says Connected exactly while a socket is open.            *)
IndicatorTells == connected <=> \E s \in Sockets : readyState[s] = "open"

(* Once the effect is cleaned up no socket is in use and no reconnect is   *)
(* pending, and so the store does not change any more.                     *)
DisconnectIsFinal ==
  page = "unmounted" => timers = {} /\ \A s \in Sockets : readyState[s] \notin InUse

(* Once server and network work, a page that is not unmounted ends up      *)
(* connected for good: no order of closes, timers and failed attempts      *)
(* leaves it without a socket and without a pending reconnect.             *)
Reconnects == [](stable => <>[](connected \/ page = "unmounted"))

=============================================================================
