----------------------------- MODULE MarketGateway -----------------------------
(***************************************************************************)
(* Where market data comes from (gateway.rs and provider.rs of pa-market,  *)
(* the policy and the bindings of pa-instrument): a call looks up which    *)
(* providers the policy in force names, asks the primary, perhaps the      *)
(* fallback, and tells the debug stream.  Any number of calls run at the   *)
(* same time, for one instrument.                                          *)
(***************************************************************************)
EXTENDS MarketProviders, FiniteSets

CONSTANTS Callers,      \* calls, each made once
          Worlds,       \* the reference data of the instrument
          KlineReplies, \* responses to a request for bars
          TickReplies,  \* responses to a request for the latest tick
          Limit,        \* how many bars are asked for
          WindowEnd     \* the close of the last bar of a window

Operation == {"klines", "window", "latest", "tick"}

ASSUME CallersAssumption == IsFiniteSet(Callers)

AtMostOne(S) == \A a, b \in S : a = b

(* The policy rows of a world; an absent row or field is the empty set.    *)
Policies(w) == w.instrument_policy \union w.market_policy

(* At most one policy of the instrument and one of its market, each with   *)
(* at most one fallback per kind of data (unique keys, nullable columns).  *)
ASSUME WorldsAssumption ==
  \A w \in Worlds :
    /\ AtMostOne(w.instrument_policy) /\ AtMostOne(w.market_policy)
    /\ \A p \in Policies(w) : AtMostOne(p.kline_fallback) /\ AtMostOne(p.tick_fallback)

(* The providers that reference data may name.                             *)
Names ==
  {"none"} \union
  UNION {{p.kline_primary, p.tick_primary} \union p.kline_fallback \union p.tick_fallback :
           p \in UNION {Policies(w) : w \in Worlds}}

VARIABLES world,   \* as found by every call
          op,      \* what each call asks for
          stage,
          asked,   \* the requests it sent, in order
          heard,   \* what became of them
          answer,  \* what its caller gets
          events   \* the events sent to the debug stream

vars == <<world, op, stage, asked, heard, answer, events>>

Stage == {"idle", "primary", "fallback", "ingested", "told", "done"}

Source(p) == [provider |-> p, symbol |-> world.bindings[p]]

(* What the debug stream hears.  An event does not say which call it is of.*)
KlineIngested(p) == [type |-> "kline_ingested", provider |-> p]

ProviderFallback(p, f) == [type |-> "provider_fallback", primary |-> p, fallback |-> f]

Event ==
  {KlineIngested(p) : p \in Names} \union {ProviderFallback(p, f) : p, f \in Names}

TypeOK ==
  /\ world \in Worlds
  /\ op \in [Callers -> Operation]
  /\ stage \in [Callers -> Stage]
  /\ DOMAIN asked = Callers /\ DOMAIN heard = Callers /\ DOMAIN answer = Callers
  /\ \A c \in Callers : answer[c].provider \in Names
  /\ events \in Seq(Event)

Init ==
  /\ world \in Worlds
  /\ op \in [Callers -> Operation]
  /\ stage = [c \in Callers |-> "idle"]
  /\ asked = [c \in Callers |-> <<>>]
  /\ heard = [c \in Callers |-> <<>>]
  /\ answer = [c \in Callers |-> [provider |-> "none", result |-> Invalid]]
  /\ events = <<>>

-----------------------------------------------------------------------------
(* The policy of the instrument stands before that of its market.          *)
HasPolicy ==
  world.known /\ (world.instrument_policy # {} \/ world.market_policy # {})

Policy ==
  CHOOSE p \in IF world.instrument_policy # {} THEN world.instrument_policy
               ELSE world.market_policy : TRUE

Primary(o) == IF o = "tick" THEN Policy.tick_primary ELSE Policy.kline_primary

(* A window has no fallback.                                               *)
Fallback(o) ==
  CASE o = "tick" -> Policy.tick_fallback
    [] o = "klines" -> Policy.kline_fallback
    [] OTHER -> {}

Named(o) == {Primary(o)} \union Fallback(o)

(* Every symbol is looked up before anyone is asked.                       *)
HasBindings(o) == Named(o) \subseteq DOMAIN world.bindings

(* Only Twelvedata can be asked for a window; one that has no ends and a   *)
(* limit is a request for the latest bars.                                 *)
CanAsk(p, o) == p \in Registered /\ (o = "window" => p = "twelvedata")

(* What provider p makes of a response.                                    *)
Translate(p, o, raw) ==
  CASE o = "tick" /\ p = "eastmoney" -> EastmoneyTick(raw)
    [] o = "tick" /\ p # "eastmoney" -> TwelvedataTick(raw)
    [] o # "tick" /\ p = "eastmoney" -> EastmoneyKlines(raw, Limit)
    [] OTHER -> TwelvedataKlines(raw, IF o = "window" THEN {WindowEnd} ELSE {})

Replies(o) == IF o = "tick" THEN TickReplies ELSE KlineReplies

-----------------------------------------------------------------------------
Goto(c, s) == stage' = [stage EXCEPT ![c] = s]

Answer(c, p, result) == answer' = [answer EXCEPT ![c] = [provider |-> p, result |-> result]]

(* The call ends with an error; the debug stream hears nothing of it.      *)
EndWith(c, p, result) == Goto(c, "done") /\ Answer(c, p, result) /\ UNCHANGED asked

(* A request is sent, or cannot be sent.                                   *)
Ask(c, p, s) ==
  IF CanAsk(p, op[c])
  THEN /\ asked' = [asked EXCEPT ![c] = Append(@, Source(p))]
       /\ Goto(c, s)
       /\ UNCHANGED answer
  ELSE EndWith(c, p, Invalid)

Call(c) ==
  /\ stage[c] = "idle"
  /\ IF HasPolicy /\ HasBindings(op[c]) THEN Ask(c, Primary(op[c]), "primary")
     ELSE EndWith(c, "none", Invalid)
  /\ UNCHANGED <<world, op, heard, events>>

(* Bars are told to the debug stream, a tick is not.                       *)
Succeed(c, p, result) ==
  /\ Goto(c, IF op[c] = "tick" THEN "done" ELSE "ingested")
  /\ Answer(c, p, result)
  /\ UNCHANGED asked

(* A primary that answers without bars did not deliver.                    *)
Suffices(o, result) == result.ok /\ (o = "klines" => result.value # <<>>)

PrimaryReplies(c, raw) ==
  LET p == Primary(op[c])
      result == Translate(p, op[c], raw)
  IN  /\ stage[c] = "primary"
      /\ heard' = [heard EXCEPT ![c] = Append(@, result)]
      /\ IF Suffices(op[c], result) \/ (Fallback(op[c]) = {} /\ result.ok)
         THEN Succeed(c, p, result)
         ELSE IF Fallback(op[c]) = {} \/ result.error = "validation"
         THEN EndWith(c, p, result)
         ELSE \E f \in Fallback(op[c]) : Ask(c, f, "fallback")
      /\ UNCHANGED <<world, op, events>>

FallbackReplies(c, raw) ==
  LET p == asked[c][2].provider
      result == Translate(p, op[c], raw)
  IN  /\ stage[c] = "fallback"
      /\ heard' = [heard EXCEPT ![c] = Append(@, result)]
      /\ IF result.ok THEN Succeed(c, p, result) ELSE EndWith(c, p, result)
      /\ UNCHANGED <<world, op, events>>

Emit(event) == events' = Append(events, event)

(* Mutant: the fallback is told only if the primary answered without bars. *)
IsFallback_EmptyOnly(c) ==
  answer[c].provider # Primary(op[c]) /\ heard[c][1].ok

IsFallback(c) == answer[c].provider # Primary(op[c])

(* Between the two events of a call other calls may send theirs.           *)
EmitIngested(c) ==
  /\ stage[c] = "ingested"
  /\ Emit(KlineIngested(answer[c].provider))
  /\ Goto(c, IF IsFallback(c) THEN "told" ELSE "done")
  /\ UNCHANGED <<world, op, asked, heard, answer>>

EmitFallback(c) ==
  /\ stage[c] = "told"
  /\ Emit(ProviderFallback(Primary(op[c]), answer[c].provider))
  /\ Goto(c, "done")
  /\ UNCHANGED <<world, op, asked, heard, answer>>

Next ==
  \E c \in Callers :
    \/ Call(c)
    \/ \E raw \in Replies(op[c]) : PrimaryReplies(c, raw)
    \/ \E raw \in Replies(op[c]) : FallbackReplies(c, raw)
    \/ EmitIngested(c)
    \/ EmitFallback(c)

Spec == Init /\ [][Next]_vars

-----------------------------------------------------------------------------
Answered(c) == stage[c] \in {"ingested", "told", "done"}

Configured(o) == HasPolicy /\ HasBindings(o) /\ \A p \in Named(o) : CanAsk(p, o)

(* Who answers is what the policy says (fetch_klines_with_fallback_source, *)
(* fetch_latest_tick_with_fallback_source): each provider is asked with    *)
(* the symbol the instrument has there, the fallback only after the        *)
(* primary was asked and did not deliver; the caller gets what the last    *)
(* one asked delivered, under its name; and a call is given up only if     *)
(* something is missing in the configuration or everyone the policy names  *)
(* was asked and none delivered.                                           *)
ServedByPolicy ==
  \A c \in Callers :
    LET n == Len(asked[c])
    IN  /\ n >= 1 => asked[c][1] = Source(Primary(op[c]))
        /\ n = 2 => /\ asked[c][2].provider \in Fallback(op[c])
                    /\ asked[c][2] = Source(asked[c][2].provider)
                    /\ ~Suffices(op[c], heard[c][1])
        /\ Answered(c) /\ answer[c].result.ok =>
             /\ n >= 1
             /\ answer[c] = [provider |-> asked[c][n].provider, result |-> heard[c][n]]
        /\ Answered(c) /\ ~answer[c].result.ok /\ Configured(op[c]) =>
             /\ \A p \in Named(op[c]) : \E i \in 1..n : asked[c][i].provider = p
             /\ \A i \in 1..n : ~Suffices(op[c], heard[c][i])

(* The calls that delivered bars and told so, by who was asked last, and   *)
(* those among them that are over, by the two providers that were asked.   *)
DeliversBars(c) ==
  stage[c] \in {"told", "done"} /\ op[c] # "tick" /\ answer[c].result.ok

ServedBy(p) == {c \in Callers : DeliversBars(c) /\ asked[c][Len(asked[c])].provider = p}

Asked(c, p, f) ==
  Len(asked[c]) = 2 /\ asked[c][1].provider = p /\ asked[c][2].provider = f

Switched(p, f) == {c \in Callers : stage[c] = "done" /\ DeliversBars(c) /\ Asked(c, p, f)}

(* How often the debug stream heard an event.                              *)
Times(event) == Cardinality({i \in DOMAIN events : events[i] = event})

(* What can be learned from the debug stream (MarketGateway::fetch_klines, *)
(* fetch_klines_window): its events do not say which call they are of and  *)
(* those of several calls mix, but they can be counted.  A provider is     *)
(* named once for each call to which it delivered bars, and one is said to *)
(* have stood in for another once for each call that asked the other       *)
(* first and got its bars from this one, however the other failed.  It     *)
(* says nothing of ticks and of calls that fail: EveryFallbackIsObservable *)
(* does.                                                                   *)
FallbackIsTold ==
  \A p, f \in Names :
    /\ Times(KlineIngested(f)) = Cardinality(ServedBy(f))
    /\ p # f => Times(ProviderFallback(p, f)) = Cardinality(Switched(p, f))

(* "All fallback events must be logged and observable" (section on         *)
(* providers of the server design of 2026-04-21): whenever the fallback    *)
(* was asked, the debug stream, the only place where the gateway reports   *)
(* anything, hears of it by the end of the call.  The code tells it        *)
(* neither of the fallbacks of ticks nor of those that fail as well.       *)
EveryFallbackIsObservable ==
  \A p, f \in Names :
    p # f =>
      Times(ProviderFallback(p, f)) >=
        Cardinality({c \in Callers : stage[c] = "done" /\ Asked(c, p, f)})
=============================================================================
