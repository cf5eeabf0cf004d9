---------------------------- MODULE MCMarketGateway ----------------------------
(* Instances of MarketGateway for TLC.                                     *)
EXTENDS MarketGateway, TLC

(* The seeded markets of bootstrap.rs (Chinese shares with a fallback,     *)
(* crypto without), an instrument with its own policy, and what may be     *)
(* missing or misspelt in reference data.                                  *)
Policy_MC(primary, fallback, tick_fallback) ==
  [kline_primary |-> primary, kline_fallback |-> fallback,
   tick_primary |-> primary, tick_fallback |-> tick_fallback]

CnPolicy == Policy_MC("eastmoney", {"twelvedata"}, {"twelvedata"})
CryptoPolicy == Policy_MC("twelvedata", {}, {})
OwnPolicy == Policy_MC("twelvedata", {"eastmoney"}, {})

Both == [p \in {"eastmoney", "twelvedata"} |->
           IF p = "eastmoney" THEN "0.002025" ELSE "002025.SZ"]

CnShare ==
  [known |-> TRUE, instrument_policy |-> {}, market_policy |-> {CnPolicy}, bindings |-> Both]

Worlds_MC ==
  {CnShare,
   [CnShare EXCEPT !.market_policy = {CryptoPolicy},
                   !.bindings = [p \in {"twelvedata"} |-> "BTC/USD"]],
   [CnShare EXCEPT !.instrument_policy = {OwnPolicy}],
   [CnShare EXCEPT !.bindings = [p \in {"eastmoney"} |-> "0.002025"]],
   [CnShare EXCEPT !.market_policy = {}],
   [CnShare EXCEPT !.known = FALSE],
   [CnShare EXCEPT !.market_policy = {Policy_MC("eastmoney", {"iex"}, {"iex"})},
                   !.bindings = [p \in {"eastmoney", "iex"} |-> p]]}

(* Responses.                                                              *)
Rows(times) ==
  [kind |-> "rows", rows |-> [i \in DOMAIN times |-> [good |-> TRUE, time |-> times[i]]]]

Stamp(is, time) == [is |-> is, time |-> time]

Tick(good_price, quote, timestamp, datetime) ==
  [kind |-> "tick", good_price |-> good_price, last_quote_at |-> quote,
   timestamp |-> timestamp, datetime |-> datetime]

Absent == Stamp("absent", 0)

None(kind) == [Tick(TRUE, Absent, Absent, Absent) EXCEPT !.kind = kind]

KlineReplies_MC ==
  {Rows(<<40, 41, 42>>), Rows(<<>>),
   [kind |-> "rows", rows |-> <<[good |-> FALSE, time |-> 0]>>],
   [kind |-> "refused"], [kind |-> "unreachable"]}

TickReplies_MC ==
  {Tick(TRUE, Stamp("good", 40), Stamp("good", 41), Absent),
   Tick(TRUE, Absent, Stamp("bad", 0), Stamp("good", 41)),
   Tick(TRUE, Absent, Absent, Stamp("good", 41)),
   Tick(FALSE, Stamp("good", 40), Absent, Absent),
   None("tick"), None("refused"), None("unreachable")}
=============================================================================
