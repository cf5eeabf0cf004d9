------------------------------ MODULE MarketBars ------------------------------
(***************************************************************************)
(* The bars of one instrument (service.rs of pa-market): backfills that    *)
(* copy M15 bars from a provider into the canonical table while time goes  *)
(* on, the larger bars aggregated from the table, and the open bar derived *)
(* from the table and the latest tick.                                     *)
(*                                                                         *)
(* A bar is named by its open time; of its prices only this matters: were  *)
(* they read from the provider before the bar had closed.                  *)
(***************************************************************************)
EXTENDS MarketSession, FiniteSets

CONSTANTS Markets,   \* kinds of market, one of which the instrument trades on
          Offered,   \* per kind, the M15 bars the provider knows, in session or not
          Clock,     \* per kind, the moments at which something may happen
          Limits,    \* numbers of bars a backfill or an aggregation asks for
          Targets,   \* timeframes that are aggregated and derived
          Handlers   \* API requests being handled at the same time

ASSUME MarketsAssumption == Markets \subseteq Kind
ASSUME OfferedAssumption == \A m \in Markets : Offered[m] \subseteq Nat
ASSUME ClockAssumption == \A m \in Markets : Clock[m] \subseteq Nat
ASSUME LimitsAssumption == Limits \subseteq Nat \ {0}

(* Providers are asked for bars of a quarter of an hour, which begin on    *)
(* one, and answer with finitely many.                                     *)
ASSUME QuartersAssumption ==
  \A m \in Markets : IsFiniteSet(Offered[m]) /\ \A o \in Offered[m] : o % 15 = 0
ASSUME TargetsAssumption == Targets \subseteq Timeframe

VARIABLES market,   \* the kind of the instrument's market
          now,
          rows,     \* the canonical table: the M15 bars stored
          partial,  \* those of them whose prices are not final
          fill,     \* per handler, the backfill it is in the middle of
          deriving, \* per handler, the open bar it is in the middle of
          answered  \* the open bar answered by the last step, if it answered one

vars == <<market, now, rows, partial, fill, deriving, answered>>

M15 == Duration["M15"]
Closes(o) == o + M15

Idle == [at |-> 0, limit |-> 0, todo |-> {}]
NoBar == [tf |-> "M15", tick |-> 0, open |-> 0, children |-> {}, previous |-> {}]

Fill == [at : Nat, limit : Nat, todo : SUBSET Nat]

(* previous is the bar whose close is the open price, or empty: then the   *)
(* open price is that of the first child or, without one, of the tick.     *)
OpenBar ==
  [tf : Timeframe, tick : Int, open : Int, children : SUBSET Nat,
   previous : SUBSET Nat]

TypeOK ==
  /\ market \in Markets
  /\ now \in Nat
  /\ rows \in SUBSET Nat
  /\ partial \in SUBSET rows
  /\ fill \in [Handlers -> Fill]
  /\ deriving \in [Handlers -> OpenBar]
  /\ answered \in OpenBar

Init ==
  /\ market \in Markets
  /\ now \in Clock[market]
  /\ \A t \in Clock[market] : now <= t
  /\ rows = {}
  /\ partial = {}
  /\ fill = [h \in Handlers |-> Idle]
  /\ deriving = [h \in Handlers |-> NoBar]
  /\ answered = NoBar

Advance ==
  /\ \E t \in Clock[market] : t > now /\ now' = t
  /\ answered' = NoBar
  /\ UNCHANGED <<market, rows, partial, fill, deriving>>

Busy(h) == fill[h].todo # {} \/ deriving[h] # NoBar

-----------------------------------------------------------------------------
(* Backfill.                                                               *)

(* The n latest of a set of bars.                                          *)
Latest(S, n) == {o \in S : Cardinality({p \in S : p > o}) < n}

(* The provider's answer at time t: its n latest bars, the one that is     *)
(* still forming included.                                                 *)
Fetched(t, n) == Latest({o \in Offered[market] : o <= t}, n)

Fetch(h, n) ==
  /\ ~Busy(h)
  /\ fill' = [fill EXCEPT ![h] =
                [at |-> now, limit |-> n, todo |-> Fetched(now, n)]]
  /\ answered' = NoBar
  /\ UNCHANGED <<market, now, rows, partial, deriving>>

(* Mutant: bars that have not closed are stored too.                       *)
Storable_Forming(o) == Accepts(market, "M15", o)

(* Mutant: bars outside the sessions are stored too.                       *)
Storable_AnySession(o) == Closes(o) <= now

(* Decided when the bar's turn comes, not when it was fetched.             *)
Storable(o) == Closes(o) <= now /\ Accepts(market, "M15", o)

IsFirst(o, S) == o \in S /\ \A p \in S : o <= p

Done(h, todo) ==
  fill' = [fill EXCEPT ![h] = IF todo = {} THEN Idle ELSE [@ EXCEPT !.todo = todo]]

(* The next bar of the answer, which is in ascending order.                *)
StoreNext(h, o) ==
  /\ IsFirst(o, fill[h].todo)
  /\ IF Storable(o)
     THEN /\ rows' = rows \union {o}
          /\ partial' = IF Closes(o) <= fill[h].at THEN partial \ {o}
                        ELSE partial \union {o}
     ELSE UNCHANGED <<rows, partial>>
  /\ Done(h, fill[h].todo \ {o})
  /\ answered' = NoBar
  /\ UNCHANGED <<market, now, deriving>>

(* Mutant: a bar that cannot be stored is passed over.                     *)
Abort_Continue(h) ==
  /\ \E o \in fill[h].todo : IsFirst(o, fill[h].todo) /\ Done(h, fill[h].todo \ {o})
  /\ answered' = NoBar
  /\ UNCHANGED <<market, now, rows, partial, deriving>>

(* The bar is invalid (normalize_kline) or the upsert fails: the request   *)
(* ends there and the rows before it stay.                                 *)
Abort(h) ==
  /\ fill[h].todo # {}
  /\ fill' = [fill EXCEPT ![h] = Idle]
  /\ answered' = NoBar
  /\ UNCHANGED <<market, now, rows, partial, deriving>>

-----------------------------------------------------------------------------
(* Aggregation of the stored bars, which reads the table once.             *)

(* The newest rows, n times as many as a bucket has children.              *)
Listed(tf, n) ==
  {o \in Latest(rows, n * ChildCount(market, tf)) : Accepts(market, "M15", o)}

InBucket(S, tf, b) == {o \in S : b <= o /\ o < BucketClose(market, tf, b)}

Buckets(tf, S) == {BucketOpen(market, tf, o) : o \in S}

IsWhole(S, tf, b) == InBucket(S, tf, b) = ExpectedOpens(market, tf, b)

(* The buckets that an aggregation of n bars shows as complete.            *)
Complete(tf, n) ==
  LET listed == Listed(tf, n)
  IN  {b \in Buckets(tf, listed) : IsWhole(listed, tf, b)}

-----------------------------------------------------------------------------
(* The open bar, in two reads of the table.                                *)

(* Mutant: rows that closed after the tick are used.                       *)
Children_Newest(tf, b, tick) == {o \in InBucket(rows, tf, b) : Accepts(market, "M15", o)}

(* The rows of the bucket that had closed at the time of the tick (the     *)
(* limit of the query is the number of children and takes them all).       *)
Children(tf, b, tick) ==
  {o \in InBucket(rows, tf, b) : Accepts(market, "M15", o) /\ Closes(o) <= tick}

(* A tick of the latest time or older, outside whose session there is no   *)
(* open bar.                                                               *)
ReadChildren(h, tf, tick) ==
  /\ ~Busy(h)
  /\ tick \in Clock[market] /\ tick <= now
  /\ MarketOpen(market, tf, tick)
  /\ LET b == BucketOpen(market, tf, tick)
         bar == [tf |-> tf, tick |-> tick, open |-> b,
                 children |-> Children(tf, b, tick), previous |-> {}]
     IN  IF bar.children = {}
         THEN deriving' = [deriving EXCEPT ![h] = bar] /\ answered' = NoBar
         ELSE answered' = bar /\ UNCHANGED deriving
  /\ UNCHANGED <<market, now, rows, partial, fill>>

(* Without children the bar opens at the close of the newest of eight rows *)
(* that closed before it.                                                  *)
Before(b) ==
  Latest({o \in Latest({p \in rows : p <= b}, 8) :
            Accepts(market, "M15", o) /\ Closes(o) <= b}, 1)

ReadPrevious(h) ==
  /\ deriving[h] # NoBar
  /\ answered' = [deriving[h] EXCEPT !.previous = Before(deriving[h].open)]
  /\ deriving' = [deriving EXCEPT ![h] = NoBar]
  /\ UNCHANGED <<market, now, rows, partial, fill>>

Next ==
  \/ Advance
  \/ \E h \in Handlers :
       \/ \E n \in Limits : Fetch(h, n)
       \/ \E o \in Offered[market] : StoreNext(h, o)
       \/ Abort(h)
       \/ \E tf \in Targets, t \in Clock[market] : ReadChildren(h, tf, t)
       \/ ReadPrevious(h)

Spec == Init /\ [][Next]_vars

-----------------------------------------------------------------------------
(* A bucket shown as complete is over: whatever backfills did before, and  *)
(* although nothing compares the bucket with the clock.                    *)
CompleteMeansClosed ==
  \A tf \in Targets, n \in Limits :
    \A b \in Complete(tf, n) : BucketClose(market, tf, b) <= now

(* A bucket whose children are all stored is shown as complete if fewer    *)
(* than n of the later buckets have rows: the limit on the rows read never *)
(* cuts into it.                                                           *)
WholeBucketIsListed ==
  \A tf \in Targets, n \in Limits :
    LET stored == {o \in rows : Accepts(market, "M15", o)}
        later(b) == {o \in stored : o >= BucketClose(market, tf, b)}
    IN  \A b \in Buckets(tf, stored) :
          IsWhole(stored, tf, b) /\ Cardinality(Buckets(tf, later(b))) < n
            => b \in Complete(tf, n)

(* The open bar is an open one, also when the tick is old and the table is *)
(* ahead of it: it knows nothing that came after its tick and is never     *)
(* made of all its children.                                               *)
OpenBarIsOpen ==
  answered # NoBar =>
    LET k == market
        used == answered.children \union answered.previous
    IN  /\ answered.open <= answered.tick
        /\ answered.tick < BucketClose(k, answered.tf, answered.open)
        /\ \A o \in used : Closes(o) <= answered.tick
        /\ ~ (ExpectedOpens(k, answered.tf, answered.open) \subseteq answered.children)

(* A backfill leaves no hole behind: of the bars it fetched that had       *)
(* closed by then, those before the one it stands at are stored, so that a *)
(* failure costs only bars at the end.                                     *)
FailureLeavesPrefix ==
  \A h \in Handlers : fill[h].todo # {} =>
    \A o \in Fetched(fill[h].at, fill[h].limit) \ fill[h].todo :
      Closes(o) <= fill[h].at /\ Accepts(market, "M15", o) => o \in rows

(* "only closed bars are persisted as canonical truth in PostgreSQL"       *)
(* (2026-04-24-market-data-contract-analysis-runtime-design.md:85): what   *)
(* is stored of a bar was read after it had closed.                        *)
OnlyClosedBarsPersisted == partial = {}
=============================================================================
