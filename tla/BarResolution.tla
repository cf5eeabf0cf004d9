----------------------------- MODULE BarResolution -----------------------------
(***************************************************************************)
(* Which stored bar a request for the analysis of a closed bar is about    *)
(* (resolve_closed_bar_json of analysis_runtime.rs).  A request names the  *)
(* bar by its open time, by its close time, by both or not at all; the     *)
(* answer is one read of the canonical table as MarketBars has it.         *)
(***************************************************************************)
EXTENDS MarketBars

CONSTANT ResolutionLimit   \* bars that are looked at; 64 in the code

ASSUME ResolutionLimitAssumption == ResolutionLimit \in Nat /\ ResolutionLimit >= 2

(* A time that is not given is the empty set.                              *)
Matches(open, close, asked) ==
  (asked.open # {} => asked.open = {open}) /\ (asked.close # {} => asked.close = {close})

Named(asked) == asked.open # {} \/ asked.close # {}

(* The newest rows that open no later than the bar, or its end, does.      *)
UpTo(asked) == IF asked.open # {} THEN asked.open ELSE asked.close

(* Mutant: the list is in ascending order, as the aggregated one is.       *)
RowsListed_Ascending(asked) ==
  LET reach == {o \in rows : \A t \in UpTo(asked) : o <= t}
  IN  {o \in reach : Cardinality({p \in reach : p < o}) < ResolutionLimit}

RowsListed(asked) ==
  Latest({o \in rows : \A t \in UpTo(asked) : o <= t}, ResolutionLimit)

(* Descending: of the rows that match, the newest.                         *)
ResolveRow(asked) ==
  LET found == {o \in RowsListed(asked) : Matches(o, Closes(o), asked)}
  IN  {o \in found : \A p \in found : p <= o}

(* Ascending: of the complete bars that match, the oldest.                 *)
ResolveAggregated(tf, asked) ==
  LET found == {b \in Complete(tf, ResolutionLimit) :
                  Matches(b, BucketClose(market, tf, b), asked)}
  IN  {b \in found : \A c \in found : b <= c}

(* Empty if there is no such bar, for which the request is refused.        *)
ResolveClosedBar(tf, asked) ==
  IF tf = "M15" THEN ResolveRow(asked) ELSE ResolveAggregated(tf, asked)

-----------------------------------------------------------------------------
(* What requests may name: a bar by one or both ends, or nothing.          *)
Bars(tf) ==
  IF tf = "M15" THEN Offered[market]
  ELSE {BucketOpen(market, tf, o) : o \in {p \in Offered[market] : Accepts(market, "M15", p)}}

Asked(tf) ==
  {[open |-> {}, close |-> {}]} \union
  UNION {{[open |-> {b}, close |-> {}],
          [open |-> {}, close |-> {BucketClose(market, tf, b)}],
          [open |-> {b}, close |-> {BucketClose(market, tf, b)}]} : b \in Bars(tf)}

(* A bar that is named is found, however old its row is, and without a     *)
(* name the newest row is.                                                 *)
RowIsFound ==
  "M15" \in Targets => \A asked \in Asked("M15") :
    /\ Named(asked) =>
         \A o \in rows : Matches(o, Closes(o), asked) => ResolveRow(asked) = {o}
    /\ ~Named(asked) => ResolveRow(asked) = Latest(rows, 1)

(* A larger bar that is named is found while it is among the last ones and *)
(* all its rows are stored.                                                *)
BucketIsFound ==
  \A tf \in Targets \ {"M15"} : \A asked \in Asked(tf) : \A b \in Bars(tf) :
    LET close == BucketClose(market, tf, b)
        later == {o \in rows : o >= close}
    IN  /\ Named(asked) /\ Matches(b, close, asked)
        /\ IsWhole(rows, tf, b)
        /\ Cardinality(Buckets(tf, later)) < ResolutionLimit
        => ResolveClosedBar(tf, asked) = {b}

(* A request for a closed bar resolves to the bar it is about              *)
(* (resolve_closed_bar_json), whatever backfills have stored by then: the  *)
(* two limits and the two orders of the lists never lead to another bar    *)
(* and never hide the one that was named.                                  *)
ResolvedAsAsked == RowIsFound /\ BucketIsFound

(* Whatever a request names, the bar found for it is over and is one that  *)
(* has all it names.                                                       *)
ResolvedIsOver ==
  \A tf \in Targets : \A asked \in Asked(tf) : \A b \in ResolveClosedBar(tf, asked) :
    BucketClose(market, tf, b) <= now /\ Matches(b, BucketClose(market, tf, b), asked)
=============================================================================
