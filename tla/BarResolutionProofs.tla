-------------------------- MODULE BarResolutionProofs --------------------------
(* Proofs about BarResolution: what a request for a closed bar resolves to *)
(* is over, and a bar that is named and stored is found.                   *)
EXTENDS BarResolution, MarketBarsProofs

(* Whatever a request names, the bar found for it is over and has all it   *)
(* names (resolve_closed_bar_json, analysis_runtime.rs:499): nothing in    *)
(* that code compares the bar with the clock.                              *)
THEOREM ResolvedBarsAreOver == Spec => []ResolvedIsOver
<1>1. IInv => ResolvedIsOver
  <2> SUFFICES ASSUME IInv, NEW tf \in Targets, NEW asked \in Asked(tf),
                      NEW b \in ResolveClosedBar(tf, asked)
               PROVE  /\ BucketClose(market, tf, b) <= now
                      /\ Matches(b, BucketClose(market, tf, b), asked)
    BY DEF ResolvedIsOver
  <2>1. CASE tf = "M15"
    <3>1. b \in rows /\ Matches(b, Closes(b), asked)
      BY <2>1 DEF ResolveClosedBar, ResolveRow, RowsListed, Latest
    <3>2. BucketClose(market, tf, b) = Closes(b)
      BY <2>1 DEF BucketClose, Closes, M15
    <3> QED BY <3>1, <3>2 DEF IInv, StoredIsClosed
  <2>2. CASE tf # "M15"
    <3>1. /\ b \in Complete(tf, ResolutionLimit)
          /\ Matches(b, BucketClose(market, tf, b), asked)
      BY <2>2 DEF ResolveClosedBar, ResolveAggregated
    <3> QED BY <3>1, WholeIsOver
  <2> QED BY <2>1, <2>2
<1> QED BY <1>1, Invariant, PTL

-----------------------------------------------------------------------------
(* Between a row and the end of its bar opens at most one other.           *)
LEMMA OneNext ==
  ASSUME TypeOK, RowsAccepted, NEW o \in rows, NEW S, S \subseteq rows,
         \A p \in S : o < p /\ p <= o + 15
  PROVE  Cardinality(S) < ResolutionLimit
<1>1. S \subseteq {o + 15}
  BY RowsFinite
<1>2. IsFiniteSet({o + 15}) /\ Cardinality({o + 15}) = 1
  BY FS_Singleton
<1>3. IsFiniteSet(S) /\ Cardinality(S) \in Nat /\ Cardinality(S) <= 1
  BY <1>1, <1>2, FS_Subset, FS_CardinalityType
<1> QED BY <1>3, ResolutionLimitAssumption

LEMMA NamedRow ==
  ASSUME TypeOK, RowsAccepted, NEW asked \in Asked("M15"), Named(asked),
         NEW o \in rows, Matches(o, Closes(o), asked)
  PROVE  ResolveRow(asked) = {o}
<1> DEFINE reach == {p \in rows : \A t \in UpTo(asked) : p <= t}
<1>1. /\ Closes(o) = o + 15
      /\ \A p \in rows : p \in Nat /\ Closes(p) = p + 15
  BY ClosesInt DEF TypeOK
<1>2. UpTo(asked) = {o} \/ UpTo(asked) = {o + 15}
  BY <1>1 DEF UpTo, Matches, Named
<1>3. o \in reach
  BY <1>1, <1>2
<1>4. Cardinality({p \in reach : p > o}) < ResolutionLimit
  BY <1>1, <1>2, OneNext
<1>5. o \in RowsListed(asked) /\ RowsListed(asked) \subseteq rows
  BY <1>3, <1>4 DEF RowsListed, Latest
<1>6. \A p \in rows : Matches(p, Closes(p), asked) => p = o
  BY <1>1 DEF Matches, Named
<1> QED BY <1>1, <1>5, <1>6 DEF ResolveRow

LEMMA NewestRow ==
  ASSUME TypeOK, RowsAccepted, NEW asked \in Asked("M15"), ~Named(asked)
  PROVE  ResolveRow(asked) = Latest(rows, 1)
<1> DEFINE above(o) == {p \in rows : p > o}
<1>1. \A o : IsFiniteSet(above(o)) /\ Cardinality(above(o)) \in Nat
  BY RowsFinite, FS_Subset, FS_CardinalityType
<1>2. RowsListed(asked) = Latest(rows, ResolutionLimit)
  BY DEF RowsListed, UpTo, Named
<1>3. ResolveRow(asked) =
        {o \in Latest(rows, ResolutionLimit) : \A p \in Latest(rows, ResolutionLimit) : p <= o}
  BY <1>2 DEF ResolveRow, Matches, Named
<1>4. \A o \in rows : o \in Latest(rows, 1) <=> above(o) = {}
  BY <1>1, FS_EmptySet DEF Latest
<1>5. \A o \in rows : above(o) = {} => o \in Latest(rows, ResolutionLimit)
  BY FS_EmptySet, ResolutionLimitAssumption DEF Latest
<1>6. ASSUME NEW o \in rows, NEW p \in rows, p > o, o \in Latest(rows, ResolutionLimit)
      PROVE  p \in Latest(rows, ResolutionLimit)
  <2>1. above(p) \subseteq above(o)
    <3>1. o \in Nat /\ \A q \in rows : q \in Nat /\ (q > p => q > o)
      BY <1>6 DEF TypeOK
    <3> QED BY <3>1
  <2>2. Cardinality(above(p)) <= Cardinality(above(o))
    BY <1>1, <2>1, FS_Subset
  <2>3. Cardinality(above(o)) < ResolutionLimit
    BY <1>6 DEF Latest
  <2>4. Cardinality(above(p)) < ResolutionLimit
    BY <1>1, <2>2, <2>3, ResolutionLimitAssumption
  <2> QED BY <1>6, <2>4 DEF Latest
<1>7. Latest(rows, 1) \subseteq rows /\ Latest(rows, ResolutionLimit) \subseteq rows
  BY DEF Latest
<1>8. ASSUME NEW o \in ResolveRow(asked), NEW p \in above(o) PROVE FALSE
  <2>1. o \in rows /\ o \in Latest(rows, ResolutionLimit)
    BY <1>3, <1>7
  <2>2. p \in Latest(rows, ResolutionLimit)
    BY <1>6, <1>8, <2>1
  <2>3. p <= o /\ p > o
    BY <1>3, <1>8, <2>2
  <2> QED BY <2>1, <2>3 DEF TypeOK
<1>9. ASSUME NEW o \in Latest(rows, 1) PROVE o \in ResolveRow(asked)
  <2>1. o \in rows /\ above(o) = {}
    BY <1>4, <1>7
  <2>2. o \in Latest(rows, ResolutionLimit)
    BY <1>5, <2>1
  <2>3. \A p \in rows : p <= o
    BY <2>1 DEF TypeOK
  <2> QED BY <1>3, <1>7, <2>2, <2>3
<1> HIDE DEF above
<1> QED BY <1>3, <1>4, <1>7, <1>8, <1>9

-----------------------------------------------------------------------------
(* A bucket is known by its end (bucket_close_time, session.rs:144).       *)
LEMMA CloseNamesBucket ==
  ASSUME NEW k \in Kind, NEW tf \in Timeframe, NEW t \in Nat, NEW u \in Nat,
         MarketOpen(k, tf, t), MarketOpen(k, tf, u),
         BucketClose(k, tf, BucketOpen(k, tf, t)) = BucketClose(k, tf, BucketOpen(k, tf, u))
  PROVE  BucketOpen(k, tf, t) = BucketOpen(k, tf, u)
<1>1. CASE k = "cn_a" /\ tf = "D1"
  BY <1>1 DEF BucketOpen, BucketClose, CnBucketOpen, DayStart, Minute
<1>2. CASE ~ (k = "cn_a" /\ tf = "D1")
  <2>1. BucketOpen(k, tf, t) \in Int /\ BucketOpen(k, tf, u) \in Int
    BY TickInBucket
  <2>2. Duration[tf] \in Int
    BY DEF Duration, Timeframe
  <2>3. BucketOpen(k, tf, t) + Duration[tf] = BucketOpen(k, tf, u) + Duration[tf]
    BY <1>2 DEF BucketClose
  <2> DEFINE x == BucketOpen(k, tf, t)
             y == BucketOpen(k, tf, u)
             d == Duration[tf]
  <2>4. x \in Int /\ y \in Int /\ d \in Int /\ x + d = y + d
    BY <2>1, <2>2, <2>3
  <2> HIDE DEF x, y, d
  <2>5. x = y
    BY <2>4
  <2> QED BY <2>5 DEF x, y
<1> QED BY <1>1, <1>2

LEMMA NamedBucket ==
  ASSUME TypeOK, RowsAccepted, NEW tf \in Targets \ {"M15"}, NEW asked \in Asked(tf),
         NEW b \in Bars(tf), Named(asked),
         Matches(b, BucketClose(market, tf, b), asked), IsWhole(rows, tf, b),
         Cardinality(Buckets(tf, {o \in rows : o >= BucketClose(market, tf, b)}))
           < ResolutionLimit
  PROVE  ResolveClosedBar(tf, asked) = {b}
<1> DEFINE last == BucketClose(market, tf, b) - 15
           found == {c \in Complete(tf, ResolutionLimit) :
                       Matches(c, BucketClose(market, tf, c), asked)}
<1>1. tf \in Timeframe /\ tf # "M15" /\ market \in Kind
  BY TargetsAssumption, OfferedNat
<1>2. PICK t \in Offered[market] : Accepts(market, "M15", t) /\ b = BucketOpen(market, tf, t)
  BY <1>1 DEF Bars
<1>3. t \in Nat /\ MarketOpen(market, tf, t) /\ b \in Int
  BY <1>1, <1>2, OfferedNat, AcceptedIsInSession, TickInBucket
<1>4. b \in Buckets(tf, rows)
  <2>1. last \in InBucket(rows, tf, b)
    BY <1>1, <1>3, LastChildClosesBucket DEF IsWhole
  <2>2. /\ last \in rows /\ last \in Nat
        /\ b <= last /\ last < BucketClose(market, tf, b)
    BY <2>1, RowsFinite DEF InBucket
  <2>3. MarketOpen(market, tf, last)
    BY <1>1, <2>2, RowHasPlace
  <2>4. BucketOpen(market, tf, last) = b
    BY <1>1, <1>2, <1>3, <2>2, <2>3, IntervalIsBucket
  <2> QED BY <2>2, <2>4 DEF Buckets
<1>5. b \in found
  BY <1>1, <1>4, WholeIsComplete, ResolutionLimitAssumption
<1>6. ASSUME NEW c \in found PROVE c = b
  <2>1. /\ c \in Complete(tf, ResolutionLimit)
        /\ Matches(c, BucketClose(market, tf, c), asked)
    OBVIOUS
  <2>2. PICK u \in rows : c = BucketOpen(market, tf, u)
    BY <2>1 DEF Complete, Buckets, Listed, Latest
  <2>3. u \in Nat /\ MarketOpen(market, tf, u)
    BY <1>1, RowsFinite, RowHasPlace
  <2>4. c = b \/ BucketClose(market, tf, c) = BucketClose(market, tf, b)
    BY <2>1 DEF Named, Matches
  <2> QED BY <1>1, <1>2, <1>3, <2>2, <2>3, <2>4, CloseNamesBucket
<1>7. found = {b}
  BY <1>5, <1>6
<1>8. ResolveClosedBar(tf, asked) = {c \in found : \A d \in found : c <= d}
  BY <1>1 DEF ResolveClosedBar, ResolveAggregated
<1> QED BY <1>3, <1>7, <1>8

(* A request for a closed bar resolves to the bar it is about, for any     *)
(* history of backfills and any limit of two bars or more                  *)
(* (resolve_closed_bar_json, analysis_runtime.rs:499).                     *)
THEOREM BarsResolveAsAsked == Spec => []ResolvedAsAsked
<1>1. TypeOK /\ RowsAccepted => ResolvedAsAsked
  BY NamedRow, NewestRow, NamedBucket DEF ResolvedAsAsked, RowIsFound, BucketIsFound
<1> QED BY <1>1, Invariant, RowsAreAccepted, PTL DEF IInv
=============================================================================
