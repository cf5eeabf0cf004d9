--------------------------- MODULE MarketBarsProofs ---------------------------
(* Proofs about the trading calendar and about MarketBars.                 *)
EXTENDS MarketBars, FunctionTheorems, FiniteSetTheorems, TLAPS

(* The bucket that a tick in the session falls into, whatever the market,  *)
(* has begun and is not over (current_bucket_for_tick, session.rs:123).    *)
THEOREM TickInBucket ==
  ASSUME NEW k \in Kind, NEW tf \in Timeframe, NEW t \in Nat, MarketOpen(k, tf, t)
  PROVE  /\ BucketOpen(k, tf, t) \in Int
         /\ BucketOpen(k, tf, t) <= t
         /\ t < BucketClose(k, tf, BucketOpen(k, tf, t))
<1>1. CASE k = "continuous"
  BY <1>1 DEF Timeframe, BucketOpen, BucketClose, ContinuousOpen, Duration
<1>2. CASE k = "fx"
  <2>1. CASE tf = "D1"
    BY <1>2, <2>1 DEF BucketOpen, BucketClose, FxBucketOpen, DayStart, Minute, Duration
  <2>2. CASE tf # "D1"
    BY <1>2, <2>2 DEF Timeframe, BucketOpen, BucketClose, FxBucketOpen, ContinuousOpen, Duration
  <2> QED BY <2>1, <2>2
<1>3. CASE k = "cn_a"
  <2>1. CASE tf = "D1"
    BY <1>3, <2>1 DEF BucketOpen, BucketClose, CnBucketOpen, DayStart, Minute, Duration, MarketOpen, CnOpen
  <2>2. CASE tf = "H1"
    BY <1>3, <2>2 DEF BucketOpen, BucketClose, CnBucketOpen, CnHourOf, DayStart, Minute, Duration, MarketOpen, CnOpen, InCnMorning, InCnAfternoon
  <2>3. CASE tf = "M15"
    BY <1>3, <2>3 DEF BucketOpen, BucketClose, CnBucketOpen, Duration
  <2> QED BY <2>1, <2>2, <2>3 DEF Timeframe
<1> QED BY <1>1, <1>2, <1>3 DEF Kind

(* The last child of a bucket closes when the bucket does                  *)
(* (expected_open_times and bucket_close_time, session.rs:144-190).        *)
THEOREM LastChildClosesBucket ==
  ASSUME NEW k \in Kind, NEW tf \in Timeframe, NEW b \in Int
  PROVE  BucketClose(k, tf, b) - 15 \in ExpectedOpens(k, tf, b)
<1>1. CASE k = "cn_a" /\ tf = "D1"
  <2>1. 885 \in {780 + 15 * i : i \in 0..7}
    <3>1. 7 \in 0..7 /\ 885 = 780 + 15 * 7
      OBVIOUS
    <3> QED BY <3>1
  <2>2. DayStart(b) \in Int
    BY DEF DayStart, Minute
  <2>3. BucketClose(k, tf, b) - 15 = DayStart(b) + 885
    BY <1>1, <2>2 DEF BucketClose
  <2> QED BY <1>1, <2>1, <2>3 DEF ExpectedOpens, CnDayOpens
<1>2. CASE ~ (k = "cn_a" /\ tf = "D1")
  <2> DEFINE last == ChildCount(k, tf) - 1
  <2>1. last \in 0..last /\ 15 * last = Duration[tf] - 15
    BY <1>2 DEF Kind, Timeframe, ChildCount, Duration
  <2>2. BucketClose(k, tf, b) - 15 = b + 15 * last
    BY <1>2, <2>1 DEF BucketClose, Duration, Timeframe
  <2> HIDE DEF last
  <2>3. ExpectedOpens(k, tf, b) = {b + 15 * i : i \in 0..last}
    BY <1>2 DEF ExpectedOpens, last
  <2> QED BY <2>1, <2>2, <2>3
<1> QED BY <1>1, <1>2

(* A bar that is accepted is one of the children expected in its bucket,   *)
(* so aggregation never meets a row it has no place for; a continuous      *)
(* market accepts any bar, so there the quarter of an hour is assumed      *)
(* (accepts_bar_open, session.rs:103).                                     *)
THEOREM AcceptedIsExpected ==
  ASSUME NEW k \in Kind, NEW tf \in Timeframe, NEW t \in Nat,
         Accepts(k, "M15", t), t % 15 = 0
  PROVE  t \in ExpectedOpens(k, tf, BucketOpen(k, tf, t))
<1> DEFINE b == BucketOpen(k, tf, t)
<1>1. CASE k = "cn_a" /\ tf = "D1"
  <2>1. PICK m \in Nat : m = Minute(t) /\ t = DayStart(t) + m /\ m % 15 = 0
    BY DEF DayStart, Minute
  <2>2. m \in {570 + 15 * i : i \in 0..7} \union {780 + 15 * i : i \in 0..7}
    <3>1. (570 <= m /\ m < 690) \/ (780 <= m /\ m < 900)
      BY <1>1, <2>1 DEF Accepts, AcceptsCn, CnOpen, InCnMorning, InCnAfternoon
    <3>2. CASE 570 <= m /\ m < 690
      <4>1. (m - 570) \div 15 \in 0..7 /\ m = 570 + 15 * ((m - 570) \div 15)
        BY <2>1, <3>2
      <4> QED BY <4>1
    <3>3. CASE 780 <= m /\ m < 900
      <4>1. (m - 780) \div 15 \in 0..7 /\ m = 780 + 15 * ((m - 780) \div 15)
        BY <2>1, <3>3
      <4> QED BY <4>1
    <3> QED BY <3>1, <3>2, <3>3
  <2>3. DayStart(DayStart(t) + 570) = DayStart(t)
    BY DEF DayStart, Minute
  <2>4. b = DayStart(t) + 570
    BY <1>1 DEF BucketOpen, CnBucketOpen
  <2> QED BY <1>1, <2>1, <2>2, <2>3, <2>4 DEF ExpectedOpens, CnDayOpens
<1>2. CASE ~ (k = "cn_a" /\ tf = "D1")
  <2> DEFINE i == (t - b) \div 15
             last == ChildCount(k, tf) - 1
  <2>1. b \in Int /\ (t - b) % 15 = 0 /\ 0 <= t - b /\ t - b < 15 * (last + 1)
    <3>1. CASE k = "continuous" \/ (k = "fx" /\ tf # "D1")
      <4>0. b = t - (t % Duration[tf])
        BY <3>1 DEF BucketOpen, ContinuousOpen, FxBucketOpen
      <4>1. 15 * (last + 1) = Duration[tf]
        BY <3>1 DEF Timeframe, ChildCount, Duration
      <4>2. Duration[tf] = 15 \/ Duration[tf] = 60 \/ Duration[tf] = 1440
        BY DEF Timeframe, Duration
      <4> HIDE DEF b, last
      <4>3. CASE Duration[tf] = 15
        BY <4>0, <4>1, <4>3
      <4>4. CASE Duration[tf] = 60
        BY <4>0, <4>1, <4>4
      <4>5. CASE Duration[tf] = 1440
        BY <4>0, <4>1, <4>5
      <4> QED BY <4>2, <4>3, <4>4, <4>5
    <3>2. CASE k = "fx" /\ tf = "D1"
      <4>1. b = t - ((t - 1320) % 1440) /\ 15 * (last + 1) = 1440
        BY <3>2 DEF BucketOpen, FxBucketOpen, DayStart, Minute, ChildCount
      <4> DEFINE u == t - 1320
      <4>2. u \in Int /\ u % 15 = 0
        OBVIOUS
      <4>3. (u % 1440) % 15 = 0 /\ 0 <= u % 1440 /\ u % 1440 < 1440
        BY <4>2
      <4>4. t - b = u % 1440 /\ u % 1440 \in Int
        BY <4>1, <4>2
      <4> HIDE DEF u
      <4>5. b \in Int
        BY <4>1
      <4>6. 15 * (last + 1) = 1440
        BY <4>1
      <4> HIDE DEF b, last
      <4>7. (t - b) % 15 = 0 /\ 0 <= t - b /\ t - b < 1440
        BY <4>3, <4>4
      <4> QED BY <4>5, <4>6, <4>7
    <3>3. CASE k = "cn_a" /\ tf = "M15"
      <4>1. b = t
        BY <3>3 DEF BucketOpen, CnBucketOpen
      <4>2. last = 0
        BY <3>3 DEF ChildCount
      <4> HIDE DEF b, last
      <4> QED BY <4>1, <4>2
    <3>4. CASE k = "cn_a" /\ tf = "H1"
      <4> DEFINE m == Minute(t)
      <4>1. m \in 570..899 /\ m % 15 = 0 /\ DayStart(t) = t - m
        BY <3>4 DEF Minute, DayStart, Accepts, AcceptsCn, CnOpen, InCnMorning, InCnAfternoon
      <4>2. m < 690 \/ 780 <= m
        BY <3>4 DEF Accepts, AcceptsCn, CnOpen, InCnMorning, InCnAfternoon
      <4>3. b = t - m + CnHourOf(m) /\ 15 * (last + 1) = 60
        BY <3>4, <4>1 DEF BucketOpen, CnBucketOpen, ChildCount
      <4> HIDE DEF m, b, last
      <4>4. CnHourOf(m) \in {570, 630, 780, 840} /\ CnHourOf(m) <= m /\ m < CnHourOf(m) + 60
        BY <4>1, <4>2 DEF CnHourOf
      <4> QED BY <4>1, <4>3, <4>4
    <3> QED BY <1>2, <3>1, <3>2, <3>3, <3>4 DEF Kind, Timeframe
  <2>2. last \in Int
    BY DEF Kind, Timeframe, ChildCount
  <2> HIDE DEF b, last
  <2>3. i \in 0..last /\ t = b + 15 * i
    BY <2>1, <2>2
  <2>4. ExpectedOpens(k, tf, b) = {b + 15 * j : j \in 0..last}
    BY <1>2 DEF ExpectedOpens, last
  <2> HIDE DEF i
  <2>5. t \in ExpectedOpens(k, tf, b)
    BY <2>3, <2>4
  <2> QED BY <2>5 DEF b
<1> QED BY <1>1, <1>2

(* An accepted bar between the ends of a bucket belongs to it, so that     *)
(* grouping the rows by bucket (service.rs:277) and reading those between  *)
(* its two ends (service.rs:193) give the same bars.                       *)
THEOREM IntervalIsBucket ==
  ASSUME NEW k \in Kind, NEW tf \in Timeframe, NEW t \in Nat, NEW u \in Nat,
         MarketOpen(k, tf, t), MarketOpen(k, tf, u),
         BucketOpen(k, tf, u) <= t, t < BucketClose(k, tf, BucketOpen(k, tf, u))
  PROVE  BucketOpen(k, tf, t) = BucketOpen(k, tf, u)
<1> DEFINE b == BucketOpen(k, tf, u)
<1>1. CASE k = "continuous" \/ (k = "fx" /\ tf # "D1") \/ (k = "cn_a" /\ tf = "M15")
  <2>1. /\ b = u - (u % Duration[tf])
        /\ BucketOpen(k, tf, t) = t - (t % Duration[tf])
        /\ BucketClose(k, tf, b) = b + Duration[tf]
    BY <1>1 DEF BucketOpen, BucketClose, ContinuousOpen, FxBucketOpen, CnBucketOpen, Duration
  <2>2. Duration[tf] = 15 \/ Duration[tf] = 60 \/ Duration[tf] = 1440
    BY DEF Timeframe, Duration
  <2> HIDE DEF b
  <2>3. CASE Duration[tf] = 15
    BY <2>1, <2>3 DEF b
  <2>4. CASE Duration[tf] = 60
    BY <2>1, <2>4 DEF b
  <2>5. CASE Duration[tf] = 1440
    BY <2>1, <2>5 DEF b
  <2> QED BY <2>2, <2>3, <2>4, <2>5
<1>2. CASE k = "fx" /\ tf = "D1"
  <2> DEFINE d == DayStart(u - 1320)
  <2>1. d \in Int /\ d % 1440 = 0
    BY DEF DayStart, Minute
  <2>2. b = d + 1320 /\ BucketClose(k, tf, b) = b + 1440
    BY <1>2 DEF BucketOpen, BucketClose, FxBucketOpen, Duration
  <2> HIDE DEF d
  <2>3. d <= t - 1320 /\ t - 1320 < d + 1440
    BY <2>1, <2>2
  <2>4. DayStart(t - 1320) = d
    BY <2>1, <2>3 DEF DayStart, Minute
  <2> QED BY <1>2, <2>2, <2>4 DEF BucketOpen, FxBucketOpen
<1>3. CASE k = "cn_a" /\ tf = "H1"
  <2> DEFINE m == Minute(u)
             d == DayStart(u)
  <2>1. d \in Int /\ d % 1440 = 0 /\ u = d + m /\ m \in 0..1439
    BY DEF DayStart, Minute
  <2>2. b = d + CnHourOf(m) /\ BucketClose(k, tf, b) = b + 60
    BY <1>3 DEF BucketOpen, BucketClose, CnBucketOpen, Duration
  <2>3. (570 <= m /\ m < 690) \/ (780 <= m /\ m < 900)
    BY <1>3 DEF MarketOpen, CnOpen, InCnMorning, InCnAfternoon
  <2> HIDE DEF m, d, b
  <2>4. CnHourOf(m) \in CnHours
    BY <2>1, <2>3 DEF CnHourOf, CnHours
  <2>5. d + CnHourOf(m) <= t /\ t < d + CnHourOf(m) + 60
    BY <2>2 DEF b
  <2>6. Minute(t) = t - d /\ DayStart(t) = d
    BY <2>1, <2>4, <2>5 DEF Minute, DayStart, CnHours
  <2>7. CnHourOf(Minute(t)) = CnHourOf(m)
    <3>1. \A e \in CnHours : \A x \in Int : e <= x /\ x < e + 60 => CnHourOf(x) = e
      BY DEF CnHourOf, CnHours
    <3>2. CnHourOf(m) <= Minute(t) /\ Minute(t) < CnHourOf(m) + 60 /\ Minute(t) \in Int
      BY <2>1, <2>4, <2>5, <2>6 DEF CnHours
    <3> QED BY <2>4, <3>1, <3>2
  <2>8. BucketOpen(k, tf, t) = d + CnHourOf(Minute(t))
    BY <1>3, <2>6 DEF BucketOpen, CnBucketOpen
  <2> QED BY <2>2, <2>7, <2>8 DEF b
<1>4. CASE k = "cn_a" /\ tf = "D1"
  <2> DEFINE d == DayStart(u)
  <2>1. d \in Int /\ d % 1440 = 0
    BY DEF DayStart, Minute
  <2>2. b = d + 570 /\ BucketClose(k, tf, b) = DayStart(d + 570) + 900
    BY <1>4 DEF BucketOpen, BucketClose, CnBucketOpen
  <2> HIDE DEF d
  <2>3. DayStart(d + 570) = d
    BY <2>1 DEF DayStart, Minute
  <2>4. d <= t /\ t < d + 1440
    BY <2>1, <2>2, <2>3
  <2>5. DayStart(t) = d
    BY <2>1, <2>4 DEF DayStart, Minute
  <2> QED BY <1>4, <2>2, <2>5 DEF BucketOpen, CnBucketOpen
<1> QED BY <1>1, <1>2, <1>3, <1>4 DEF Kind, Timeframe

(* The week of the fx market in minutes, on both clocks.                   *)
LEMMA FxWeek ==
  ASSUME NEW t \in Int
  PROVE  /\ FxOpen(t) <=> t % 10080 < 7080 \/ 9960 <= t % 10080
         /\ FxOpen(t) <=> (t - 1320) % 10080 < 5760 \/ 8640 <= (t - 1320) % 10080
<1> DEFINE w == t % 10080
           d == w \div 1440
<1>1. w \in 0..10079 /\ d \in 0..6 /\ w = 1440 * d + Minute(t) /\ Minute(t) \in 0..1439
  BY DEF Minute
<1>2. Weekday(t) = d
  BY DEF Weekday
<1>3. (t - 1320) % 10080 = IF w < 1320 THEN w + 8760 ELSE w - 1320
  OBVIOUS
<1> HIDE DEF w, d
<1>4. FxOpen(t) <=> w < 7080 \/ 9960 <= w
  <2> DEFINE m == Minute(t)
  <2>1. d = 5 => ~FxOpen(t)
    BY <1>2 DEF FxOpen
  <2>2. d = 6 => (FxOpen(t) <=> m >= 1320)
    BY <1>2 DEF FxOpen
  <2>3. d = 4 => (FxOpen(t) <=> m < 1320)
    BY <1>2 DEF FxOpen
  <2>4. d \notin {4, 5, 6} => FxOpen(t)
    BY <1>2 DEF FxOpen
  <2>5. d \in 0..6 /\ w = 1440 * d + m /\ m \in 0..1439
    BY <1>1
  <2> HIDE DEF m
  <2>6. CASE d \in {0, 1, 2, 3}
    BY <2>4, <2>5, <2>6
  <2>7. CASE d \in {4, 5, 6}
    BY <2>1, <2>2, <2>3, <2>5, <2>7
  <2> QED BY <2>5, <2>6, <2>7
<1> QED BY <1>1, <1>3, <1>4 DEF w

(* Every child of a bucket of session time is a bar of the market, so no   *)
(* bucket waits for a bar that cannot be stored (expected_open_times and   *)
(* accepts_bar_open, session.rs:103-190).                                  *)
THEOREM ExpectedIsAccepted ==
  ASSUME NEW k \in Kind, NEW tf \in Timeframe, NEW t \in Nat, MarketOpen(k, tf, t),
         NEW o \in ExpectedOpens(k, tf, BucketOpen(k, tf, t))
  PROVE  Accepts(k, "M15", o)
<1> DEFINE b == BucketOpen(k, tf, t)
<1>1. CASE k = "continuous"
  BY <1>1 DEF Accepts
<1>2. CASE k = "fx" /\ tf = "D1"
  <2> DEFINE d == DayStart(t - 1320)
             s == t - 1320
  <2>1. s \in Int /\ d = s - (s % 1440)
    BY DEF DayStart, Minute
  <2>2. PICK i \in 0..95 : o = d + 1320 + 15 * i
    BY <1>2 DEF ExpectedOpens, BucketOpen, FxBucketOpen, ChildCount
  <2>3. s % 10080 < 5760 \/ 8640 <= s % 10080
    BY <1>2, FxWeek DEF MarketOpen
  <2> HIDE DEF d
  <2>4. o \in Int /\ o - 1320 = d + 15 * i /\ o % 15 = 0
    BY <2>1, <2>2
  <2>5. (o - 1320) % 10080 = (s % 10080) - (s % 1440) + 15 * i
    BY <2>1, <2>4
  <2>6. (o - 1320) % 10080 < 5760 \/ 8640 <= (o - 1320) % 10080
    BY <2>1, <2>3, <2>5
  <2> QED BY <1>2, <2>4, <2>6, FxWeek DEF Accepts, AcceptsFx
<1>3. CASE k = "fx" /\ tf # "D1"
  <2> DEFINE h == t - (t % 60)
  <2>1. h \in Int /\ h % 60 = 0 /\ h <= t /\ t < h + 60
    OBVIOUS
  <2>2. PICK j \in 0..3 : o = h + 15 * j
    <3>1. CASE tf = "H1"
      BY <1>3, <3>1 DEF ExpectedOpens, BucketOpen, FxBucketOpen, ContinuousOpen, Duration, ChildCount
    <3>2. CASE tf = "M15"
      <4>1. b = t - (t % 15) /\ o = b
        BY <1>3, <3>2 DEF ExpectedOpens, BucketOpen, FxBucketOpen, ContinuousOpen, Duration, ChildCount
      <4>2. (t % 60) \div 15 \in 0..3 /\ o = h + 15 * ((t % 60) \div 15)
        BY <4>1
      <4> QED BY <4>2
    <3> QED BY <1>3, <3>1, <3>2 DEF Timeframe
  <2>3. t % 10080 < 7080 \/ 9960 <= t % 10080
    BY <1>3, FxWeek DEF MarketOpen
  <2> HIDE DEF h
  <2>4. o \in Int /\ o % 15 = 0
    BY <2>1, <2>2
  <2>5. h % 10080 = (t % 10080) - (t - h) /\ (h % 10080) % 60 = 0
    BY <2>1
  <2>6. o % 10080 = (h % 10080) + 15 * j
    BY <2>1, <2>2, <2>5
  <2>7. o % 10080 < 7080 \/ 9960 <= o % 10080
    BY <2>1, <2>3, <2>5, <2>6
  <2> QED BY <1>3, <2>4, <2>7, FxWeek DEF Accepts, AcceptsFx
<1>4. CASE k = "cn_a"
  <2> DEFINE d == DayStart(t)
             m == Minute(t)
  <2>1. d \in Int /\ d % 1440 = 0 /\ t = d + m /\ m \in 0..1439
    BY DEF DayStart, Minute
  <2>2. ASSUME NEW x \in 0..1439, x % 15 = 0, o = d + x,
               (570 <= x /\ x < 690) \/ (780 <= x /\ x < 900)
        PROVE  Accepts(k, "M15", o)
    <3> HIDE DEF d
    <3>1. Minute(o) = x /\ o % 15 = 0
      BY <2>1, <2>2 DEF Minute
    <3> QED BY <1>4, <2>2, <3>1 DEF Accepts, AcceptsCn, CnOpen, InCnMorning, InCnAfternoon
  <2>3. CASE tf = "D1"
    <3>1. DayStart(d + 570) = d
      BY <2>1 DEF DayStart, Minute
    <3>2. PICK x \in {570 + 15 * i : i \in 0..7} \union {780 + 15 * i : i \in 0..7} : o = d + x
      BY <1>4, <2>3, <3>1 DEF ExpectedOpens, CnDayOpens, BucketOpen, CnBucketOpen
    <3> QED BY <2>2, <3>2
  <2>4. CASE tf = "H1"
    <3>1. PICK i \in 0..3 : o = d + CnHourOf(m) + 15 * i
      BY <1>4, <2>4 DEF ExpectedOpens, BucketOpen, CnBucketOpen, ChildCount
    <3>2. CnHourOf(m) \in {570, 630, 780, 840}
      BY <1>4, <2>1, <2>4 DEF MarketOpen, CnOpen, InCnMorning, InCnAfternoon, CnHourOf
    <3> DEFINE x == CnHourOf(m) + 15 * i
    <3>3. /\ x \in 0..1439 /\ x % 15 = 0
          /\ (570 <= x /\ x < 690) \/ (780 <= x /\ x < 900)
      BY <3>2
    <3>4. o = d + x
      BY <2>1, <3>1, <3>2
    <3> QED BY <2>2, <3>3, <3>4
  <2>5. CASE tf = "M15"
    <3>1. o = t - (t % 15)
      BY <1>4, <2>5 DEF ExpectedOpens, BucketOpen, CnBucketOpen, ChildCount
    <3>2. (570 <= m /\ m < 690) \/ (780 <= m /\ m < 900)
      BY <1>4, <2>5 DEF MarketOpen, CnOpen, InCnMorning, InCnAfternoon
    <3> DEFINE x == m - (m % 15)
    <3> HIDE DEF d, m
    <3>3. /\ x \in 0..1439 /\ x % 15 = 0
          /\ (570 <= x /\ x < 690) \/ (780 <= x /\ x < 900)
      BY <2>1, <3>2
    <3>4. t % 15 = m % 15
      BY <2>1
    <3>5. o = d + x
      BY <2>1, <3>1, <3>4
    <3> QED BY <2>2, <3>3, <3>5 DEF d
  <2> QED BY <2>3, <2>4, <2>5 DEF Timeframe
<1> QED BY <1>1, <1>2, <1>3, <1>4 DEF Kind

LEMMA AcceptedIsInSession ==
  ASSUME NEW k \in Kind, NEW tf \in Timeframe, NEW t \in Nat, Accepts(k, "M15", t)
  PROVE  MarketOpen(k, tf, t)
<1>1. CASE k = "continuous"
  BY <1>1 DEF MarketOpen
<1>2. CASE k = "fx"
  BY <1>2 DEF MarketOpen, Accepts, AcceptsFx
<1>3. CASE k = "cn_a"
  <2>1. CnOpen("M15", t)
    BY <1>3 DEF Accepts, AcceptsCn
  <2>2. Minute(t) \in Int
    BY DEF Minute
  <2>3. CnOpen(tf, t)
    BY <2>1, <2>2 DEF CnOpen, InCnMorning, InCnAfternoon
  <2> QED BY <1>3, <2>3 DEF MarketOpen
<1> QED BY <1>1, <1>2, <1>3 DEF Kind

(* The i-th child of bucket b.                                             *)
Nth(k, tf, b, i) ==
  IF k = "cn_a" /\ tf = "D1"
  THEN DayStart(b) + (IF i < 8 THEN 570 + 15 * i ELSE 660 + 15 * i)
  ELSE b + 15 * i

LEMMA ChildIsNth ==
  ASSUME NEW k \in Kind, NEW tf \in Timeframe, NEW b \in Int,
         NEW t \in ExpectedOpens(k, tf, b)
  PROVE  \E i \in 0..(ChildCount(k, tf) - 1) : t = Nth(k, tf, b, i)
<1>1. CASE k = "cn_a" /\ tf = "D1"
  <2>1. ChildCount(k, tf) = 16
    BY <1>1 DEF ChildCount
  <2>2. PICK m \in {570 + 15 * i : i \in 0..7} \union {780 + 15 * i : i \in 0..7} :
               t = DayStart(b) + m
    BY <1>1 DEF ExpectedOpens, CnDayOpens
  <2>3. CASE \E i \in 0..7 : m = 570 + 15 * i
    BY <1>1, <2>1, <2>2, <2>3 DEF Nth
  <2>4. CASE \E i \in 0..7 : m = 780 + 15 * i
    <3>1. PICK i \in 0..7 : m = 780 + 15 * i
      BY <2>4
    <3>2. i + 8 \in 0..15 /\ ~ (i + 8 < 8) /\ 660 + 15 * (i + 8) = m
      BY <3>1
    <3>3. t = Nth(k, tf, b, i + 8)
      BY <1>1, <2>2, <3>2 DEF Nth
    <3> QED BY <2>1, <3>2, <3>3
  <2> QED BY <2>2, <2>3, <2>4
<1>2. CASE ~ (k = "cn_a" /\ tf = "D1")
  BY <1>2 DEF ExpectedOpens, Nth
<1> QED BY <1>1, <1>2

-----------------------------------------------------------------------------
(* The inductive invariant.                                                *)

StoredIsClosed == \A o \in rows : Closes(o) <= now

(* Backfills in flight, and the part of their answer that is done with.    *)
FillInv ==
  \A h \in Handlers :
    /\ fill[h].at <= now
    /\ fill[h].todo \subseteq Offered[market]
    /\ fill[h].todo # {} =>
         \A o \in Fetched(fill[h].at, fill[h].limit) \ fill[h].todo :
           Closes(o) <= fill[h].at /\ Accepts(market, "M15", o) => o \in rows

(* An open bar in the making, or answered: where its parts come from.      *)
BarInv(m, bar) ==
  bar # NoBar =>
    /\ MarketOpen(m, bar.tf, bar.tick)
    /\ bar.tick \in Nat
    /\ bar.open = BucketOpen(m, bar.tf, bar.tick)
    /\ \A o \in bar.children : Closes(o) <= bar.tick
    /\ \A o \in bar.previous : Closes(o) <= bar.open

DerivingInv == \A h \in Handlers : BarInv(market, deriving[h])

IInv == TypeOK /\ StoredIsClosed /\ FillInv /\ DerivingInv /\ BarInv(market, answered)

LEMMA OfferedNat == ASSUME TypeOK PROVE Offered[market] \subseteq Nat /\ market \in Kind
BY OfferedAssumption, MarketsAssumption DEF TypeOK

LEMMA NoBarType == NoBar \in OpenBar /\ \A m : BarInv(m, NoBar)
BY DEF NoBar, OpenBar, Timeframe, BarInv

LEMMA InitInv == ASSUME Init PROVE IInv
<1>1. TypeOK
  <2>1. fill \in [Handlers -> Fill]
    BY DEF Init, Fill, Idle
  <2>2. now \in Nat
    BY ClockAssumption DEF Init
  <2> QED BY <2>1, <2>2, NoBarType DEF Init, TypeOK
<1>2. StoredIsClosed
  BY DEF Init, StoredIsClosed
<1>3. FillInv
  BY <1>1 DEF Init, FillInv, Idle, TypeOK
<1>4. DerivingInv /\ BarInv(market, answered)
  BY NoBarType DEF Init, DerivingInv
<1> QED BY <1>1, <1>2, <1>3, <1>4 DEF IInv

LEMMA ClosesInt == ASSUME NEW o \in Nat PROVE Closes(o) = o + 15
BY DEF Closes, M15, Duration

(* A step that leaves the backfills alone.                                 *)
LEMMA SameFill ==
  ASSUME IInv, market' = market, rows' = rows, fill' = fill, now' \in Nat, now <= now'
  PROVE  StoredIsClosed' /\ FillInv'
<1>1. StoredIsClosed'
  BY ClosesInt DEF IInv, TypeOK, StoredIsClosed, Closes
<1>2. FillInv'
  BY DEF IInv, TypeOK, FillInv, Fetched, Fill
<1> QED BY <1>1, <1>2

(* A step that leaves the open bars in the making alone.                   *)
LEMMA SameDeriving ==
  ASSUME DerivingInv, market' = market, deriving' = deriving, answered' = NoBar
  PROVE  DerivingInv' /\ BarInv(market, answered)'
BY DEF DerivingInv, BarInv

LEMMA AdvanceInv == ASSUME IInv, Advance PROVE IInv'
<1>1. now' \in Nat /\ now <= now' /\ market' = market
  BY ClockAssumption DEF IInv, TypeOK, Advance
<1>2. TypeOK'
  BY <1>1, NoBarType DEF IInv, TypeOK, Advance
<1>3. StoredIsClosed' /\ FillInv'
  BY <1>1, SameFill DEF Advance
<1>4. DerivingInv' /\ BarInv(market, answered)'
  BY SameDeriving DEF IInv, Advance
<1> QED BY <1>2, <1>3, <1>4 DEF IInv

LEMMA FetchedType ==
  ASSUME NEW t, NEW n PROVE Fetched(t, n) \subseteq Offered[market]
BY DEF Fetched, Latest

LEMMA FetchInv ==
  ASSUME IInv, NEW h \in Handlers, NEW n \in Limits, Fetch(h, n)
  PROVE  IInv'
<1>1. Fetched(now, n) \subseteq Offered[market] /\ n \in Nat /\ Offered[market] \subseteq Nat
  BY FetchedType, LimitsAssumption, OfferedNat DEF IInv
<1> DEFINE new == [at |-> now, limit |-> n, todo |-> Fetched(now, n)]
<1>2. new \in Fill
  BY <1>1 DEF IInv, TypeOK, Fill
<1>3. TypeOK'
  BY <1>2, NoBarType DEF IInv, TypeOK, Fetch
<1>4. StoredIsClosed'
  BY DEF IInv, StoredIsClosed, Fetch
<1>5. FillInv'
  <2> SUFFICES ASSUME NEW g \in Handlers
               PROVE  /\ fill'[g].at <= now
                      /\ fill'[g].todo \subseteq Offered[market]
                      /\ fill'[g].todo # {} =>
                           \A o \in Fetched(fill'[g].at, fill'[g].limit) \ fill'[g].todo :
                             Closes(o) <= fill'[g].at /\ Accepts(market, "M15", o) => o \in rows
    BY DEF FillInv, Fetch, Fetched
  <2>1. CASE g = h
    <3>1. fill'[g] = new
      BY <2>1 DEF IInv, TypeOK, Fetch
    <3> QED BY <3>1, <1>1 DEF IInv, TypeOK
  <2>2. CASE g # h
    <3>1. fill'[g] = fill[g]
      BY <2>2 DEF IInv, TypeOK, Fetch
    <3> QED BY <3>1 DEF IInv, FillInv
  <2> QED BY <2>1, <2>2
<1>6. DerivingInv' /\ BarInv(market, answered)'
  BY SameDeriving DEF IInv, Fetch
<1> QED BY <1>3, <1>4, <1>5, <1>6 DEF IInv

(* The backfills after one of them has ended or has finished with a bar.   *)
LEMMA DoneInv ==
  ASSUME IInv, NEW h \in Handlers, NEW todo,
         market' = market, now' = now, rows \subseteq rows',
         \/ fill' = [fill EXCEPT ![h] = Idle]
         \/ /\ fill' = [fill EXCEPT ![h] = [@ EXCEPT !.todo = todo]]
            /\ fill[h].todo # {} /\ todo \subseteq fill[h].todo
            /\ \A o \in fill[h].todo \ todo :
                 Closes(o) <= fill[h].at /\ Accepts(market, "M15", o) => o \in rows'
  PROVE  fill' \in [Handlers -> Fill] /\ FillInv'
<1>1. ASSUME NEW g \in Handlers
      PROVE  /\ fill'[g] \in Fill
             /\ fill'[g].at <= now
             /\ fill'[g].todo \subseteq Offered[market]
             /\ fill'[g].todo # {} =>
                  \A o \in Fetched(fill'[g].at, fill'[g].limit) \ fill'[g].todo :
                    Closes(o) <= fill'[g].at /\ Accepts(market, "M15", o) => o \in rows'
  <2>1. CASE g # h
    <3>1. fill'[g] = fill[g]
      BY <2>1 DEF IInv, TypeOK
    <3> QED BY <3>1 DEF IInv, TypeOK, FillInv
  <2>2. CASE g = h /\ fill' = [fill EXCEPT ![h] = Idle]
    <3>1. fill'[g] = Idle
      BY <2>2 DEF IInv, TypeOK
    <3> QED BY <3>1 DEF Idle, Fill, IInv, TypeOK
  <2>3. CASE /\ g = h
             /\ fill' = [fill EXCEPT ![h] = [@ EXCEPT !.todo = todo]]
             /\ fill[h].todo # {} /\ todo \subseteq fill[h].todo
             /\ \A o \in fill[h].todo \ todo :
                  Closes(o) <= fill[h].at /\ Accepts(market, "M15", o) => o \in rows'
    <3>1. fill[h] \in Fill /\ fill'[g] = [fill[h] EXCEPT !.todo = todo]
      BY <2>3 DEF IInv, TypeOK
    <3>2. /\ fill'[g].at = fill[h].at /\ fill'[g].limit = fill[h].limit
          /\ fill'[g].todo = todo
          /\ fill'[g] \in Fill
      BY <3>1, <2>3 DEF Fill
    <3>3. /\ fill[h].at <= now /\ fill[h].todo \subseteq Offered[market]
          /\ \A o \in Fetched(fill[h].at, fill[h].limit) \ fill[h].todo :
               Closes(o) <= fill[h].at /\ Accepts(market, "M15", o) => o \in rows
      BY <2>3 DEF IInv, FillInv
    <3> QED BY <3>2, <3>3, <2>3
  <2> QED BY <2>1, <2>2, <2>3
<1>2. fill' \in [Handlers -> Fill]
  BY <1>1 DEF IInv, TypeOK
<1>3. FillInv'
  BY <1>1 DEF FillInv, Fetched
<1> QED BY <1>2, <1>3

LEMMA StoreNextInv ==
  ASSUME IInv, NEW h \in Handlers, NEW o \in Offered[market], StoreNext(h, o)
  PROVE  IInv'
<1> DEFINE todo == fill[h].todo \ {o}
<1>1. o \in Nat /\ Closes(o) = o + 15
  BY OfferedNat, ClosesInt DEF IInv
<1>2. /\ rows \subseteq rows' /\ rows' \subseteq rows \union {o}
      /\ Storable(o) => o \in rows'
      /\ o \in rows' \ rows => Closes(o) <= now
      /\ partial' \subseteq rows'
  BY DEF StoreNext, Storable, IInv, TypeOK
<1>3. fill' \in [Handlers -> Fill] /\ FillInv'
  <2>1. fill[h].at \in Nat /\ now \in Nat /\ fill[h].at <= now
    BY DEF IInv, TypeOK, FillInv, Fill
  <2>2. Closes(o) <= fill[h].at /\ Accepts(market, "M15", o) => o \in rows'
    BY <1>1, <1>2, <2>1 DEF Storable
  <2>3. o \in fill[h].todo /\ market' = market /\ now' = now
    BY DEF StoreNext, IsFirst
  <2>4. \/ fill' = [fill EXCEPT ![h] = Idle]
        \/ fill' = [fill EXCEPT ![h] = [@ EXCEPT !.todo = todo]]
    BY DEF StoreNext, Done
  <2> QED BY <1>2, <2>2, <2>3, <2>4, DoneInv
<1>4. TypeOK'
  BY <1>1, <1>2, <1>3, NoBarType DEF IInv, TypeOK, StoreNext
<1>5. StoredIsClosed'
  BY <1>2 DEF IInv, StoredIsClosed, StoreNext
<1>6. DerivingInv' /\ BarInv(market, answered)'
  BY SameDeriving DEF IInv, StoreNext
<1> QED BY <1>3, <1>4, <1>5, <1>6 DEF IInv

LEMMA AbortInv == ASSUME IInv, NEW h \in Handlers, Abort(h) PROVE IInv'
<1>1. fill' \in [Handlers -> Fill] /\ FillInv'
  BY DoneInv DEF Abort
<1>2. TypeOK'
  BY <1>1, NoBarType DEF IInv, TypeOK, Abort
<1>3. StoredIsClosed'
  BY DEF IInv, StoredIsClosed, Abort
<1>4. DerivingInv' /\ BarInv(market, answered)'
  BY SameDeriving DEF IInv, Abort
<1> QED BY <1>1, <1>2, <1>3, <1>4 DEF IInv

LEMMA ReadChildrenInv ==
  ASSUME IInv, NEW h \in Handlers, NEW tf \in Targets, NEW tick \in Clock[market],
         ReadChildren(h, tf, tick)
  PROVE  IInv'
<1> DEFINE b == BucketOpen(market, tf, tick)
           bar == [tf |-> tf, tick |-> tick, open |-> b,
                   children |-> Children(tf, b, tick), previous |-> {}]
<1>1. tf \in Timeframe /\ tick \in Nat /\ market \in Kind /\ market \in Markets
  BY TargetsAssumption, ClockAssumption, MarketsAssumption DEF IInv, TypeOK
<1>2. MarketOpen(market, tf, tick)
  BY DEF ReadChildren
<1>3. b \in Int
  BY <1>1, <1>2, TickInBucket
<1>4. Children(tf, b, tick) \subseteq rows /\ \A o \in Children(tf, b, tick) : Closes(o) <= tick
  BY DEF Children, InBucket
<1> HIDE DEF b
<1>5. bar \in OpenBar
  <2>1. Children(tf, b, tick) \subseteq Nat
    BY <1>4 DEF IInv, TypeOK
  <2> QED BY <1>1, <1>3, <2>1 DEF OpenBar
<1>6. BarInv(market, bar)
  BY <1>1, <1>2, <1>4 DEF BarInv, b
<1>7. /\ deriving' = [deriving EXCEPT ![h] = bar] \/ deriving' = deriving
      /\ answered' \in {NoBar, bar} /\ market' = market
  BY DEF ReadChildren, b
<1> HIDE DEF bar
<1>8. TypeOK'
  BY <1>5, <1>7, NoBarType DEF IInv, TypeOK, ReadChildren
<1>9. StoredIsClosed' /\ FillInv'
  BY SameFill DEF IInv, TypeOK, ReadChildren
<1>10. DerivingInv'
  BY <1>6, <1>7 DEF IInv, TypeOK, DerivingInv
<1>11. BarInv(market, answered)'
  BY <1>6, <1>7, NoBarType
<1> QED BY <1>8, <1>9, <1>10, <1>11 DEF IInv

LEMMA ReadPreviousInv == ASSUME IInv, NEW h \in Handlers, ReadPrevious(h) PROVE IInv'
<1> DEFINE bar == deriving[h]
           new == [bar EXCEPT !.previous = Before(bar.open)]
<1>1. bar \in OpenBar /\ BarInv(market, bar) /\ bar # NoBar
  BY DEF IInv, TypeOK, DerivingInv, ReadPrevious
<1>2. /\ Before(bar.open) \subseteq rows
      /\ \A o \in Before(bar.open) : Closes(o) <= bar.open
  BY DEF Before, Latest
<1>3. /\ new \in OpenBar /\ new.tf = bar.tf /\ new.tick = bar.tick
      /\ new.open = bar.open /\ new.children = bar.children
      /\ new.previous = Before(bar.open)
  BY <1>1, <1>2 DEF OpenBar, IInv, TypeOK
<1>4. BarInv(market, new)
  BY <1>1, <1>2, <1>3 DEF BarInv
<1>5. answered' = new /\ deriving' = [deriving EXCEPT ![h] = NoBar] /\ market' = market
  BY DEF ReadPrevious
<1> HIDE DEF new
<1>6. TypeOK'
  BY <1>3, <1>5, NoBarType DEF IInv, TypeOK, ReadPrevious
<1>7. StoredIsClosed' /\ FillInv'
  BY SameFill DEF IInv, TypeOK, ReadPrevious
<1>8. DerivingInv'
  BY <1>5, NoBarType DEF IInv, TypeOK, DerivingInv, BarInv
<1>9. BarInv(market, answered)'
  BY <1>4, <1>5 DEF BarInv
<1> QED BY <1>6, <1>7, <1>8, <1>9 DEF IInv

LEMMA StutterInv == ASSUME IInv, UNCHANGED vars PROVE IInv'
BY DEF vars, IInv, TypeOK, StoredIsClosed, FillInv, Fetched, DerivingInv, BarInv

(* Types; rows whose bars have closed; backfills that skip nothing they    *)
(* could store; open bars made of what had closed.                         *)
THEOREM Invariant == Spec => []IInv
<1>1. IInv /\ [Next]_vars => IInv'
  BY StutterInv, AdvanceInv, FetchInv, StoreNextInv, AbortInv, ReadChildrenInv,
     ReadPreviousInv DEF Next
<1> QED BY <1>1, InitInv, PTL DEF Spec

-----------------------------------------------------------------------------
(* A complete bucket, however many are asked for, holds the child that     *)
(* closes with it, and rows are only stored once they have closed.         *)
LEMMA WholeIsOver ==
  ASSUME IInv, NEW tf \in Targets, NEW n, NEW b \in Complete(tf, n)
  PROVE  BucketClose(market, tf, b) <= now
<1> DEFINE last == BucketClose(market, tf, b) - 15
<1>1. tf \in Timeframe /\ market \in Kind
  BY TargetsAssumption, OfferedNat DEF IInv
<1>2. PICK o \in Listed(tf, n) : b = BucketOpen(market, tf, o)
  BY DEF Complete, Buckets
<1>3. Listed(tf, n) \subseteq rows /\ Accepts(market, "M15", o)
  BY <1>2 DEF Listed, Latest
<1>4. o \in Nat
  BY <1>2, <1>3 DEF IInv, TypeOK
<1>5. b \in Int
  BY <1>1, <1>2, <1>3, <1>4, AcceptedIsInSession, TickInBucket
<1>6. last \in ExpectedOpens(market, tf, b)
  BY <1>1, <1>5, LastChildClosesBucket
<1>7. last \in rows
  BY <1>3, <1>6 DEF Complete, IsWhole, InBucket
<1>8. last \in Nat /\ now \in Nat /\ Closes(last) <= now
  BY <1>7 DEF IInv, TypeOK, StoredIsClosed
<1>9. BucketClose(market, tf, b) \in Int
  BY <1>1, <1>5 DEF BucketClose, Duration, Timeframe, DayStart, Minute
<1> QED BY <1>8, <1>9, ClosesInt

(* Buckets shown as complete are over (aggregate_rows, service.rs:277).    *)
THEOREM CompleteIsOver == Spec => []CompleteMeansClosed
<1>1. IInv => CompleteMeansClosed
  BY WholeIsOver DEF CompleteMeansClosed
<1> QED BY <1>1, Invariant, PTL

(* The open bar knows nothing from after its tick and lacks a child at     *)
(* least (derive_open_bar, service.rs:174).                                *)
THEOREM OpenBarsAreOpen == Spec => []OpenBarIsOpen
<1>1. IInv => OpenBarIsOpen
  <2> SUFFICES ASSUME IInv, answered # NoBar
               PROVE  /\ answered.open <= answered.tick
                      /\ answered.tick < BucketClose(market, answered.tf, answered.open)
                      /\ \A o \in answered.children \union answered.previous :
                           Closes(o) <= answered.tick
                      /\ ~ (ExpectedOpens(market, answered.tf, answered.open)
                              \subseteq answered.children)
    BY DEF OpenBarIsOpen
  <2> DEFINE tf == answered.tf
             tick == answered.tick
             b == answered.open
             close == BucketClose(market, tf, b)
  <2>1. /\ tf \in Timeframe /\ tick \in Nat /\ market \in Kind
        /\ b = BucketOpen(market, tf, tick) /\ MarketOpen(market, tf, tick)
        /\ \A o \in answered.children : Closes(o) <= tick
        /\ \A o \in answered.previous : Closes(o) <= b
        /\ answered.children \subseteq Nat /\ answered.previous \subseteq Nat
    BY OfferedNat DEF IInv, TypeOK, BarInv, OpenBar
  <2> HIDE DEF tf, tick, b
  <2>2. b \in Int /\ b <= tick /\ tick < close
    BY <2>1, TickInBucket
  <2>3. close \in Int
    BY <2>1, <2>2 DEF BucketClose, Duration, Timeframe, DayStart, Minute
  <2>4. close - 15 \in ExpectedOpens(market, tf, b)
    BY <2>1, <2>2, LastChildClosesBucket
  <2> HIDE DEF close
  <2>5. close - 15 \notin answered.children
    <3> SUFFICES ASSUME close - 15 \in answered.children PROVE FALSE
      OBVIOUS
    <3>1. close - 15 \in Nat /\ Closes(close - 15) <= tick
      BY <2>1
    <3> QED BY <3>1, <2>1, <2>2, <2>3, ClosesInt
  <2>6. \A o \in answered.previous : Closes(o) <= tick
    BY <2>1, <2>2, ClosesInt
  <2> QED BY <2>1, <2>2, <2>4, <2>5, <2>6 DEF tf, tick, b, close
<1> QED BY <1>1, Invariant, PTL

-----------------------------------------------------------------------------
(* The limit on the rows that an aggregation reads.                        *)

(* Nothing is stored that the provider does not know or that is not in     *)
(* session.                                                                *)
RowsAccepted ==
  /\ rows \subseteq Offered[market]
  /\ \A o \in rows : Accepts(market, "M15", o)

LEMMA RowsAcceptedStep == ASSUME RowsAccepted, [Next]_vars PROVE RowsAccepted'
<1>1. CASE Advance
  BY <1>1 DEF RowsAccepted, Advance
<1>2. ASSUME NEW h \in Handlers, NEW n \in Limits, Fetch(h, n) PROVE RowsAccepted'
  BY <1>2 DEF RowsAccepted, Fetch
<1>3. ASSUME NEW h \in Handlers, NEW o \in Offered[market], StoreNext(h, o)
      PROVE  RowsAccepted'
  BY <1>3 DEF RowsAccepted, StoreNext, Storable
<1>4. ASSUME NEW h \in Handlers, Abort(h) PROVE RowsAccepted'
  BY <1>4 DEF RowsAccepted, Abort
<1>5. ASSUME NEW h \in Handlers, NEW tf \in Targets, NEW t \in Clock[market],
             ReadChildren(h, tf, t)
      PROVE  RowsAccepted'
  BY <1>5 DEF RowsAccepted, ReadChildren
<1>6. ASSUME NEW h \in Handlers, ReadPrevious(h) PROVE RowsAccepted'
  BY <1>6 DEF RowsAccepted, ReadPrevious
<1>7. CASE UNCHANGED vars
  BY <1>7 DEF RowsAccepted, vars
<1> QED BY <1>1, <1>2, <1>3, <1>4, <1>5, <1>6, <1>7 DEF Next

LEMMA RowsAreAccepted == Spec => []RowsAccepted
<1>1. Init => RowsAccepted
  BY DEF Init, RowsAccepted
<1> QED BY <1>1, RowsAcceptedStep, PTL DEF Spec

LEMMA RowsFinite ==
  ASSUME TypeOK, RowsAccepted
  PROVE  IsFiniteSet(rows) /\ rows \subseteq Nat /\ \A o \in rows : o % 15 = 0
<1>1. IsFiniteSet(Offered[market]) /\ \A o \in Offered[market] : o % 15 = 0
  BY QuartersAssumption DEF TypeOK
<1> QED BY <1>1, FS_Subset DEF RowsAccepted, TypeOK

LEMMA TimesMonotonic ==
  ASSUME NEW x \in Nat, NEW y \in Nat, NEW z \in Nat, x <= y
  PROVE  x * z <= y * z /\ y * z \in Nat
<1> DEFINE d == y - x
<1>1. d \in Nat /\ y = x + d
  OBVIOUS
<1> HIDE DEF d
<1>2. y * z = x * z + d * z
  BY <1>1
<1>3. x * z \in Nat /\ d * z \in Nat
  BY <1>1
<1> QED BY <1>2, <1>3

(* A row is known by its bucket and its place in the bucket.               *)
LEMMA RowHasPlace ==
  ASSUME TypeOK, RowsAccepted, NEW tf \in Timeframe, NEW o \in rows
  PROVE  /\ MarketOpen(market, tf, o)
         /\ BucketOpen(market, tf, o) \in Int
         /\ BucketClose(market, tf, BucketOpen(market, tf, o)) \in Int
         /\ o \in InBucket(rows, tf, BucketOpen(market, tf, o))
         /\ \E i \in 0..(ChildCount(market, tf) - 1) :
              o = Nth(market, tf, BucketOpen(market, tf, o), i)
<1> DEFINE b == BucketOpen(market, tf, o)
<1>1. market \in Kind /\ o \in Nat /\ o % 15 = 0 /\ Accepts(market, "M15", o)
  BY OfferedNat, RowsFinite DEF RowsAccepted
<1>2. MarketOpen(market, tf, o)
  BY <1>1, AcceptedIsInSession
<1>3. b \in Int /\ b <= o /\ o < BucketClose(market, tf, b)
  BY <1>1, <1>2, TickInBucket
<1>4. o \in ExpectedOpens(market, tf, b)
  BY <1>1, AcceptedIsExpected
<1> HIDE DEF b
<1>5. BucketClose(market, tf, b) \in Int
  BY <1>3 DEF BucketClose, Duration, Timeframe, DayStart, Minute
<1>6. \E i \in 0..(ChildCount(market, tf) - 1) : o = Nth(market, tf, b, i)
  BY <1>1, <1>3, <1>4, ChildIsNth
<1> QED BY <1>2, <1>3, <1>5, <1>6 DEF InBucket, b

(* So many rows at most belong to a set of buckets.                        *)
LEMMA RowsOfBuckets ==
  ASSUME TypeOK, RowsAccepted, NEW tf \in Timeframe, NEW S \in SUBSET rows,
         NEW B, IsFiniteSet(B), \A o \in S : BucketOpen(market, tf, o) \in B
  PROVE  Cardinality(S) <= Cardinality(B) * ChildCount(market, tf)
<1> DEFINE c == ChildCount(market, tf)
           place(o) == CHOOSE i \in 0..(c - 1) : o = Nth(market, tf, BucketOpen(market, tf, o), i)
           f == [o \in S |-> <<BucketOpen(market, tf, o), place(o)>>]
<1>1. c \in Nat /\ c > 0
  BY OfferedNat DEF ChildCount, Timeframe, Kind
<1>2. \A o \in S : /\ place(o) \in 0..(c - 1)
                   /\ o = Nth(market, tf, BucketOpen(market, tf, o), place(o))
  BY RowHasPlace
<1> HIDE DEF c, place
<1>3. f \in [S -> B \X (0..(c - 1))]
  BY <1>2
<1>4. \A o \in S : o = Nth(market, tf, f[o][1], f[o][2])
  BY <1>2
<1>5. \A o, p \in S : f[o] = f[p] => o = p
  BY <1>4
<1> HIDE DEF f
<1>6. f \in Injection(S, B \X (0..(c - 1)))
  BY <1>3, <1>5, Fun_IsInj
<1>7. IsFiniteSet(0..(c - 1)) /\ Cardinality(0..(c - 1)) = c
  BY <1>1, FS_Interval
<1>8. /\ IsFiniteSet(B \X (0..(c - 1)))
      /\ Cardinality(B \X (0..(c - 1))) = Cardinality(B) * c
  BY <1>7, FS_Product
<1>9. Cardinality(S) <= Cardinality(B \X (0..(c - 1)))
  BY <1>6, <1>8, FS_Injection
<1> QED BY <1>8, <1>9 DEF c

(* The rows from one of bucket b on are so few that an aggregation of n    *)
(* bars reads them all, if fewer than n of the later buckets have rows.    *)
LEMMA RowIsRead ==
  ASSUME TypeOK, RowsAccepted, NEW tf \in Timeframe, NEW n \in Nat,
         NEW b \in Buckets(tf, rows), NEW o \in InBucket(rows, tf, b),
         Cardinality(Buckets(tf, {p \in rows : p >= BucketClose(market, tf, b)})) < n
  PROVE  o \in Latest(rows, n * ChildCount(market, tf))
<1> DEFINE later == {p \in rows : p >= BucketClose(market, tf, b)}
           L == Buckets(tf, later)
           from == {p \in rows : p >= o}
           above == {p \in rows : p > o}
           c == ChildCount(market, tf)
<1>1. PICK u \in rows : b = BucketOpen(market, tf, u)
  BY DEF Buckets
<1>2. /\ IsFiniteSet(rows) /\ rows \subseteq Nat /\ o \in rows
      /\ b \in Int /\ BucketClose(market, tf, b) \in Int /\ b <= o
      /\ market \in Kind
  BY <1>1, RowsFinite, RowHasPlace, OfferedNat DEF InBucket
<1>3. \A p \in from : BucketOpen(market, tf, p) \in L \union {b}
  <2> SUFFICES ASSUME NEW p \in from PROVE BucketOpen(market, tf, p) \in L \union {b}
    OBVIOUS
  <2>1. CASE p >= BucketClose(market, tf, b)
    BY <2>1 DEF Buckets
  <2>2. CASE ~ (p >= BucketClose(market, tf, b))
    <3>1. p \in Nat /\ b <= p /\ p < BucketClose(market, tf, b) /\ u \in Nat
      BY <1>1, <1>2, <2>2
    <3>2. MarketOpen(market, tf, p) /\ MarketOpen(market, tf, u)
      BY <1>1, RowHasPlace
    <3> QED BY <1>1, <1>2, <3>1, <3>2, IntervalIsBucket
  <2> QED BY <2>1, <2>2
<1>4. IsFiniteSet(L)
  <2> DEFINE g == [p \in later |-> BucketOpen(market, tf, p)]
  <2>1. IsFiniteSet(later)
    BY <1>2, FS_Subset
  <2>2. g \in Surjection(later, L)
    <3>1. g \in [later -> L] /\ \A x \in L : \E p \in later : g[p] = x
      BY DEF Buckets
    <3> HIDE DEF g, L, later
    <3> QED BY <3>1, Fun_IsSurj
  <2> HIDE DEF g, L, later
  <2> QED BY <2>1, <2>2, FS_Surjection
<1>5. /\ IsFiniteSet(L \union {b}) /\ Cardinality(L \union {b}) \in Nat
      /\ Cardinality(L \union {b}) <= n
  <2>1. Cardinality(L) \in Nat /\ Cardinality(L) < n
    BY <1>4, FS_CardinalityType
  <2> HIDE DEF L
  <2>2. IsFiniteSet(L \union {b})
    BY <1>4, FS_AddElement
  <2>3. Cardinality(L \union {b}) = IF b \in L THEN Cardinality(L) ELSE Cardinality(L) + 1
    BY <1>4, FS_AddElement
  <2> QED BY <2>1, <2>2, <2>3
<1>6. IsFiniteSet(from) /\ Cardinality(from) \in Nat
  BY <1>2, FS_Subset, FS_CardinalityType
<1> HIDE DEF L, later
<1>7. Cardinality(from) <= Cardinality(L \union {b}) * c
  BY <1>3, <1>5, RowsOfBuckets
<1>8. c \in Nat /\ c > 0
  BY <1>2 DEF ChildCount, Timeframe, Kind
<1> HIDE DEF c
<1>9. Cardinality(L \union {b}) * c <= n * c /\ n * c \in Nat
  BY <1>5, <1>8, TimesMonotonic
<1>10. above = from \ {o} /\ o \in from
  <2>1. o \in Nat /\ o \in rows /\ \A p \in rows : p \in Nat
    BY <1>2
  <2>2. \A p \in rows : p > o <=> (p >= o /\ p # o)
    BY <2>1
  <2>3. above = from \ {o}
    BY <2>2, Zenon
  <2>4. o >= o
    BY <2>1
  <2> QED BY <2>1, <2>3, <2>4
<1>11. Cardinality(above) = Cardinality(from) - 1
  BY <1>6, <1>10, FS_RemoveElement
<1> HIDE DEF from
<1>12. Cardinality(above) < n * c
  <2> DEFINE x == Cardinality(L \union {b}) * c
             y == n * c
  <2>1. x \in Nat
    BY <1>5, <1>8
  <2> HIDE DEF x, y
  <2> QED BY <1>6, <1>7, <1>9, <1>11, <2>1 DEF x, y
<1> QED BY <1>2, <1>12 DEF Latest, c

LEMMA WholeIsComplete ==
  ASSUME TypeOK, RowsAccepted, NEW tf \in Timeframe, NEW n \in Nat,
         NEW b \in Buckets(tf, rows), IsWhole(rows, tf, b),
         Cardinality(Buckets(tf, {p \in rows : p >= BucketClose(market, tf, b)})) < n
  PROVE  b \in Complete(tf, n)
<1>1. Listed(tf, n) \subseteq rows
  BY DEF Listed, Latest
<1>2. \A o \in InBucket(rows, tf, b) : o \in Listed(tf, n)
  BY RowIsRead DEF Listed, RowsAccepted, InBucket
<1>3. InBucket(Listed(tf, n), tf, b) = InBucket(rows, tf, b)
  BY <1>1, <1>2 DEF InBucket
<1>4. PICK u \in rows : b = BucketOpen(market, tf, u)
  BY DEF Buckets
<1>5. u \in Listed(tf, n)
  BY <1>2, <1>4, RowHasPlace
<1>6. b \in Buckets(tf, Listed(tf, n))
  BY <1>4, <1>5 DEF Buckets
<1> QED BY <1>3, <1>6 DEF Complete, IsWhole

(* A bucket whose children are all stored is shown as complete if fewer    *)
(* than n of the later buckets have rows (aggregate_rows, service.rs:277): *)
(* n times as many rows as a bucket has children are always enough, also   *)
(* across the ends of sessions and with holes in the table.                *)
THEOREM WholeBucketsAreListed == Spec => []WholeBucketIsListed
<1>1. TypeOK /\ RowsAccepted => WholeBucketIsListed
  <2> SUFFICES ASSUME TypeOK, RowsAccepted, NEW tf \in Targets, NEW n \in Limits,
                      NEW b \in Buckets(tf, rows), IsWhole(rows, tf, b),
                      Cardinality(Buckets(tf, {o \in rows : o >= BucketClose(market, tf, b)})) < n
               PROVE  b \in Complete(tf, n)
    <3>1. RowsAccepted => {o \in rows : Accepts(market, "M15", o)} = rows
      BY DEF RowsAccepted
    <3> QED BY <3>1 DEF WholeBucketIsListed
  <2>1. tf \in Timeframe /\ n \in Nat
    BY TargetsAssumption, LimitsAssumption
  <2> QED BY <2>1, WholeIsComplete
<1> QED BY <1>1, Invariant, RowsAreAccepted, PTL DEF IInv

(* A backfill that fails leaves no hole among the bars before the one it   *)
(* failed at (backfill_canonical_klines, service.rs:65-88).                *)
THEOREM BackfillsLeavePrefix == Spec => []FailureLeavesPrefix
<1>1. IInv => FailureLeavesPrefix
  BY DEF IInv, FillInv, FailureLeavesPrefix
<1> QED BY <1>1, Invariant, PTL
=============================================================================
